---------------------------- MODULE MCThreadPool ------------------------------
EXTENDS ThreadPool
=============================================================================
