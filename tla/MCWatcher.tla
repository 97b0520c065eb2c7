----------------------------- MODULE MCWatcher -----------------------------
EXTENDS Watcher
=============================================================================
