---- MODULE MCBwClient ----
EXTENDS BwClient
====
