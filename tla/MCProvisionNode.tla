---------------------------- MODULE MCProvisionNode ----------------------------
EXTENDS ProvisionNode
===============================================================================
