---------------------------- MODULE MCProvisioning ----------------------------
EXTENDS Provisioning
=============================================================================
