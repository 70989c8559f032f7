---------------------------- MODULE MCRadioInbox ----------------------------
EXTENDS RadioInbox
=============================================================================
