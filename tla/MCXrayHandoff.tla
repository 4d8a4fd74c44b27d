---------------------------- MODULE MCXrayHandoff ----------------------------
EXTENDS XrayHandoff
=============================================================================
