---------------------------- MODULE MCBillingBreaker ------------------------
EXTENDS BillingBreaker
=============================================================================
