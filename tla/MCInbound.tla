----------------------------- MODULE MCInbound -----------------------------
\* Model checking Inbound: every environment of Config, every request, one at a time.
EXTENDS Inbound
=============================================================================
