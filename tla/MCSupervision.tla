---------------------------- MODULE MCSupervision ----------------------------
\* Model checking of Supervision.
EXTENDS Supervision
=============================================================================
