--------------------------- MODULE MCFlowControl ----------------------------
EXTENDS FlowControl
=============================================================================
