------------------------------ MODULE MCSessions ------------------------------
EXTENDS Sessions

=============================================================================
