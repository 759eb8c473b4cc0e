----------------------------- MODULE MCByteFramer ------------------------------
EXTENDS ByteFramer, MCDocuments
================================================================================
