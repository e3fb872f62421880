--------------------------- MODULE MCSftpTransfers ---------------------------
EXTENDS SftpTransfers

CONSTANTS fed1, drop1, down1
=============================================================================
