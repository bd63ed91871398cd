--------------------------- MODULE MCImageArchive ---------------------------
EXTENDS ImageArchive
=============================================================================
