--------------------------- MODULE MCMailboxKernel ---------------------------
EXTENDS MailboxKernel

MCRefs == {0, 1}
=============================================================================
