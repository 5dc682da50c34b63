---------------------------- MODULE MCMailboxSteps ----------------------------
EXTENDS MailboxSteps

\* One operation at a time and two crashes; two threads and one crash.
MCLimits == {[events |-> 3, overlap |-> 1, crashes |-> 2],
             [events |-> 2, overlap |-> 2, crashes |-> 1]}
MCRace == {[events |-> 2, overlap |-> 2, crashes |-> 0]}
=============================================================================
