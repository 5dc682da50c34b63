-------------------------- MODULE MCReplyDelivery --------------------------
EXTENDS ReplyDelivery

\* Two replies over a crash and a cancellation, and one over two crashes, a
\* cancellation and a recovery.
MCLimits ==
    {[replies |-> 2, cancels |-> 1, recovers |-> 0, crashes |-> 1],
     [replies |-> 1, cancels |-> 1, recovers |-> 1, crashes |-> 2]}
=============================================================================
