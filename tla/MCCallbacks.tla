----------------------------- MODULE MCCallbacks -----------------------------
EXTENDS Callbacks

\* Two edges, nested or one after the other, with a crash or a cancellation;
\* one edge with two of a crash, a cancellation and a retry; two requests;
\* a continuation that a crash keeps out of the mailbox, is cancelled there
\* and is found by a repair after a second crash.
MCLimits ==
    {[asks |-> 1, chains |-> 2, cancels |-> 0, crashes |-> 1, retries |-> 0],
     [asks |-> 1, chains |-> 2, cancels |-> 1, crashes |-> 0, retries |-> 0],
     [asks |-> 1, chains |-> 1, cancels |-> 1, crashes |-> 1, retries |-> 0],
     [asks |-> 1, chains |-> 1, cancels |-> 1, crashes |-> 2, retries |-> 0],
     [asks |-> 1, chains |-> 1, cancels |-> 0, crashes |-> 1, retries |-> 1],
     [asks |-> 1, chains |-> 1, cancels |-> 1, crashes |-> 0, retries |-> 1],
     [asks |-> 2, chains |-> 1, cancels |-> 0, crashes |-> 1, retries |-> 0]}

\* Two edges, and nothing goes wrong but a target that is not available.
MCUndisturbed ==
    {[asks |-> 1, chains |-> 2, cancels |-> 0, crashes |-> 0, retries |-> 0]}
=============================================================================
