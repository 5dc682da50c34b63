---------------------------- MODULE MCDispatcher ----------------------------
EXTENDS Dispatcher

\* Each pair of a retry that a user asks for, a cancel and a crash over two
\* messages, all three over one, and a submission that overlaps the
\* heartbeat.
MCLimits ==
    {[messages |-> 2, retries |-> 0, cancels |-> 1, crashes |-> 1, overlap |-> 1],
     [messages |-> 2, retries |-> 1, cancels |-> 0, crashes |-> 1, overlap |-> 1],
     [messages |-> 2, retries |-> 1, cancels |-> 1, crashes |-> 0, overlap |-> 1],
     [messages |-> 1, retries |-> 1, cancels |-> 1, crashes |-> 1, overlap |-> 1],
     [messages |-> 2, retries |-> 0, cancels |-> 0, crashes |-> 1, overlap |-> 2]}
MCRace ==
    {[messages |-> 1, retries |-> 0, cancels |-> 1, crashes |-> 0, overlap |-> 2]}
MCRestart ==
    {[messages |-> 1, retries |-> 0, cancels |-> 0, crashes |-> 1, overlap |-> 1]}

MCStartOutcomes == {"submitted", "raised", "skipped"}

\* One decision for each way complete_job goes on.
FewDecisions == {[status |-> "completed", retryable |-> FALSE],
                 [status |-> "failed", retryable |-> TRUE],
                 [status |-> "incomplete", retryable |-> FALSE]}
=============================================================================
