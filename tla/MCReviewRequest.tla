--------------------------- MODULE MCReviewRequest ---------------------------
(* ReviewRequest for TLC: the clients are interchangeable. *)
EXTENDS ReviewRequest, TLC

ClientSymmetry == Permutations(Clients)

W(action, head, base, open) ==
    [action |-> action, pr |-> [head |-> head, base |-> base, open |-> open]]

\* A push and the end; closed and reopened; a command and another base; a
\* mention.
Stories ==
    {<<W("opened", 1, 1, TRUE), W("synchronize", 2, 1, TRUE), W("closed", 2, 1, FALSE)>>,
     <<W("opened", 1, 1, TRUE), W("closed", 1, 1, FALSE), W("reopened", 1, 1, TRUE)>>,
     <<W("opened", 1, 1, TRUE), W("command", 1, 1, TRUE), W("edited", 1, 2, TRUE)>>,
     <<W("opened", 1, 1, TRUE), W("mention", 1, 1, TRUE)>>}

\* A retry of the second run, a rerun of any run, and one by the agent.
ThreeRequests == {<<"retry", 2>>, <<"rerun", 1>>, <<"agent_rerun", 2>>}
=============================================================================
