---------------------------- MODULE MCRetryLoop ----------------------------
(* RetryLoop on small instances.                                           *)
EXTENDS RetryLoop, TLC

CONSTANTS w1, w2, w3, nobody

Layer(type, value, text) == [type |-> type, value |-> value, text |-> text]

path == Layer("PathError", "open", {})

\* One layer of every kind the classifier tells apart; file names and wrapped
\* texts that look like error messages.
SomeLayers ==
    {path, Layer("PathError", "open", {"404"}), Layer("PathError", "open", {"503"}),
     Layer("LinkError", "symlink", {}), Layer("LinkError", "symlink", {"404"}),
     Layer("wrapError", "%w", {}), Layer("wrapError", "%w", {"timeout"}),
     Layer("wrapError", "%w", {"not found"})}
    \cup {Layer("sentinel", s, {}) : s \in {"ErrInvalid", "EOF", "ErrClosedPipe", "ErrClosed"}}
    \cup {Layer("Errno", e, {}) : e \in {"ENOENT", "EROFS", "EIO", "ENOSYS"}}
    \cup {Layer("net.Error", v, {}) : v \in {"Timeout", "Temporary", "other"}}
    \cup {Layer("errorString", "", x) : x \in {{}, {"throttl"}, {"403"}, {"503", "404"}}}

\* A retryable, a permanent and an unknown error, each wrapped as os does.
SomeFaults == {<<path, Layer("Errno", "EIO", {})>>,
               <<path, Layer("Errno", "EROFS", {})>>,
               <<path, Layer("errorString", "", {})>>}
NoFaults    == {}
ALostAnswer == {<<Layer("net.Error", "Timeout", {})>>}
NoSuchFile  == <<path, Layer("Errno", "ENOENT", {})>>

\* Classifiers that always do the same, one that panics on one of the errors that
\* are retried, and one that may do anything at any time.
always(behaviour) == [err \in Errors |-> {behaviour}]
PanicsOnIO == [err \in Errors |->
                   IF \E l \in DOMAIN err : err[l].value = "EIO" THEN {"panics"} ELSE {"returns"}]
Returning      == {always("returns")}
AllClassifiers == {always(b) : b \in Behaviours}
                      \cup {PanicsOnIO, [err \in Errors |-> Behaviours]}

RemoveAndCreate == w1 :> "remove" @@ w2 :> "create" @@ w3 :> "remove"

policy(attempts, base, max, jitter, mult) ==
    [MaxAttempts |-> attempts, BaseDelay |-> base, MaxDelay |-> max,
     Jitter |-> jitter, Multiplier |-> mult]

\* A policy with two retries, the second delay capped; one without retries; one
\* that leaves MaxAttempts at zero.
RetryOrNot == w1 :> policy(3, 2, 2, 50, <<3, 2>>) @@ w2 :> policy(1, 2, 5, 0, <<0, 1>>)
                  @@ w3 :> policy(0, 2, 5, 0, <<2, 1>>)
============================================================================
