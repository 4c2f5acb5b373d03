-------------------------- MODULE ErrorClassifier --------------------------
(***************************************************************************)
(* defaultErrorClassifier (src/errors.go).  A Go error is the sequence of  *)
(* the layers of its Unwrap chain, the outermost first; nil is the empty   *)
(* sequence.  A layer has a type, a value (which sentinel, which errno,    *)
(* whether a network error is a timeout) and the patterns that its own     *)
(* part of the message contains.                                           *)
(***************************************************************************)
EXTENDS Integers, Sequences

CONSTANT Layers     \* the layers errors are made of

\* An error about a file can also be one about a file with another name.
ASSUME LayersAssumption ==
    /\ Layers \subseteq [type : STRING, value : STRING, text : SUBSET STRING]
    /\ \A l \in Layers : l.type \in {"PathError", "LinkError"} =>
                            [l EXCEPT !.text = {}] \in Layers

ErrorRetryable == "retryable"
ErrorPermanent == "permanent"
ErrorUnknown   == "unknown"

\* The sentinels of io/fs and io the switch asks errors.Is about.
permanentErrors == {"ErrNotExist", "ErrExist", "ErrPermission", "ErrInvalid", "EOF"}
retryableErrors == {"ErrUnexpectedEOF", "ErrShortWrite", "ErrClosedPipe"}

\* External: syscall.Errno.Is, the sentinel an errno stands for.
ErrnoIs(errno, sentinel) ==
    \/ errno \in {"EACCES", "EPERM"} /\ sentinel = "ErrPermission"
    \/ errno \in {"EEXIST", "ENOTEMPTY"} /\ sentinel = "ErrExist"
    \/ errno = "ENOENT" /\ sentinel = "ErrNotExist"

\* errors.Is(err, s) for one of the sentinels.
Is(err, sentinels) ==
    \E i \in DOMAIN err, s \in sentinels :
        \/ err[i].type = "sentinel" /\ err[i].value = s
        \/ err[i].type = "Errno" /\ ErrnoIs(err[i].value, s)

\* Mutant: a type assertion, which looks at the outermost layer only.
AsOutermost(err, type) == IF err # <<>> /\ err[1].type = type THEN 1 ELSE 0

\* errors.As: the first layer of that type, 0 if there is none.
As(err, type) ==
    IF \E i \in DOMAIN err : err[i].type = type
    THEN CHOOSE i \in DOMAIN err :
             /\ err[i].type = type
             /\ \A j \in 1..(i - 1) : err[j].type # type
    ELSE 0

classifySyscallError(errno) ==
    IF errno \in {"ENOENT", "EEXIST", "EACCES", "EPERM", "EINVAL", "EISDIR",
                  "ENOTDIR", "ENOTEMPTY", "EROFS", "ENOSPC", "EDQUOT"}
    THEN ErrorPermanent
    ELSE IF errno \in {"EAGAIN", "EINTR", "EIO", "ENFILE", "EMFILE", "ETIMEDOUT",
                       "ECONNREFUSED", "ECONNRESET", "ECONNABORTED",
                       "ENETUNREACH", "EHOSTUNREACH", "EPIPE"}
    THEN ErrorRetryable
    ELSE ErrorUnknown

retryablePatterns ==
    {"timeout", "timed out", "temporary failure", "temporarily unavailable",
     "connection refused", "connection reset", "broken pipe", "too many open files",
     "resource temporarily unavailable", "503", "service unavailable", "throttl",
     "rate limit", "try again"}
permanentPatterns ==
    {"not found", "404", "does not exist", "permission denied", "403",
     "unauthorized", "401", "invalid argument", "400", "bad request",
     "not supported", "not implemented", "quota exceeded", "no space left"}

classifyByMessage(patterns) ==
    IF patterns \cap retryablePatterns # {} THEN ErrorRetryable
    ELSE IF patterns \cap permanentPatterns # {} THEN ErrorPermanent
    ELSE ErrorUnknown

\* err.Error(): every layer's message contains those below it.
Message(err) == UNION {err[i].text : i \in DOMAIN err}

\* pathErr.Err or linkErr.Err.
Below(err, i) == SubSeq(err, i + 1, Len(err))

\* Mutant: *os.LinkError is not looked into.
WrapperPathOnly(err) == As(err, "PathError")

\* The layer the classifier looks into: a *os.PathError, else a *os.LinkError.
Wrapper(err) ==
    IF As(err, "PathError") # 0 THEN As(err, "PathError") ELSE As(err, "LinkError")

timesOut(err) ==
    As(err, "net.Error") # 0 /\ err[As(err, "net.Error")].value \in {"Timeout", "Temporary"}

defaultErrorClassifier[err \in Seq(Layers)] ==
    IF err = <<>> THEN ErrorUnknown
    ELSE IF Is(err, permanentErrors) THEN ErrorPermanent
    ELSE IF Is(err, retryableErrors) THEN ErrorRetryable
    ELSE IF As(err, "Errno") # 0 THEN classifySyscallError(err[As(err, "Errno")].value)
    ELSE IF timesOut(err) THEN ErrorRetryable
    ELSE IF Wrapper(err) # 0 THEN defaultErrorClassifier[Below(err, Wrapper(err))]
    ELSE classifyByMessage(Message(err))

-----------------------------------------------------------------------------
(* Facts about all errors of at most three layers, checked in RetryLoop.   *)

Terminal == {l \in Layers : l.type \in {"sentinel", "Errno", "net.Error", "errorString"}}
Wrapping == Layers \ Terminal

Chains ==
    {<<l>> : l \in Terminal}
        \cup {<<a, l>> : a \in Wrapping, l \in Terminal}
        \cup {<<a, b, l>> : a \in Wrapping, b \in Wrapping, l \in Terminal}

Anonymous(err) ==
    [i \in DOMAIN err |-> IF err[i].type \in {"PathError", "LinkError"}
                          THEN [err[i] EXCEPT !.text = {}] ELSE err[i]]

\* Renaming the file changes no class.
NamesAreIrrelevant ==
    \A err \in Chains : defaultErrorClassifier[err] = defaultErrorClassifier[Anonymous(err)]

\* What is at the end of the chain, if it is typed, gives the class.
CausesDecide ==
    \A err \in Chains :
        LET cause == err[Len(err)]
        IN  cause.type = "Errno" \/ Is(<<cause>>, permanentErrors \cup retryableErrors) =>
                defaultErrorClassifier[err] = defaultErrorClassifier[<<cause>>]
============================================================================
