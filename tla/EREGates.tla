------------------------------ MODULE EREGates ------------------------------
(***************************************************************************)
(* The five gates of hyperkitty-ere.  An artifact is a sequence of lines;  *)
(* a line is the set of marks the gates look for in it and the address it  *)
(* holds, if any.  A gate passes when it finds nothing.                    *)
(***************************************************************************)
EXTENDS Naturals, Sequences

CONSTANTS LookAhead, \* lines searched for a way out of a loop, 50 in the code
          Lines,     \* the lines artifacts are made of
          MaxLines   \* bound on an artifact
ASSUME GateBounds == LookAhead \in Nat \ {0} /\ MaxLines \in Nat

VARIABLES artifact, answer
ereVars == <<artifact, answer>>

\* P1 looks for nine kinds of secret in every line.
Secrets == {"aws", "stripe", "github", "private key", "password", "api key",
            "bearer", "jwt", "env secret"}
check_secrets(a) == {f \in (DOMAIN a) \X Secrets : f[2] \in a[f[1]].marks}

\* P2 looks for nine kinds of dynamic evaluation in the lines that are not
\* comments.
Evals == {"js eval", "js exec", "new Function", "timer with string", "python exec",
          "subprocess", "java exec", "shell eval", "indirect call"}
\* Mutant: a comment hides the whole text.
X_check_eval(a) ==
  {f \in (DOMAIN a) \X Evals : (\A m \in DOMAIN a : "comment" \notin a[m].marks) /\ f[2] \in a[f[1]].marks}
check_eval(a) == {f \in (DOMAIN a) \X Evals : "comment" \notin a[f[1]].marks /\ f[2] \in a[f[1]].marks}

Has(a, mark) == \E n \in DOMAIN a : mark \in a[n].marks

\* P3 looks for two endless loops anywhere, and for the first "loop {" that
\* has no way out in the lines from its own on.
HasExit(a, n) == \E m \in DOMAIN a : n <= m /\ m < n + LookAhead /\ a[m].marks \cap {"break", "return"} # {}
check_loops(a) ==
  {k \in {"while(true)", "for(;;)"} : Has(a, k)}
  \cup {k \in {"loop {"} : \E n \in DOMAIN a : k \in a[n].marks /\ ~HasExit(a, n)}

\* P4 looks anywhere for a beacon, for words of analytics services, and for
\* a size and a picture word together; and at one address, the first http one
\* if there is any and else the first https one.  An address that runs to the very
\* end of the text is not found to end and is not looked at.
Trackers  == {"google-analytics", "mixpanel", "sentry.io"}
Address == [scheme : {"none", "http", "https"}, host : {"allowed", "local", "other"}, ends : BOOLEAN]
First(lines) == {n \in lines : \A m \in lines : n <= m}
With(a, scheme) == {n \in DOMAIN a : a[n].address.scheme = scheme}
Looked(a) == IF With(a, "http") # {} THEN First(With(a, "http")) ELSE First(With(a, "https"))
check_external_requests(a) ==
  {n \in Looked(a) : (a[n].address.ends \/ n < Len(a)) /\ a[n].address.host = "other"}
check_telemetry(a) ==
  {k \in {"sendBeacon"} \cup Trackers : Has(a, k)}
  \cup {k \in {"1x1"} : Has(a, k) /\ (Has(a, "gif") \/ Has(a, "width"))}

\* P5: a receipt when the four gates pass, over the text they passed.
Gates(a) == <<check_secrets(a) = {}, check_eval(a) = {}, check_loops(a) = {},
               check_telemetry(a) = {} /\ check_external_requests(a) = {}>>
compute_p5(a, gates) ==
  IF \E i \in DOMAIN gates : ~gates[i] THEN [err |-> "ProofFailed"]
  ELSE [artifact_hash |-> a, gates |-> gates]
run_all(a) == compute_p5(a, Gates(a))

EREInit == artifact = <<>> /\ answer = run_all(<<>>)
Submit(line) == /\ Len(artifact) < MaxLines
                /\ artifact' = Append(artifact, line)
                /\ answer' = run_all(artifact')
ERENext == \E line \in Lines : Submit(line)
ERESpec == EREInit /\ [][ERENext]_ereVars

(***************************************************************************)
(* Properties                                                              *)
(***************************************************************************)

Cuts == 0 .. Len(artifact)
Upper(k) == SubSeq(artifact, 1, k)
Lower(k) == SubSeq(artifact, k + 1, Len(artifact))

\* A text cut in two: the secrets and evaluations found in it are those found
\* in the parts, and loops that have their way out in each part keep it when
\* the parts are put together.  The telemetry gate promises nothing of the
\* kind, as it combines marks of different lines.
GatesCompose ==
  \A k \in Cuts :
    /\ check_secrets(artifact) = {} <=> check_secrets(Upper(k)) = {} /\ check_secrets(Lower(k)) = {}
    /\ check_eval(artifact) = {} <=> check_eval(Upper(k)) = {} /\ check_eval(Lower(k)) = {}
    /\ check_loops(Upper(k)) = {} /\ check_loops(Lower(k)) = {} => check_loops(artifact) = {}
=============================================================================
