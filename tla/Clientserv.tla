----------------------------- MODULE Clientserv -----------------------------
(***************************************************************************)
(* antrcv/clientserv.c: the receiver that asks the telescope's VAX instead *)
(* of listening: every two seconds it sends SENDINFO and at once tries a   *)
(* non-blocking read, so it normally reads the answer to an EARLIER        *)
(* request; with nothing to read it judges the old answer once more.       *)
(*                                                                         *)
(* Requests are numbered from the opening of the sockets.  An answer is    *)
(* abstracted to the number of the request it answers, 0 standing for      *)
(* whatever buf held before the first answer.  The VAX and the network are *)
(* external: they may lose either datagram but keep their order, and no    *)
(* answer outlives the ten seconds' pause between two sockets.             *)
(***************************************************************************)
EXTENDS Naturals, Sequences

CONSTANT MaxSent    \* bound: requests sent through one pair of sockets

ASSUME ClientservAssumption == MaxSent \in Nat

VARIABLES csPc,     \* next call
          sent,     \* requests sent
          asked,    \* requests on their way to the VAX
          answers,  \* the receive queue of clisock
          buf,      \* the answer last read
          missed,   \* reads that found nothing
          told      \* the answer ionsor was last set from

clientVars == <<csPc, sent, asked, answers, buf, missed, told>>

ClientTypeOK ==
    /\ csPc \in {"closed", "send", "read", "judge"}
    /\ sent \in 0..MaxSent
    /\ asked \in Seq(1..MaxSent)
    /\ answers \in Seq(1..MaxSent)
    /\ buf \in 0..MaxSent
    /\ missed \in 0..MaxSent
    /\ told \in 0..MaxSent

ClientInit ==
    /\ csPc = "closed"
    /\ sent = 0 /\ asked = <<>> /\ answers = <<>> /\ buf = 0
    /\ missed = 0 /\ told = 0

\* A fresh socket; errors are not looked at.
ServerBind == answers' = <<>>

\* Both sockets, and the start-up message, which must go out.
Open ==
    /\ csPc = "closed"
    /\ csPc' = "send"
    /\ ServerBind
    /\ UNCHANGED <<sent, asked, buf, missed, told>>

\* A send fails, here or at start-up: close both and pause.
Disaster ==
    /\ csPc = "send"
    /\ csPc' = "closed"
    /\ sent' = 0 /\ asked' = <<>> /\ answers' = <<>> /\ buf' = 0
    /\ missed' = 0 /\ told' = 0

SocketSendto(request) == asked' = Append(asked, request)

Request ==
    /\ csPc = "send"
    /\ sent < MaxSent
    /\ csPc' = "read"
    /\ sent' = sent + 1
    /\ SocketSendto(sent')
    /\ UNCHANGED <<answers, buf, missed, told>>

\* socket_rcvfrom.  Slip: the newest answer is taken, the others stay.
ReadNewest ==
    /\ csPc = "read"
    /\ answers # <<>>
    /\ csPc' = "judge"
    /\ buf' = Head(answers)
    /\ UNCHANGED <<sent, asked, answers, missed, told>>
Read ==
    /\ csPc = "read"
    /\ answers # <<>>
    /\ csPc' = "judge"
    /\ buf' = Head(answers)
    /\ answers' = Tail(answers)
    /\ UNCHANGED <<sent, asked, missed, told>>

\* Nothing to read: a miss.
ReadNothing ==
    /\ csPc = "read"
    /\ answers = <<>>
    /\ csPc' = "judge"
    /\ missed' = missed + 1
    /\ UNCHANGED <<sent, asked, answers, buf, told>>

\* An asterisk in the second place: the answer is no use.
Judge ==
    /\ csPc = "judge"
    /\ csPc' = "send"
    /\ told' \in {told, buf}
    /\ UNCHANGED <<sent, asked, answers, buf, missed>>

\* External: the VAX answers, or a datagram is lost on either way.
Answer ==
    /\ asked # <<>>
    /\ asked' = Tail(asked)
    /\ answers' = Append(answers, Head(asked))
    /\ UNCHANGED <<csPc, sent, buf, missed, told>>

Lost ==
    /\ asked # <<>>
    /\ asked' = Tail(asked)
    /\ UNCHANGED <<csPc, sent, answers, buf, missed, told>>

ClientNext ==
    \/ Open \/ Disaster \/ Request \/ Read \/ ReadNothing \/ Judge
    \/ Answer \/ Lost

ClientSpec == ClientInit /\ [][ClientNext]_clientVars

(* What is judged is never older than one request for every read that      *)
(* found nothing: the program falls behind by two seconds with every late  *)
(* answer, but by no more, and lost datagrams do not add to it.  It never  *)
(* catches up by itself, because it sends as many requests as it reads.    *)
(* clientserv.c:107-128, 308-319.                                          *)
JudgesRecent == csPc = "judge" => sent - buf <= missed

(* The reason.  Nothing overtakes: what was read, what is queued and what  *)
(* is asked are in the order of the requests, and every read but a miss    *)
(* took one of them.                                                       *)
Overdue == IF csPc = "read" THEN 1 ELSE 0

Ascending(line) == \A i, j \in 1..Len(line) : i < j => line[i] < line[j]

Counts ==
    /\ buf <= sent
    /\ missed + Overdue <= sent
    /\ sent <= buf + missed + Overdue

Between ==
    /\ \A i \in 1..Len(answers) : buf < answers[i] /\ answers[i] <= sent
    /\ \A j \in 1..Len(asked) : buf < asked[j] /\ asked[j] <= sent
    /\ \A i \in 1..Len(answers), j \in 1..Len(asked) : answers[i] < asked[j]

InOrder == Counts /\ Ascending(answers) /\ Ascending(asked) /\ Between
=============================================================================
