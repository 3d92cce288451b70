------------------------------ MODULE HttpHost ------------------------------
(* httpServer.handleHttp: a user's HTTP connection that is kept alive over   *)
(* requests for several hosts.  load.hosts names the client of the host of   *)
(* each request; for each host there is a stream of its own, a generation,   *)
(* with a goroutine that copies the answers back.                            *)
EXTENDS Quota

CONSTANT MaxGen

Nobody == "nobody"

ASSUME HttpAssumption ==
  /\ MaxGen \in Nat /\ Nobody \notin Clients
  /\ \A l \in Loads : l.hosts \in Seq(Clients)

VARIABLES
  hpc,      \* handleHttp
  hconn,    \* the user's connection, c
  request,  \* the number of the request at hand
  gen,      \* the number of the current stream, 0 for none
  counted,  \* countedClient
  resetFlag, hnear, hfar, \* per generation: the flag, the ends of the stream
  answers,  \* per generation: the copying goroutine
  torn      \* history: the answers of this generation ended by the reset alone

httpVars == <<hpc, hconn, request, gen, counted, resetFlag, hnear, hfar, answers, torn>>
main == <<request, gen, counted, resetFlag>>

HGens == 1..MaxGen
hostClient == load.hosts[request]

HttpTypeOK ==
  /\ hpc \in {"none", "reset", "check", "link", "serve", "read", "tear", "wait", "leave",
              "free", "end"}
  /\ hconn \in {"none", "open", "gone", "closed"}
  /\ request \in 0..Len(load.hosts) /\ gen \in 0..MaxGen
  /\ counted \in Clients \cup {Nobody}
  /\ resetFlag \in [HGens -> BOOLEAN] /\ torn \in [HGens -> BOOLEAN]
  /\ hnear \in [HGens -> {"none", "open", "closed"}]
  /\ hfar \in [HGens -> {"none", "open", "closed"}]
  /\ answers \in [HGens -> {"none", "run", "ask", "shut", "last", "end"}]

HttpInit ==
  /\ hpc = "none" /\ hconn = "none" /\ request = 0 /\ gen = 0 /\ counted = Nobody
  /\ resetFlag = [g \in HGens |-> FALSE] /\ torn = [g \in HGens |-> FALSE]
  /\ hnear = [g \in HGens |-> "none"] /\ hfar = [g \in HGens |-> "none"]
  /\ answers = [g \in HGens |-> "none"]

-----------------------------------------------------------------------------
\* handleTunneling has hijacked the connection
HttpArrives ==
  /\ hpc = "none" /\ load.hosts # <<>>
  /\ hpc' = "reset" /\ hconn' = "open" /\ request' = 1
  /\ UNCHANGED <<counters, gen, counted, resetFlag, hnear, hfar, answers, torn>>

\* releaseCounted: the place of the client it was taken from, whatever host is asked
\* for now
Released ==
  /\ IF counted = Nobody THEN UNCHANGED nowConn ELSE AddConn(counted)
  /\ counted' = Nobody

Reset ==
  /\ hpc = "reset" /\ Released /\ hpc' = "check"
  /\ UNCHANGED <<globalConn, hconn, request, gen, resetFlag, hnear, hfar, answers, torn>>

\* a black list or no host by that name; the client's limits
Admit ==
  /\ hpc = "check"
  /\ \/ /\ Allowed(hostClient) /\ CutConn(hostClient) /\ counted' = hostClient
        /\ hpc' = "link" /\ UNCHANGED hconn
     \/ hconn' = "closed" /\ hpc' = "leave" /\ UNCHANGED <<nowConn, counted>>
  /\ UNCHANGED <<globalConn, request, gen, resetFlag, hnear, hfar, answers, torn>>

\* auth, GetRandomTarget, the white and the black list, SendLinkInfo: each of them
\* may end it.  A stream starts a generation.
Connect ==
  /\ hpc = "link" /\ gen < MaxGen
  /\ gen' = gen + 1 /\ hpc' = "serve"
  /\ hnear' = [hnear EXCEPT ![gen + 1] = "open"] /\ hfar' = [hfar EXCEPT ![gen + 1] = "open"]
  /\ answers' = [answers EXCEPT ![gen + 1] = "run"]
  /\ UNCHANGED <<counters, hconn, request, counted, resetFlag, torn>>

NotConnected ==
  /\ hpc = "link" /\ hpc' = "leave"
  /\ UNCHANGED <<counters, hconn, main, hnear, hfar, answers, torn>>

StreamBroken(g) == hnear[g] = "closed" \/ hfar[g] = "closed"

\* the request is written to the stream, header and body ...
writeRequestRaw ==
  /\ hpc = "serve" /\ hnear[gen] = "open" /\ hpc' = "read"
  /\ UNCHANGED <<counters, hconn, main, hnear, hfar, answers, torn>>

\* ... unless the stream is broken, or the chunks of the body end early or are none
\* (copyRawChunked)
NotWritten ==
  /\ hpc = "serve" /\ hpc' = "wait"
  /\ UNCHANGED <<counters, hconn, main, hnear, hfar, answers, torn>>

\* the flag is set before connClient is closed (mutant: after it)
FlagAfter == FALSE
FlagBefore == TRUE

\* http.ReadRequest: the next request for the same host, or for another ...
NextRequest ==
  /\ hpc = "read" /\ hconn \in {"open", "gone"} /\ request < Len(load.hosts)
  /\ request' = request + 1
  /\ IF load.hosts[request + 1] = hostClient
       THEN hpc' = "serve" /\ UNCHANGED <<resetFlag, hnear>>
       ELSE /\ hpc' = "tear"
            /\ IF FlagBefore
                 THEN resetFlag' = [resetFlag EXCEPT ![gen] = TRUE] /\ UNCHANGED hnear
                 ELSE hnear' = [hnear EXCEPT ![gen] = "closed"] /\ UNCHANGED resetFlag
  /\ UNCHANGED <<counters, hconn, gen, counted, hfar, answers, torn>>

\* ... or for a host nobody knows, or none
UnknownHost ==
  /\ hpc = "read" /\ hconn \in {"open", "gone"} /\ hpc' = "wait"
  /\ UNCHANGED <<counters, hconn, main, hnear, hfar, answers, torn>>

NoRequest ==
  /\ hpc = "read" /\ hconn # "open" /\ hpc' = "leave"
  /\ UNCHANGED <<counters, hconn, main, hnear, hfar, answers, torn>>

\* the flag is set; connClient.Close
Tear ==
  /\ hpc = "tear" /\ hpc' = "reset"
  /\ hnear' = [hnear EXCEPT ![gen] = "closed"]
  /\ resetFlag' = [resetFlag EXCEPT ![gen] = TRUE]
  /\ UNCHANGED <<counters, hconn, request, gen, counted, hfar, answers, torn>>

\* wg.Wait: no copying goroutine is before its wg.Done
Waited ==
  /\ hpc = "wait" /\ hpc' = "leave" /\ \A g \in HGens : answers[g] # "run"
  /\ UNCHANGED <<counters, hconn, main, hnear, hfar, answers, torn>>

\* the deferred functions: connClient (the last stream, maybe one torn down before)
\* or the error page, then c; then releaseCounted
Leave ==
  /\ hpc = "leave" /\ hpc' = "free"
  /\ hnear' = IF gen = 0 THEN hnear ELSE [hnear EXCEPT ![gen] = "closed"]
  /\ hconn' = "closed"
  /\ UNCHANGED <<counters, main, hfar, answers, torn>>

FreeLast ==
  /\ hpc = "free" /\ Released /\ hpc' = "end"
  /\ UNCHANGED <<globalConn, hconn, request, gen, resetFlag, hnear, hfar, answers, torn>>

-----------------------------------------------------------------------------
\* The copying goroutine of a generation: CopyBuffer returns; wg.Done; unless the
\* flag is set c is closed; and then the stream.
AnswersEnd(g) ==
  /\ answers[g] = "run"
  /\ answers' = [answers EXCEPT ![g] = "ask"]
  /\ torn' = [torn EXCEPT ![g] = hnear[g] = "closed" /\ hfar[g] = "open" /\ hconn = "open"]
  /\ UNCHANGED <<counters, hpc, hconn, main, hnear, hfar>>

\* the flag is the one of its generation
AskFlag(g) ==
  /\ answers[g] = "ask"
  /\ answers' = [answers EXCEPT ![g] = IF resetFlag[g] THEN "last" ELSE "shut"]
  /\ UNCHANGED <<counters, hpc, hconn, main, hnear, hfar, torn>>

CloseUser(g) ==
  /\ answers[g] = "shut" /\ hconn' = "closed"
  /\ answers' = [answers EXCEPT ![g] = "last"]
  /\ UNCHANGED <<counters, hpc, main, hnear, hfar, torn>>

CloseOwn(g) ==
  /\ answers[g] = "last" /\ hnear' = [hnear EXCEPT ![g] = "closed"]
  /\ answers' = [answers EXCEPT ![g] = "end"]
  /\ UNCHANGED <<counters, hpc, hconn, main, hfar, torn>>

-----------------------------------------------------------------------------
\* handleChan for a link of type http: the reader and the writer each close both
\* when the service is done or the stream has ended
FarEnds(g) ==
  /\ hfar[g] = "open" /\ hfar' = [hfar EXCEPT ![g] = "closed"]
  /\ UNCHANGED <<counters, hpc, hconn, main, hnear, answers, torn>>

HttpUserLeaves ==
  /\ hconn = "open" /\ hconn' = "gone"
  /\ UNCHANGED <<counters, hpc, main, hnear, hfar, answers, torn>>

HttpGoesOn ==
  /\ \/ Reset \/ Admit \/ Connect \/ NotConnected \/ writeRequestRaw
     \/ NotWritten \/ NextRequest \/ NoRequest \/ Tear \/ Waited \/ Leave \/ FreeLast
     \/ \E g \in HGens :
          \/ StreamBroken(g) /\ AnswersEnd(g)
          \/ AskFlag(g) \/ CloseUser(g) \/ CloseOwn(g)
          \/ hnear[g] = "closed" /\ FarEnds(g)
  /\ UNCHANGED <<load, exceeded>>

HttpNext ==
  \/ HttpGoesOn
  \/ /\ \/ HttpArrives \/ UnknownHost \/ HttpUserLeaves
        \/ \E g \in HGens :
             \/ FarEnds(g)
             \/ (hconn # "open" \/ \E c \in Clients : exceeded[c]) /\ AnswersEnd(g)
     /\ UNCHANGED <<load, exceeded>>

-----------------------------------------------------------------------------
\* A goroutine whose stream the reset has closed under it does not close the user's
\* connection, which serves the next host by now (http.go, the comment on resetFlag).
UserKept == \A g \in HGens : answers[g] = "shut" => ~torn[g]

HttpLeft ==
  /\ hpc = "end" /\ \A g \in HGens : answers[g] \in {"none", "end"}
  /\ hconn # "closed" \/ \E g \in HGens : hnear[g] = "open"

\* The user or the service has gone.  After a break handleHttp does not look at the
\* user any more, only at the answers.
HttpOver ==
  \/ hpc \in {"none", "end"}
  \/ hpc # "wait" /\ hconn # "open"
  \/ gen > 0 /\ StreamBroken(gen)

HttpEnded ==
  /\ hpc \in {"none", "end"}
  /\ \A g \in HGens : answers[g] \in {"none", "end"} /\ hfar[g] # "open"
=============================================================================
