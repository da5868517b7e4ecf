------------------------------ MODULE CallProofs ------------------------------
(***************************************************************************)
(* What is proved of the modules that follow one call: Route,              *)
(* Continuation, Settings and Permissions.  Each has an invariant that its *)
(* actions preserve, and that implies the property the run checks.         *)
(***************************************************************************)
EXTENDS Route, Continuation, Settings, Permissions, TLAPS

----------------------------------------------------------------------------
(* Route.                                                                   *)

\* What the records hold.
Places1 == {"idle", "routing", "starting", "awaiting", "canceling", "direct", "watching",
            "returned", "killed"}
Outcomes1 == {"none", "earlier", "succeeded", "failed", "canceled", "terminated", "detached",
              "timeout", "error"}
Clients1 == [pc : Places1, outcome : Outcomes1, early : BOOLEAN, lost : BOOLEAN]
Signals1 == [first : {"none", "INT", "TERM"}, route : {"unknown", "daemon", "direct"},
             means : {"none", "canceled", "terminated", "detached"}, requested : BOOLEAN]
Sessions1 == [state : {"active", "finished"}, opened : BOOLEAN, ending : Outcomes1,
              driver : {"nobody", "daemon", "worker", "client"}]
RouteTypes ==
    /\ request \in Calls1 /\ client \in Clients1 /\ signal1 \in Signals1
    /\ session1 \in Sessions1

\* What the first signal means is settled with the route, and not before there
\* is a signal.
MeaningSettled ==
    /\ signal1.requested <=> signal1.first # "none"
    /\ signal1.first = "none" => signal1.means = "none"
    /\ signal1.first = "TERM" =>
          signal1.means = CASE signal1.route = "unknown" -> "none"
                            [] signal1.route = "daemon" -> "detached"
                            [] OTHER -> "terminated"

\* Only a stop that was asked for, and is no detach, is passed on to a driver.
CancelsWanted ==
    start = "canceled" =>
        /\ signal1.first # "none"
        /\ ~(signal1.first = "TERM" /\ signal1.route = "daemon")

\* The session as the call found or made it.
Waits1 == session1 = IF request.kind = "run" THEN Created ELSE Untouched

\* The session agrees with how far the request has come ...
StartTaken ==
    /\ start = "sent" =>
          \/ Waits1
          \/ client.pc = "returned" /\ session1.state = "finished" /\ session1.driver = "nobody"
    /\ start \in {"accepted", "canceled"} =>
          session1.state = "active" /\ session1.driver \in {"daemon", "worker"}
    /\ start = "over" => session1.state = "finished"
    /\ start = "refused" /\ session1.state = "active" => session1.driver = "nobody"
\* ... and the request with how far the client has.
Places ==
    /\ client.pc = "idle" =>
          start = "none" /\ signal1.route = "unknown" /\ session1.state = "finished"
    /\ client.pc = "routing" => start = "none" /\ signal1.route = "unknown" /\ Waits1
    /\ client.pc = "starting" => start \in {"sent", "accepted", "refused", "over"}
    /\ client.pc \in {"awaiting", "canceling"} => start \in {"accepted", "canceled", "over"}
    /\ client.pc = "watching" => start \in {"sent", "accepted", "refused", "over"}
    /\ client.pc = "direct" =>
          /\ start = "none" /\ signal1.route = "direct"
          /\ session1.driver = "client" \/ Waits1
    /\ session1.driver = "client" => start = "none"
\* A client that returned, and not early, left a request that somebody has.
Returned ==
    client.pc = "returned" /\ ~client.early =>
        /\ start \notin {"sent", "unsent"}
        /\ session1.state = "active" => session1.driver \in {"daemon", "worker"}
        /\ client.outcome \in {"succeeded", "terminated"} =>
              session1.state = "finished" /\ session1.ending = client.outcome
        /\ client.outcome = "failed" =>
              session1.state = "finished" /\ (client.lost \/ session1.ending = "failed")

RouteInv ==
    RouteTypes /\ MeaningSettled /\ CancelsWanted /\ StartTaken /\ Places /\ Returned

LEMMA RouteBegins == RouteInit => RouteInv
  <1> SUFFICES ASSUME RouteInit PROVE RouteInv
    OBVIOUS
  <1>1. RouteTypes
    BY DEF RouteInit, RouteTypes, Calls1, Untouched, Clients1, Signals1, Sessions1, Outcomes1,
           Places1
  <1>2. MeaningSettled /\ CancelsWanted
    BY DEF RouteInit, MeaningSettled, CancelsWanted
  <1>3. StartTaken /\ Places /\ Returned
    BY DEF RouteInit, StartTaken, Places, Returned, Waits1, Untouched
  <1> QED
    BY <1>1, <1>2, <1>3 DEF RouteInv

\* What a step writes into a record, field by field.
LEMMA ClientMoves ==
  ASSUME client \in Clients1, NEW pc \in Places1, NEW outcome \in Outcomes1,
         client' = [client EXCEPT !.pc = pc, !.outcome = outcome]
  PROVE  /\ client' \in Clients1
         /\ client'.pc = pc /\ client'.outcome = outcome /\ client'.early = client.early
         /\ client'.lost = client.lost
  BY DEF Clients1

LEMMA ClientLeaves ==
  ASSUME client \in Clients1, NEW outcome \in Outcomes1, NEW early \in BOOLEAN,
         client' = [client EXCEPT !.pc = "returned", !.outcome = outcome, !.early = early]
  PROVE  /\ client' \in Clients1
         /\ client'.pc = "returned" /\ client'.outcome = outcome /\ client'.early = early
  BY DEF Clients1, Places1

LEMMA ClientLoses ==
  ASSUME client \in Clients1, NEW early \in BOOLEAN,
         client' = [client EXCEPT !.pc = "returned", !.outcome = "failed", !.lost = TRUE,
                                  !.early = early]
  PROVE  /\ client' \in Clients1 /\ client'.lost
         /\ client'.pc = "returned" /\ client'.outcome = "failed" /\ client'.early = early
  BY DEF Clients1, Places1, Outcomes1

LEMMA SessionFails ==
  ASSUME session1 \in Sessions1, session1' = FinalizedBy("failed")
  PROVE  /\ session1' \in Sessions1 /\ session1'.state = "finished"
         /\ session1.state = "finished" => session1' = session1
         /\ session1.state = "active" => session1'.driver = "nobody"
  BY DEF FinalizedBy, Ended, Sessions1, Outcomes1

LEMMA RouteSettles ==
  ASSUME signal1 \in Signals1, MeaningSettled, signal1.route = "unknown",
         NEW way \in {"daemon", "direct"}, signal1' = Resolved(way)
  PROVE  /\ signal1' \in Signals1 /\ signal1'.route = way
         /\ signal1'.first = signal1.first /\ signal1'.requested = signal1.requested
         /\ signal1.first = "none" => signal1'.means = "none"
         /\ signal1.first = "INT" => signal1'.means \in {"canceled", signal1.means}
         /\ signal1.first = "TERM" =>
               signal1'.means = IF way = "daemon" THEN "detached" ELSE "terminated"
  BY DEF Signals1, MeaningSettled, Resolved, Meaning

LEMMA SessionTaken ==
  ASSUME NEW who \in {"daemon", "worker", "client"}, session1' = Driven(who)
  PROVE  /\ session1' \in Sessions1
         /\ session1'.state = "active" /\ session1'.driver = who
  BY DEF Driven, Sessions1, Outcomes1

LEMMA SessionEnds ==
  ASSUME NEW how \in Outcomes1, session1' = Ended(how)
  PROVE  /\ session1' \in Sessions1
         /\ session1'.state = "finished" /\ session1'.driver = "nobody"
         /\ session1'.ending = how
  BY DEF Ended, Sessions1

LEMMA WaitsFields ==
  ASSUME Waits1, request \in Calls1
  PROVE  /\ session1.driver = "nobody"
         /\ request.kind = "run" => session1.state = "active"
         /\ request.kind = "continue" => session1.state = "finished"
         /\ session1.state = "finished" => request.kind = "continue" /\ ~session1.opened
  BY DEF Waits1, Created, Untouched, Calls1

LEMMA RouteStep == RouteInv /\ [RouteNext]_rtvars => RouteInv'
  <1> SUFFICES ASSUME RouteInv, [RouteNext]_rtvars PROVE RouteInv'
    OBVIOUS
  <1>t. /\ RouteTypes /\ MeaningSettled /\ CancelsWanted
        /\ StartTaken /\ Places /\ Returned
        /\ request \in Calls1 /\ client \in Clients1 /\ signal1 \in Signals1
        /\ session1 \in Sessions1
    BY DEF RouteInv, RouteTypes
  <1>1. CASE BeginCall
    <2>1. /\ client.pc = "idle"
          /\ signal1' = signal1 /\ start' = start
      BY <1>1 DEF BeginCall
    <2>2. /\ request' \in Calls1 /\ Waits1'
          /\ session1' \in Sessions1 /\ session1'.driver = "nobody"
      BY <1>1, <1>t, <2>1 DEF BeginCall, Calls1, Waits1, Created, Untouched, Sessions1, Outcomes1
    <2>3. /\ client' \in Clients1 /\ client'.pc = "routing"
          /\ client'.outcome = "none" /\ client'.early = client.early
      BY <1>1, <1>t, <2>1, <2>2, ClientMoves DEF BeginCall, Answers1, Places1, Outcomes1
    <2>a. MeaningSettled' /\ CancelsWanted'
      BY <1>t, <2>1 DEF MeaningSettled, CancelsWanted
    <2>b. StartTaken'
      BY <1>t, <2>1, <2>2, <2>3, WaitsFields DEF StartTaken, Places
    <2>c. Places'
      BY <1>t, <2>1, <2>2, <2>3, WaitsFields DEF Places, StartTaken
    <2>d. Returned'
      BY <1>t, <2>1, <2>2, <2>3 DEF Returned, StartTaken, Places
    <2> QED
      BY <1>t, <2>1, <2>2, <2>3, <2>a, <2>b, <2>c, <2>d DEF RouteInv, RouteTypes
  <1>2. CASE ReceiveSignal
    <2>1. /\ client.pc \notin {"idle", "returned", "killed"} /\ signal1.first = "none"
          /\ request' = request /\ client' = client /\ start' = start /\ session1' = session1
      BY <1>2 DEF ReceiveSignal
    <2>2. /\ signal1' \in Signals1 /\ signal1'.route = signal1.route
          /\ signal1'.requested = TRUE /\ signal1'.first # "none"
          /\ signal1'.means = Meaning(signal1'.first, signal1.route)
      BY <1>2, <1>t, <2>1 DEF ReceiveSignal, Signals1, Meaning
    <2>3. Waits1' <=> Waits1
      BY <2>1 DEF Waits1
    <2>a. MeaningSettled' /\ CancelsWanted'
      BY <1>t, <2>1, <2>2, <2>3 DEF MeaningSettled, CancelsWanted, Meaning, Places, Signals1
    <2>b. StartTaken'
      BY <1>t, <2>1, <2>2, <2>3, WaitsFields DEF StartTaken, Places
    <2>c. Places'
      BY <1>t, <2>1, <2>2, <2>3, WaitsFields DEF Places, StartTaken
    <2>d. Returned'
      BY <1>t, <2>1, <2>2, <2>3 DEF Returned, StartTaken, Places
    <2> QED
      BY <1>t, <2>1, <2>2, <2>3, <2>a, <2>b, <2>c, <2>d DEF RouteInv, RouteTypes
  <1>3. CASE CancelBeforeRoute
    <2>1. /\ client.pc = "routing" /\ signal1.requested
          /\ request' = request /\ start' = start
      BY <1>3 DEF CancelBeforeRoute, Stopped
    <2>2. /\ signal1' \in Signals1 /\ signal1'.route = "direct"
          /\ signal1'.first = signal1.first /\ signal1'.requested = signal1.requested
          /\ signal1.first = "TERM" => signal1'.means = "terminated"
          /\ signal1'.means \in Outcomes1
      BY <1>3, <1>t, <2>1, RouteSettles DEF CancelBeforeRoute, Places, Signals1, Outcomes1
    <2>3. /\ client' \in Clients1 /\ client'.pc = "returned" /\ session1' \in Sessions1
          /\ session1'.state = "finished" /\ session1'.driver = "nobody"
          /\ client'.outcome \in {session1'.ending, "error"}
      <3>1. CASE session1' = Ended(signal1'.means) /\ Returns(signal1'.means)
        BY <1>t, <2>2, <3>1, SessionEnds, ClientMoves DEF Returns, Places1
      <3>2. CASE request.kind = "continue" /\ Returns("error") /\ UNCHANGED session1
        <4>1. client' \in Clients1 /\ client'.pc = "returned" /\ client'.outcome = "error"
          BY <1>t, <3>2, ClientMoves DEF Returns, Places1, Outcomes1
        <4> QED
          BY <1>t, <2>1, <3>2, <4>1, WaitsFields DEF Places
      <3> QED
        BY <1>3, <3>1, <3>2 DEF CancelBeforeRoute
    <2>a. MeaningSettled' /\ CancelsWanted'
      BY <1>t, <2>1, <2>2, <2>3 DEF MeaningSettled, CancelsWanted, Meaning, Places, Signals1
    <2>b. StartTaken'
      BY <1>t, <2>1, <2>2, <2>3, WaitsFields DEF StartTaken, Places
    <2>c. Places'
      BY <1>t, <2>1, <2>2, <2>3, WaitsFields DEF Places, StartTaken
    <2>d. Returned'
      BY <1>t, <2>1, <2>2, <2>3 DEF Returned, StartTaken, Places
    <2> QED
      BY <1>t, <2>1, <2>2, <2>3, <2>a, <2>b, <2>c, <2>d DEF RouteInv, RouteTypes
  <1>4. CASE RouteFound
    <2>1. /\ client.pc = "routing"
          /\ request' = request /\ session1' = session1
      BY <1>4 DEF RouteFound
    <2>2. /\ signal1' \in Signals1 /\ signal1'.route \in {"daemon", "direct"}
          /\ signal1'.first = signal1.first /\ signal1'.requested = signal1.requested
          /\ signal1.first = "none" => signal1'.means = "none"
          /\ signal1.first = "TERM" =>
                signal1'.means = IF signal1'.route = "daemon" THEN "detached" ELSE "terminated"
      BY <1>4, <1>t, <2>1, RouteSettles DEF RouteFound, Places
    <2>3. /\ client' \in Clients1 /\ client'.pc \in {"starting", "watching", "direct"}
          /\ client'.pc = "direct" => start' = "none" /\ signal1'.route = "direct"
          /\ client'.pc # "direct" => start' = "sent"
      <3>1. PICK daemon \in BOOLEAN :
              /\ signal1' = Resolved(IF daemon THEN "daemon" ELSE "direct")
              /\ Answers1(IF daemon THEN "starting"
                          ELSE IF request.timeout THEN "watching" ELSE "direct", "none")
              /\ start' = IF daemon \/ request.timeout THEN "sent" ELSE "none"
        BY <1>4 DEF RouteFound
      <3>2. signal1'.route = IF daemon THEN "daemon" ELSE "direct"
        BY <1>t, <2>1, <3>1, RouteSettles DEF Places
      <3>3. /\ client' \in Clients1
            /\ client'.pc = IF daemon THEN "starting"
                            ELSE IF request.timeout THEN "watching" ELSE "direct"
        BY <1>t, <3>1, ClientMoves DEF Answers1, Places1, Outcomes1
      <3> QED
        BY <3>1, <3>2, <3>3
    <2>4. Waits1' <=> Waits1
      BY <2>1 DEF Waits1
    <2>a. MeaningSettled' /\ CancelsWanted'
      BY <1>t, <2>1, <2>2, <2>3, <2>4 DEF MeaningSettled, CancelsWanted, Meaning, Places, Signals1
    <2>b. StartTaken'
      BY <1>t, <2>1, <2>2, <2>3, <2>4, WaitsFields DEF StartTaken, Places
    <2>c. Places'
      BY <1>t, <2>1, <2>2, <2>3, <2>4, WaitsFields DEF Places, StartTaken
    <2>d. Returned'
      BY <1>t, <2>1, <2>2, <2>3, <2>4 DEF Returned, StartTaken, Places
    <2> QED
      BY <1>t, <2>1, <2>2, <2>3, <2>4, <2>a, <2>b, <2>c, <2>d DEF RouteInv, RouteTypes
  <1>5. CASE Accepted
    <2>1. /\ start = "sent" /\ start' = "accepted"
          /\ request' = request /\ client' = client /\ signal1' = signal1
      BY <1>5 DEF Accepted
    <2>2. /\ session1' \in Sessions1 /\ session1'.state = "active" /\ session1'.driver \in {"daemon", "worker"}
      BY <1>5, SessionTaken DEF Accepted
    <2>a. MeaningSettled' /\ CancelsWanted'
      BY <1>t, <2>1, <2>2 DEF MeaningSettled, CancelsWanted, Meaning, Places, Signals1
    <2>b. StartTaken'
      BY <1>t, <2>1, <2>2, WaitsFields DEF StartTaken, Places
    <2>c. Places'
      BY <1>t, <2>1, <2>2, WaitsFields DEF Places, StartTaken
    <2>d. Returned'
      BY <1>t, <2>1, <2>2 DEF Returned, StartTaken, Places
    <2> QED
      BY <1>t, <2>1, <2>2, <2>a, <2>b, <2>c, <2>d DEF RouteInv, RouteTypes
  <1>6. CASE Refused1
    <2>1. /\ start = "sent" /\ start' = "refused"
          /\ request' = request /\ client' = client /\ signal1' = signal1
      BY <1>6 DEF Refused1
    <2>2. /\ session1' \in Sessions1 /\ session1'.driver = "nobody"
          /\ session1.state = "finished" => session1' = session1
      BY <1>6, <1>t, <2>1, WaitsFields, SessionEnds DEF Refused1, FinalizedBy, StartTaken, Outcomes1
    <2>a. MeaningSettled' /\ CancelsWanted'
      BY <1>t, <2>1, <2>2 DEF MeaningSettled, CancelsWanted, Meaning, Places, Signals1
    <2>b. StartTaken'
      BY <1>t, <2>1, <2>2, WaitsFields DEF StartTaken, Places
    <2>c. Places'
      BY <1>t, <2>1, <2>2, WaitsFields DEF Places, StartTaken
    <2>d. Returned'
      BY <1>t, <2>1, <2>2 DEF Returned, StartTaken, Places
    <2> QED
      BY <1>t, <2>1, <2>2, <2>a, <2>b, <2>c, <2>d DEF RouteInv, RouteTypes
  <1>7. CASE DriverEnds
    <2>1. /\ session1.state = "active" /\ session1.driver \in {"daemon", "worker"}
          /\ start' = "over"
          /\ request' = request /\ client' = client /\ signal1' = signal1
      BY <1>7 DEF DriverEnds
    <2>2. /\ session1' \in Sessions1 /\ session1'.state = "finished"
          /\ session1'.driver = "nobody"
      BY <1>7, <1>t, <2>1, SessionEnds DEF DriverEnds, Outcomes1
    <2>a. MeaningSettled' /\ CancelsWanted'
      BY <1>t, <2>1, <2>2 DEF MeaningSettled, CancelsWanted, Meaning, Places, Signals1
    <2>b. StartTaken'
      BY <1>t, <2>1, <2>2, WaitsFields DEF StartTaken, Places
    <2>c. Places'
      BY <1>t, <2>1, <2>2, WaitsFields DEF Places, StartTaken
    <2>d. Returned'
      BY <1>t, <2>1, <2>2 DEF Returned, StartTaken, Places
    <2> QED
      BY <1>t, <2>1, <2>2, <2>a, <2>b, <2>c, <2>d DEF RouteInv, RouteTypes
  <1>8. CASE StartReplied
    <2>1. /\ client.pc = "starting" /\ start \in {"accepted", "refused", "over"}
          /\ request' = request /\ signal1' = signal1 /\ start' = start
      BY <1>8 DEF StartReplied
    <2>2. /\ client' \in Clients1 /\ client'.early = client.early
          /\ start = "refused" => client'.pc = "returned" /\ client'.outcome = "error"
          /\ start # "refused" => client'.pc = "awaiting"
      BY <1>8, <1>t, <2>1, ClientMoves DEF StartReplied, Answers1, Returns, Places1, Outcomes1
    <2>3. /\ session1' \in Sessions1
          /\ start # "refused" => session1' = session1
          /\ session1' = session1 \/ session1'.driver = "nobody"
          /\ start = "refused" => session1'.state = "finished"
      <3>1. CASE start # "refused"
        BY <1>8, <1>t, <3>1 DEF StartReplied
      <3>2. CASE start = "refused" /\ session1.state = "active"
        BY <1>8, <1>t, <3>2, SessionEnds DEF StartReplied, FinalizedBy, Outcomes1
      <3>3. CASE start = "refused" /\ session1.state # "active"
        BY <1>8, <1>t, <3>3 DEF StartReplied, FinalizedBy, Sessions1
      <3> QED
        BY <3>1, <3>2, <3>3
    <2>a. MeaningSettled' /\ CancelsWanted'
      BY <1>t, <2>1 DEF MeaningSettled, CancelsWanted
    <2>b. StartTaken'
      BY <1>t, <2>1, <2>2, <2>3, WaitsFields DEF StartTaken, Places
    <2>c. Places'
      BY <1>t, <2>1, <2>2, <2>3, WaitsFields DEF Places, StartTaken
    <2>d. Returned'
      BY <1>t, <2>1, <2>2, <2>3 DEF Returned, StartTaken, Places
    <2> QED
      BY <1>t, <2>1, <2>2, <2>3, <2>a, <2>b, <2>c, <2>d DEF RouteInv, RouteTypes
  <1>9. CASE DetachStarting
    <2>1. /\ client.pc = "starting"
          /\ start' = start \/ (start = "sent" /\ start' = "unsent")
          /\ request' = request /\ signal1' = signal1 /\ session1' = session1
      BY <1>9 DEF DetachStarting
    <2>2. /\ client' \in Clients1 /\ client'.pc = "returned"
          /\ client'.outcome = "detached" /\ (client'.early <=> (start' \in {"sent", "unsent", "refused"}))
      <3>1. (start' \in {"sent", "unsent", "refused"}) \in BOOLEAN
        OBVIOUS
      <3>2. client' \in Clients1
        BY <1>t, <1>9, <3>1 DEF DetachStarting, Clients1, Places1, Outcomes1
      <3> QED
        BY <1>t, <1>9, <3>2 DEF DetachStarting, Clients1
    <2>3. Waits1' <=> Waits1
      BY <2>1 DEF Waits1
    <2>a. MeaningSettled' /\ CancelsWanted'
      BY <1>t, <2>1, <2>2, <2>3 DEF MeaningSettled, CancelsWanted, Meaning, Places, Signals1
    <2>b. StartTaken'
      BY <1>t, <2>1, <2>2, <2>3, WaitsFields DEF StartTaken, Places
    <2>c. Places'
      BY <1>t, <2>1, <2>2, <2>3, WaitsFields DEF Places, StartTaken
    <2>d. Returned'
      BY <1>t, <2>1, <2>2, <2>3 DEF Returned, StartTaken, Places
    <2> QED
      BY <1>t, <2>1, <2>2, <2>3, <2>a, <2>b, <2>c, <2>d DEF RouteInv, RouteTypes
  <1>10. CASE CancelStarting
    <2>1. /\ client.pc = "starting" /\ signal1.requested /\ signal1.means # "detached"
          /\ start = "accepted" => start' = "canceled"
          /\ start = "sent" => start' \in {"sent", "unsent"}
          /\ start \notin {"accepted", "sent"} => start' = start
          /\ request' = request /\ signal1' = signal1 /\ session1' = session1
      BY <1>10 DEF CancelStarting, Stopped
    <2>2. /\ client' \in Clients1 /\ client'.pc = "returned"
          /\ client'.outcome = "canceled" /\ (client'.early <=> (start' \in {"sent", "unsent", "refused"}))
      <3>1. (start' \in {"sent", "unsent", "refused"}) \in BOOLEAN
        OBVIOUS
      <3>2. client' \in Clients1
        BY <1>t, <1>10, <3>1 DEF CancelStarting, Clients1, Places1, Outcomes1
      <3> QED
        BY <1>t, <1>10, <3>2 DEF CancelStarting, Clients1
    <2>3. Waits1' <=> Waits1
      BY <2>1 DEF Waits1
    <2>a. MeaningSettled' /\ CancelsWanted'
      BY <1>t, <2>1, <2>2, <2>3 DEF MeaningSettled, CancelsWanted, Meaning, Places, Signals1
    <2>b. StartTaken'
      BY <1>t, <2>1, <2>2, <2>3, WaitsFields DEF StartTaken, Places
    <2>c. Places'
      BY <1>t, <2>1, <2>2, <2>3, WaitsFields DEF Places, StartTaken
    <2>d. Returned'
      BY <1>t, <2>1, <2>2, <2>3 DEF Returned, StartTaken, Places
    <2> QED
      BY <1>t, <2>1, <2>2, <2>3, <2>a, <2>b, <2>c, <2>d DEF RouteInv, RouteTypes
  <1>11. CASE StartTimesOut
    <2>1. /\ client.pc = "starting"
          /\ request' = request /\ signal1' = signal1 /\ start' = start /\ session1' = session1
      BY <1>11 DEF StartTimesOut
    <2>2. /\ client' \in Clients1 /\ client'.pc = "returned"
          /\ client'.outcome = "timeout" /\ (client'.early <=> (start \in {"sent", "refused"}))
      <3>1. (start \in {"sent", "refused"}) \in BOOLEAN
        OBVIOUS
      <3>2. client' \in Clients1
        BY <1>t, <1>11, <3>1 DEF StartTimesOut, Clients1, Places1, Outcomes1
      <3> QED
        BY <1>t, <1>11, <3>2 DEF StartTimesOut, Clients1
    <2>3. Waits1' <=> Waits1
      BY <2>1 DEF Waits1
    <2>a. MeaningSettled' /\ CancelsWanted'
      BY <1>t, <2>1 DEF MeaningSettled, CancelsWanted
    <2>b. StartTaken'
      BY <1>t, <2>1, <2>2, <2>3, WaitsFields DEF StartTaken, Places
    <2>c. Places'
      BY <1>t, <2>1, <2>2, <2>3, WaitsFields DEF Places, StartTaken
    <2>d. Returned'
      BY <1>t, <2>1, <2>2, <2>3 DEF Returned, StartTaken, Places
    <2> QED
      BY <1>t, <2>1, <2>2, <2>3, <2>a, <2>b, <2>c, <2>d DEF RouteInv, RouteTypes
  <1>12. CASE OutcomeArrives
    <2>1. /\ client.pc \in {"awaiting", "canceling"} /\ session1.state = "finished"
          /\ request' = request /\ signal1' = signal1 /\ start' = start /\ session1' = session1
      BY <1>12 DEF OutcomeArrives
    <2>2. /\ client' \in Clients1 /\ client'.pc = "returned"
          /\ client'.outcome = session1.ending /\ client'.early = client.early
      BY <1>12, <1>t, <2>1, ClientMoves DEF OutcomeArrives, Returns, Places1, Sessions1
    <2>3. Waits1' <=> Waits1
      BY <2>1 DEF Waits1
    <2>a. MeaningSettled' /\ CancelsWanted'
      BY <1>t, <2>1 DEF MeaningSettled, CancelsWanted
    <2>b. StartTaken'
      BY <1>t, <2>1, <2>2, <2>3, WaitsFields DEF StartTaken, Places
    <2>c. Places'
      BY <1>t, <2>1, <2>2, <2>3, WaitsFields DEF Places, StartTaken
    <2>d. Returned'
      BY <1>t, <2>1, <2>2, <2>3 DEF Returned, StartTaken, Places
    <2> QED
      BY <1>t, <2>1, <2>2, <2>3, <2>a, <2>b, <2>c, <2>d DEF RouteInv, RouteTypes
  <1>13. CASE StopWaiting
    <2>1. /\ client.pc = "awaiting"
          /\ request' = request /\ signal1' = signal1 /\ session1' = session1
      BY <1>13 DEF StopWaiting
    <2>2. /\ client' \in Clients1 /\ client'.early = client.early
          /\ \/ /\ client'.pc = "returned" /\ client'.outcome \in {"detached", "timeout"}
                /\ start' = start
             \/ /\ client'.pc = "canceling" /\ signal1.requested /\ signal1.means # "detached"
                /\ start' = IF start = "accepted" THEN "canceled" ELSE start
      BY <1>13, <1>t, <2>1, ClientMoves DEF StopWaiting, Answers1, Returns, Stopped, Places1, Outcomes1
    <2>3. Waits1' <=> Waits1
      BY <2>1 DEF Waits1
    <2>a. MeaningSettled' /\ CancelsWanted'
      BY <1>t, <2>1, <2>2, <2>3 DEF MeaningSettled, CancelsWanted, Meaning, Places, Signals1
    <2>b. StartTaken'
      BY <1>t, <2>1, <2>2, <2>3, WaitsFields DEF StartTaken, Places
    <2>c. Places'
      BY <1>t, <2>1, <2>2, <2>3, WaitsFields DEF Places, StartTaken
    <2>d. Returned'
      BY <1>t, <2>1, <2>2, <2>3 DEF Returned, StartTaken, Places
    <2> QED
      BY <1>t, <2>1, <2>2, <2>3, <2>a, <2>b, <2>c, <2>d DEF RouteInv, RouteTypes
  <1>14. CASE TakeDirect
    <2>1. /\ client.pc = "direct" /\ session1.driver = "nobody"
          /\ request' = request /\ signal1' = signal1 /\ start' = start
      BY <1>14 DEF TakeDirect
    <2>2. \/ /\ client' = client /\ session1' \in Sessions1
             /\ session1'.state = "active" /\ session1'.driver = "client"
          \/ /\ session1' = session1 /\ session1.state = "finished" /\ client' \in Clients1
             /\ client'.pc = "returned" /\ client'.outcome = "error"
      BY <1>14, <1>t, <2>1, WaitsFields, SessionTaken, ClientMoves DEF TakeDirect, Places, Returns, Places1, Outcomes1
    <2>a. MeaningSettled' /\ CancelsWanted'
      BY <1>t, <2>1 DEF MeaningSettled, CancelsWanted
    <2>b. StartTaken'
      BY <1>t, <2>1, <2>2, WaitsFields DEF StartTaken, Places
    <2>c. Places'
      BY <1>t, <2>1, <2>2, WaitsFields DEF Places, StartTaken
    <2>d. Returned'
      BY <1>t, <2>1, <2>2 DEF Returned, StartTaken, Places
    <2> QED
      BY <1>t, <2>1, <2>2, <2>a, <2>b, <2>c, <2>d DEF RouteInv, RouteTypes
  <1>15. CASE EndDirect
    <2>1. /\ client.pc = "direct"
          /\ request' = request /\ signal1' = signal1 /\ start' = start
      BY <1>15 DEF EndDirect
    <2>2. \E how \in {"succeeded", "failed", signal1.means} : session1' = Ended(how) /\ Returns(how)
      BY <1>15, <1>t, <2>1 DEF EndDirect
    <2>3. /\ client' \in Clients1 /\ client'.pc = "returned" /\ session1' \in Sessions1
          /\ session1'.state = "finished" /\ session1'.driver = "nobody"
          /\ client'.outcome = session1'.ending
      <3>1. PICK how \in {"succeeded", "failed", signal1.means} :
                  session1' = Ended(how) /\ Returns(how)
        BY <2>2
      <3>2. how \in Outcomes1
        BY <1>t DEF Signals1, Outcomes1
      <3> QED
        BY <1>t, <3>1, <3>2, SessionEnds, ClientMoves DEF Returns, Places1
    <2>a. MeaningSettled' /\ CancelsWanted'
      BY <1>t, <2>1 DEF MeaningSettled, CancelsWanted
    <2>b. StartTaken'
      BY <1>t, <2>1, <2>2, <2>3, WaitsFields DEF StartTaken, Places
    <2>c. Places'
      BY <1>t, <2>1, <2>2, <2>3, WaitsFields DEF Places, StartTaken
    <2>d. Returned'
      BY <1>t, <2>1, <2>2, <2>3 DEF Returned, StartTaken, Places
    <2> QED
      BY <1>t, <2>1, <2>2, <2>3, <2>a, <2>b, <2>c, <2>d DEF RouteInv, RouteTypes
  <1>16. CASE SeeFinished
    <2>1. /\ client.pc = "watching" /\ session1.opened /\ session1.state = "finished"
          /\ request' = request /\ signal1' = signal1 /\ start' = start /\ session1' = session1
      BY <1>16 DEF SeeFinished
    <2>2. /\ client' \in Clients1 /\ client'.pc = "returned"
          /\ client'.outcome = session1.ending /\ client'.early = client.early
      BY <1>16, <1>t, <2>1, ClientMoves DEF SeeFinished, Returns, Places1, Sessions1
    <2>3. start # "sent"
      BY <1>16, <1>t, <2>1, <2>2, WaitsFields DEF StartTaken
    <2>4. Waits1' <=> Waits1
      BY <2>1 DEF Waits1
    <2>a. MeaningSettled' /\ CancelsWanted'
      BY <1>t, <2>1 DEF MeaningSettled, CancelsWanted
    <2>b. StartTaken'
      BY <1>t, <2>1, <2>2, <2>3, <2>4, WaitsFields DEF StartTaken, Places
    <2>c. Places'
      BY <1>t, <2>1, <2>2, <2>3, <2>4, WaitsFields DEF Places, StartTaken
    <2>d. Returned'
      BY <1>t, <2>1, <2>2, <2>3, <2>4 DEF Returned, StartTaken, Places
    <2> QED
      BY <1>t, <2>1, <2>2, <2>3, <2>4, <2>a, <2>b, <2>c, <2>d DEF RouteInv, RouteTypes
  <1>17. CASE WatchTimesOut
    <2>1. /\ client.pc = "watching"
          /\ request' = request /\ signal1' = signal1 /\ start' = start /\ session1' = session1
      BY <1>17 DEF WatchTimesOut
    <2>2. /\ client' \in Clients1 /\ client'.pc = "returned"
          /\ client'.outcome = "timeout" /\ (client'.early <=> (start \in {"sent", "refused"}))
      <3>1. (start \in {"sent", "refused"}) \in BOOLEAN
        OBVIOUS
      <3>2. client' \in Clients1
        BY <1>t, <1>17, <3>1 DEF WatchTimesOut, Clients1, Places1, Outcomes1
      <3> QED
        BY <1>t, <1>17, <3>2 DEF WatchTimesOut, Clients1
    <2>3. Waits1' <=> Waits1
      BY <2>1 DEF Waits1
    <2>a. MeaningSettled' /\ CancelsWanted'
      BY <1>t, <2>1 DEF MeaningSettled, CancelsWanted
    <2>b. StartTaken'
      BY <1>t, <2>1, <2>2, <2>3, WaitsFields DEF StartTaken, Places
    <2>c. Places'
      BY <1>t, <2>1, <2>2, <2>3, WaitsFields DEF Places, StartTaken
    <2>d. Returned'
      BY <1>t, <2>1, <2>2, <2>3 DEF Returned, StartTaken, Places
    <2> QED
      BY <1>t, <2>1, <2>2, <2>3, <2>a, <2>b, <2>c, <2>d DEF RouteInv, RouteTypes
  <1>18. CASE ClientKilled
    <2>1. /\ client.pc # "returned"
          /\ request' = request /\ signal1' = signal1 /\ start' = start /\ session1' = session1
      BY <1>18 DEF ClientKilled
    <2>2. /\ client' \in Clients1 /\ client'.pc = "killed"
          /\ client'.outcome = "none" /\ client'.early = client.early
      BY <1>18, <1>t, <2>1, ClientMoves DEF ClientKilled, Answers1, Places1, Outcomes1
    <2>3. Waits1' <=> Waits1
      BY <2>1 DEF Waits1
    <2>4. start = "sent" => Waits1'
      BY <1>t, <2>1, <2>3 DEF StartTaken
    <2>a. MeaningSettled' /\ CancelsWanted'
      BY <1>t, <2>1 DEF MeaningSettled, CancelsWanted
    <2>b. StartTaken'
      BY <1>t, <2>1, <2>4 DEF StartTaken
    <2>c. Places'
      BY <1>t, <2>1, <2>2, <2>3, WaitsFields DEF Places, StartTaken
    <2>d. Returned'
      BY <1>t, <2>1, <2>2, <2>3 DEF Returned, StartTaken, Places
    <2> QED
      BY <1>t, <2>1, <2>2, <2>3, <2>a, <2>b, <2>c, <2>d DEF RouteInv, RouteTypes
  <1>19. CASE ErrorReplied
    <2>1. /\ client.pc \in {"awaiting", "canceling"} /\ start' = "over"
          /\ request' = request /\ signal1' = signal1
      BY <1>19 DEF ErrorReplied
    <2>2. /\ client' \in Clients1 /\ client'.pc = "returned" /\ client'.outcome = "error"
      BY <1>19, <1>t, ClientMoves DEF ErrorReplied, Returns, Places1, Outcomes1
    <2>3. /\ session1' \in Sessions1 /\ session1'.state = "finished"
          /\ session1.state = "finished" => session1' = session1
          /\ session1.state = "active" => session1'.driver = "nobody"
      BY <1>19, <1>t, SessionFails DEF ErrorReplied
    <2>a. MeaningSettled' /\ CancelsWanted'
      BY <1>t, <2>1 DEF MeaningSettled, CancelsWanted
    <2>b. StartTaken'
      BY <1>t, <2>1, <2>2, <2>3, WaitsFields DEF StartTaken, Places
    <2>c. Places'
      BY <1>t, <2>1, <2>2, <2>3, WaitsFields DEF Places, StartTaken
    <2>d. Returned'
      BY <1>t, <2>1, <2>2, <2>3 DEF Returned, StartTaken, Places
    <2> QED
      BY <1>t, <2>1, <2>2, <2>3, <2>a, <2>b, <2>c, <2>d DEF RouteInv, RouteTypes
  <1>20. CASE ConnectionLost
    <2>1. /\ client.pc \in {"starting", "awaiting", "canceling"}
          /\ start \in {"accepted", "canceled"} => start' = "over"
          /\ start = "sent" => start' \in {"sent", "unsent"}
          /\ start \notin {"accepted", "canceled", "sent"} => start' = start
          /\ request' = request /\ signal1' = signal1
      BY <1>20 DEF ConnectionLost
    <2>2. /\ client' \in Clients1 /\ client'.pc = "returned" /\ client'.lost
          /\ client'.outcome = "failed"
          /\ client'.early <=> (start' \in {"sent", "unsent", "refused"})
      <3>1. (start' \in {"sent", "unsent", "refused"}) \in BOOLEAN
        OBVIOUS
      <3> QED
        BY <1>20, <1>t, <3>1, ClientLoses DEF ConnectionLost
    <2>3. /\ session1' \in Sessions1 /\ session1'.state = "finished"
          /\ session1.state = "finished" => session1' = session1
          /\ session1.state = "active" => session1'.driver = "nobody"
      BY <1>20, <1>t, SessionFails DEF ConnectionLost
    <2>4. /\ session1.state \in {"active", "finished"}
          /\ start = "sent" => session1.driver = "nobody"
      BY <1>t, <2>1, WaitsFields DEF StartTaken, Sessions1
    <2>5. /\ start' = "sent" => session1'.driver = "nobody"
          /\ start' \notin {"accepted", "canceled"}
      BY <1>t, <2>1, <2>3, <2>4 DEF StartTaken, Places
    <2>6. session1'.driver # "client"
      BY <1>t, <2>1, <2>3, <2>4 DEF Places
    <2>a. MeaningSettled' /\ CancelsWanted'
      BY <1>t, <2>1 DEF MeaningSettled, CancelsWanted
    <2>b. StartTaken'
      BY <2>2, <2>3, <2>5 DEF StartTaken
    <2>c. Places'
      BY <2>2, <2>6 DEF Places
    <2>d. Returned'
      BY <1>t, <2>1, <2>2, <2>3 DEF Returned, StartTaken, Places
    <2> QED
      BY <1>t, <2>1, <2>2, <2>3, <2>a, <2>b, <2>c, <2>d DEF RouteInv, RouteTypes
  <1>21. CASE UNCHANGED rtvars
    BY <1>t, <1>21 DEF rtvars, RouteInv, RouteTypes, MeaningSettled, CancelsWanted, StartTaken,
       Waits1, Places, Returned
  <1> QED
    BY <1>1, <1>2, <1>3, <1>4, <1>5, <1>6, <1>7, <1>8, <1>9, <1>10, <1>11, <1>12, <1>13, <1>14, <1>15, <1>16, <1>17, <1>18, <1>19,
       <1>20, <1>21 DEF RouteNext

\* A client that leaves, at whatever point and for whatever signal, leaves no
\* turn without somebody who ends it (the cancels and detaches of runner.py),
\* and answers with the ending that is recorded, unless its connection to the
\* daemon broke: then it answers failed, whatever is recorded.
THEOREM NoOrphanIsLeft == RouteSpec => []LeavesNoOrphan
  <1>1. RouteInv => LeavesNoOrphan
    BY DEF RouteInv, RouteTypes, CancelsWanted, Returned, LeavesNoOrphan
  <1> QED
    BY <1>1, RouteBegins, RouteStep, PTL DEF RouteSpec

----------------------------------------------------------------------------
(* Continuation.                                                            *)

\* The snapshot is of the directory before the claim, and a direct preparation
\* does not touch the directory before everything was verified.  What is in it
\* while the rollback unlinks and rewrites does not matter: it ends only when
\* the directory is the snapshot again.
ContinuationInv ==
    /\ snapshot = Before
    /\ prep = "asked" => route \in {"daemon", "warm", "direct"}
    /\ prep = "restoring" => route \in {"daemon", "direct"}
    /\ prep \in {"idle", "asked"} => files = Before
    /\ prep \in {"restoring", "refused"} /\ route = "direct" => files = Before
    /\ prep = "verified" => route = "direct" /\ files = Before
    /\ prep = "ready" \/ (prep = "restoring" /\ route = "daemon") => files = RotatedFiles
    /\ NothingClaimed

LEMMA ContinuationBegins == ContinuationInit => ContinuationInv
  BY DEF ContinuationInit, ContinuationInv, NothingClaimed

LEMMA ContinuationStep == ContinuationInv /\ [ContinuationNext]_cvars => ContinuationInv'
  <1> SUFFICES ASSUME ContinuationInv, [ContinuationNext]_cvars PROVE ContinuationInv'
    OBVIOUS
  <1> USE DEF ContinuationInv, NothingClaimed
  <1>1. CASE AskContinue
    BY <1>1 DEF AskContinue
  <1>2. CASE Claim
    BY <1>2 DEF Claim, Taken
  <1>3. CASE ReserveDirect
    BY <1>3 DEF ReserveDirect
  <1>4. CASE Verify2
    BY <1>4 DEF Verify2
  <1>5. CASE RotateVerified
    BY <1>5 DEF RotateVerified, RotatedFiles, Files
  <1>6. CASE Undo
    BY <1>6 DEF Undo
  <1>7. CASE UnlinkOne
    BY <1>7 DEF UnlinkOne
  <1>8. CASE RewriteOne
    BY <1>8 DEF RewriteOne
  <1>9. CASE PromptIt
    BY <1>9 DEF PromptIt
  <1>10. CASE EndsAsTurn3
    BY <1>10 DEF EndsAsTurn3, RotatedFiles, Files
  <1>11. CASE KillPreparation
    BY <1>11 DEF KillPreparation
  <1>12. CASE UNCHANGED cvars
    BY <1>12 DEF cvars
  <1> QED
    BY <1>1, <1>2, <1>3, <1>4, <1>5, <1>6, <1>7, <1>8, <1>9, <1>10, <1>11, <1>12 DEF ContinuationNext

\* Whatever a preparation found and wherever it failed, when it is over the
\* session is as it was before or has an outcome of the new turn: the rollback
\* of _rollback_preparation may take its files in any order.
THEOREM NothingStaysClaimed == ContinuationSpec => []NothingClaimed
  <1>1. ContinuationInv => NothingClaimed
    BY DEF ContinuationInv
  <1> QED
    BY <1>1, ContinuationBegins, ContinuationStep, PTL DEF ContinuationSpec

----------------------------------------------------------------------------
(* Settings.                                                                *)

KeptSettings == [grade : Grades \cup {0}, effort : Efforts, via : Vias]
SettingsTypes ==
    /\ live \in Vias /\ kept \in KeptSettings /\ opened \in Nat
    /\ \A r \in built : /\ r.after \in Nat /\ r.grade \in Grades /\ r.via \in Vias
                        /\ r.changes \in BOOLEAN /\ r.own \in BOOLEAN
    /\ drive # AtRest =>
          /\ DOMAIN drive = {"phase", "first", "own", "key", "via", "argv", "before",
                             "overtaken", "history", "effort"}
          /\ drive.phase \in {"ready", "claimed", "prompted", "lost"}
          /\ drive.via \in Vias /\ drive.own \in BOOLEAN /\ drive.overtaken \in BOOLEAN
\* Before the first request there is nothing.
Unbuilt == kept.grade = 0 => built = {} /\ drive = AtRest /\ vendor = {}
\* A request that changes nothing and that no other turn overtook was built with
\* what the session keeps.
UpToDate ==
    \A r \in built : r.after <= opened /\ (r.after = opened /\ ~r.changes => r.via = kept.via)
\* So it will be again when the claim under way is undone.
Undoable ==
    drive.phase = "claimed" =>
        /\ opened > 0 /\ ~drive.own
        /\ drive.before \in KeptSettings /\ drive.before.grade # 0
        /\ \A r \in built :
              /\ r.after <= opened - 1
              /\ r.after = opened - 1 /\ ~r.changes => r.via = drive.before.via
\* The process of a direct turn was started for what the session keeps.
OwnProcess ==
    drive.phase = "ready" /\ drive.own /\ ~drive.overtaken => drive.argv = Required

SettingsInv ==
    SettingsTypes /\ Unbuilt /\ UpToDate /\ Undoable /\ OwnProcess /\ PinnedEffort

LEMMA SettingsBegins == SettingsInit => SettingsInv
  <1> SUFFICES ASSUME SettingsInit PROVE SettingsInv
    OBVIOUS
  <1>1. SettingsTypes
    BY SettingsAssumption DEF SettingsInit, SettingsTypes, KeptSettings, Vias
  <1>2. Unbuilt /\ UpToDate
    BY DEF SettingsInit, Unbuilt, UpToDate
  <1>3. Undoable /\ OwnProcess /\ PinnedEffort
    BY DEF SettingsInit, Undoable, OwnProcess, PinnedEffort, AtRest
  <1> QED
    BY <1>1, <1>2, <1>3 DEF SettingsInv

LEMMA SettingsStep == SettingsInv /\ [SettingsNext]_setvars => SettingsInv'
  <1> SUFFICES ASSUME SettingsInv, [SettingsNext]_setvars PROVE SettingsInv'
    OBVIOUS
  <1>t. /\ SettingsTypes /\ Unbuilt /\ UpToDate /\ Undoable /\ OwnProcess /\ PinnedEffort
        /\ drive = AtRest => drive.phase = "none"
    BY DEF SettingsInv, AtRest
  <1>1. CASE EditEntry
    <2>1. kept' = kept /\ opened' = opened /\ built' = built /\ drive' = drive /\ vendor' = vendor
      BY <1>1 DEF EditEntry
    <2>2. live' \in Vias
      BY <1>1, <1>t, <2>1 DEF EditEntry
    <2>a. SettingsTypes'
      BY <1>t, <2>1, <2>2 DEF SettingsTypes, AtRest
    <2>b. Unbuilt'
      BY <1>t, <2>1, <2>2 DEF Unbuilt, AtRest
    <2>c. UpToDate'
      BY <1>t, <2>1, <2>2 DEF UpToDate, SettingsTypes, AtRest
    <2>d. Undoable'
      BY <1>t, <2>1, <2>2 DEF Undoable, UpToDate, SettingsTypes, Unbuilt, AtRest
    <2>e. OwnProcess'
      BY <1>t, <2>1, <2>2 DEF OwnProcess, Required, Argv, SettingsTypes, AtRest
    <2>f. PinnedEffort'
      BY <1>t, <2>1, <2>2 DEF PinnedEffort, SettingsTypes, OwnProcess, AtRest
    <2> QED
      BY <2>a, <2>b, <2>c, <2>d, <2>e, <2>f DEF SettingsInv
  <1>2. CASE BuildRun
    <2>1. live' = live /\ opened' = opened /\ drive' = drive /\ vendor' = vendor
      BY <1>2 DEF BuildRun
    <2>2. kept.grade = 0 /\ built = {} /\ drive = AtRest
      BY <1>2, <1>t, <2>1 DEF BuildRun, Unbuilt
    <2>3. /\ kept' \in KeptSettings /\ kept'.grade # 0 /\ kept'.via = live
          /\ \A r \in built' :
                /\ r.after = opened /\ r.grade \in Grades /\ r.via = live
                /\ r.changes = FALSE /\ r.own \in BOOLEAN
      <3>1. PICK grade \in Grades, effort \in Efforts, own \in BOOLEAN :
              /\ kept' = [grade |-> grade, effort |-> effort, via |-> live]
              /\ built' = built \cup {[after |-> opened, grade |-> grade, via |-> live,
                                      changes |-> FALSE, own |-> own,
                                      key |-> KeyOf(grade, kept'.effort)]}
        BY <1>2 DEF BuildRun, Request
      <3> QED
        BY <1>t, <2>2, <3>1, SettingsAssumption DEF SettingsTypes, KeptSettings
    <2>a. SettingsTypes'
      BY <1>t, <2>1, <2>2, <2>3 DEF SettingsTypes, AtRest
    <2>b. Unbuilt'
      BY <1>t, <2>1, <2>2, <2>3 DEF Unbuilt, AtRest
    <2>c. UpToDate'
      BY <1>t, <2>1, <2>2, <2>3 DEF UpToDate, SettingsTypes, AtRest
    <2>d. Undoable'
      BY <1>t, <2>1, <2>2, <2>3 DEF Undoable, UpToDate, SettingsTypes, Unbuilt, AtRest
    <2>e. OwnProcess'
      BY <1>t, <2>1, <2>2, <2>3 DEF OwnProcess, Required, Argv, SettingsTypes, AtRest
    <2>f. PinnedEffort'
      BY <1>t, <2>1, <2>2, <2>3 DEF PinnedEffort, SettingsTypes, OwnProcess, AtRest
    <2> QED
      BY <2>a, <2>b, <2>c, <2>d, <2>e, <2>f DEF SettingsInv
  <1>3. CASE BuildContinue
    <2>1. live' = live /\ kept' = kept /\ opened' = opened /\ drive' = drive /\ vendor' = vendor
      BY <1>3 DEF BuildContinue
    <2>2. kept.grade # 0 /\ drive = AtRest
      BY <1>3, <1>t, <2>1 DEF BuildContinue, Unbuilt
    <2>3. \A r \in built' \ built :
              /\ r.after = opened /\ r.grade \in Grades /\ r.via \in Vias
              /\ r.changes \in BOOLEAN /\ r.own \in BOOLEAN
              /\ ~r.changes => r.via = kept.via
      <3>1. PICK grade \in Grades, via \in Vias, changes \in BOOLEAN, own \in BOOLEAN :
              /\ ~changes => via = kept.via
              /\ built' = built \cup {[after |-> opened, grade |-> grade, via |-> via,
                                      changes |-> changes, own |-> own,
                                      key |-> KeyOf(grade, kept'.effort)]}
        <4>1. CASE Request(kept.grade, kept.via, FALSE)
          BY <1>t, <2>2, <4>1 DEF Request, SettingsTypes, KeptSettings
        <4>2. CASE \E grade \in Grades : Request(grade, live, TRUE)
          BY <1>t, <4>2 DEF Request, SettingsTypes
        <4> QED
          BY <1>3, <4>1, <4>2 DEF BuildContinue
      <3> QED
        BY <3>1
    <2>a. SettingsTypes'
      BY <1>t, <2>1, <2>2, <2>3 DEF SettingsTypes, AtRest
    <2>b. Unbuilt'
      BY <1>t, <2>1, <2>2, <2>3 DEF Unbuilt, AtRest
    <2>c. UpToDate'
      BY <1>t, <2>1, <2>2, <2>3 DEF UpToDate, SettingsTypes, AtRest
    <2>d. Undoable'
      BY <1>t, <2>1, <2>2, <2>3 DEF Undoable, UpToDate, SettingsTypes, Unbuilt, AtRest
    <2>e. OwnProcess'
      BY <1>t, <2>1, <2>2, <2>3 DEF OwnProcess, Required, Argv, SettingsTypes, AtRest
    <2>f. PinnedEffort'
      BY <1>t, <2>1, <2>2, <2>3 DEF PinnedEffort, SettingsTypes, OwnProcess, AtRest
    <2> QED
      BY <2>a, <2>b, <2>c, <2>d, <2>e, <2>f DEF SettingsInv
  <1>4. ASSUME NEW r \in built, Open(r) PROVE SettingsInv'
    <2>1. live' = live /\ vendor' = vendor
      BY <1>4 DEF Open
    <2>2. /\ drive = AtRest /\ kept.grade # 0 /\ built' = built \ {r}
          /\ kept' \in KeptSettings /\ kept'.grade # 0 /\ kept'.effort = kept.effort
          /\ kept' = Opened(r) /\ opened' = opened + 1
      <3>1. /\ drive = AtRest /\ built' = built \ {r}
            /\ kept' = Opened(r) /\ opened' = opened + 1
        BY <1>4 DEF Open
      <3>2. kept.grade # 0 /\ kept \in KeptSettings /\ r.grade \in Grades /\ r.via \in Vias
        BY <1>4, <1>t DEF Unbuilt, SettingsTypes
      <3>3. Opened(r) \in KeptSettings /\ Opened(r).grade # 0 /\ Opened(r).effort = kept.effort
        BY <3>2, SettingsAssumption DEF Opened, KeptSettings
      <3> QED
        BY <3>1, <3>2, <3>3
    <2>3. /\ drive'.phase \in {"ready", "claimed"} /\ drive'.via = ViaOf(r)
          /\ drive'.own = r.own /\ (drive'.phase = "claimed" => ~r.own) /\ drive'.before = kept /\ drive'.argv = Argv(kept.effort, r.via)
          /\ drive'.overtaken = (opened # r.after)
          /\ DOMAIN drive' = {"phase", "first", "own", "key", "via", "argv", "before",
                              "overtaken", "history", "effort"}
      BY <1>4, <1>t, <2>1, <2>2 DEF Open
    <2>4. ViaOf(r) \in Vias /\ (r.own => ViaOf(r) = kept'.via)
      BY <1>t, <2>2 DEF ViaOf, KeptSettings, SettingsTypes
    <2>5. r.own /\ opened = r.after => r.via = kept'.via
      BY <1>t, <2>2 DEF Opened, UpToDate, SettingsTypes, KeptSettings
    <2>a. SettingsTypes'
      BY <1>t, <2>1, <2>2, <2>3, <2>4, <2>5 DEF SettingsTypes, AtRest, Opened
    <2>b. Unbuilt'
      BY <1>t, <2>1, <2>2, <2>3, <2>4, <2>5 DEF Unbuilt, Opened, AtRest
    <2>c. UpToDate'
      BY <1>t, <2>1, <2>2, <2>3, <2>4, <2>5 DEF UpToDate, SettingsTypes, Opened, AtRest
    <2>d. Undoable'
      BY <1>t, <2>1, <2>2, <2>3, <2>4, <2>5 DEF Undoable, UpToDate, SettingsTypes, Unbuilt, Opened, AtRest
    <2>e. OwnProcess'
      <3>1. SUFFICES ASSUME drive'.phase = "ready", drive'.own, ~drive'.overtaken
                     PROVE drive'.argv = Argv(kept'.effort, drive'.via)
        BY DEF OwnProcess, Required
      <3>2. r.own /\ opened = r.after
        BY <2>3, <3>1
      <3>3. r.via = drive'.via /\ kept'.effort = kept.effort
        BY <2>2, <2>3, <2>4, <2>5, <3>2
      <3> QED
        BY <2>3, <3>3
    <2>f. PinnedEffort'
      BY <1>t, <2>1, <2>2, <2>3, <2>4, <2>5 DEF PinnedEffort, SettingsTypes, OwnProcess, Opened, AtRest
    <2> QED
      BY <2>a, <2>b, <2>c, <2>d, <2>e, <2>f DEF SettingsInv
  <1>5. ASSUME NEW r \in built, Refuse(r) PROVE SettingsInv'
    <2>1. live' = live /\ kept' = kept /\ opened' = opened /\ drive' = drive /\ vendor' = vendor
      BY <1>5 DEF Refuse
    <2>2. built' = built \ {r}
      BY <1>5, <1>t, <2>1 DEF Refuse
    <2>a. SettingsTypes'
      BY <1>t, <2>1, <2>2 DEF SettingsTypes, AtRest
    <2>b. Unbuilt'
      BY <1>t, <2>1, <2>2 DEF Unbuilt, AtRest
    <2>c. UpToDate'
      BY <1>t, <2>1, <2>2 DEF UpToDate, SettingsTypes, AtRest
    <2>d. Undoable'
      BY <1>t, <2>1, <2>2 DEF Undoable, UpToDate, SettingsTypes, Unbuilt, AtRest
    <2>e. OwnProcess'
      BY <1>t, <2>1, <2>2 DEF OwnProcess, Required, Argv, SettingsTypes, AtRest
    <2>f. PinnedEffort'
      BY <1>t, <2>1, <2>2 DEF PinnedEffort, SettingsTypes, OwnProcess, AtRest
    <2> QED
      BY <2>a, <2>b, <2>c, <2>d, <2>e, <2>f DEF SettingsInv
  <1>6. CASE Prepare
    <2>1. live' = live /\ built' = built /\ vendor' = vendor
      BY <1>6 DEF Prepare
    <2>2. drive.phase = "claimed" /\ drive # AtRest /\ opened \in Nat \ {0}
      BY <1>6, <1>t, <2>1 DEF Prepare, Undoable, SettingsTypes
    <2>3. \/ /\ kept' = kept /\ opened' = opened /\ DOMAIN drive' = DOMAIN drive
             /\ drive'.phase = "ready" /\ drive'.via = drive.via /\ drive'.own = drive.own
             /\ drive'.overtaken = drive.overtaken
          \/ drive' = AtRest /\ kept' = drive.before /\ opened' = opened - 1
      BY <1>6, <1>t, <2>1, <2>2 DEF Prepare, SettingsTypes
    <2>a. SettingsTypes'
      BY <1>t, <2>1, <2>2, <2>3 DEF SettingsTypes, AtRest, Undoable
    <2>b. Unbuilt'
      BY <1>t, <2>1, <2>2, <2>3 DEF Unbuilt, Undoable, AtRest
    <2>c. UpToDate'
      BY <1>t, <2>1, <2>2, <2>3 DEF UpToDate, SettingsTypes, Undoable, AtRest
    <2>d. Undoable'
      BY <1>t, <2>1, <2>2, <2>3 DEF Undoable, UpToDate, SettingsTypes, Unbuilt, Undoable, AtRest
    <2>e. OwnProcess'
      <3>1. ~drive.own
        BY <1>t, <2>2 DEF Undoable
      <3>2. drive'.phase = "ready" => ~drive'.own
        BY <2>3, <3>1 DEF AtRest
      <3> QED
        BY <3>2 DEF OwnProcess
    <2>f. PinnedEffort'
      BY <1>t, <2>1, <2>2, <2>3 DEF PinnedEffort, SettingsTypes, OwnProcess, Undoable, AtRest
    <2> QED
      BY <2>a, <2>b, <2>c, <2>d, <2>e, <2>f DEF SettingsInv
  <1>7. CASE SendDaemon
    <2>1. live' = live /\ kept' = kept /\ opened' = opened /\ built' = built
      BY <1>7 DEF SendDaemon, Sent
    <2>2. drive # AtRest /\ drive.phase = "ready"
      BY <1>7, <1>t DEF SendDaemon
    <2>3. /\ DOMAIN drive' = DOMAIN drive /\ drive'.phase = "prompted"
          /\ drive'.via = drive.via /\ drive'.own = drive.own
          /\ drive'.overtaken = drive.overtaken
      BY <1>7, <1>t, <2>2 DEF SendDaemon, Sent, SettingsTypes
    <2>4. kept.grade # 0 /\ drive' # AtRest
      BY <1>t, <2>2, <2>3 DEF Unbuilt, AtRest
    <2>5. ~drive.own /\ Process.argv = Required
      BY <1>7 DEF SendDaemon, SameCommand
    <2>6. drive'.effort = IF drive.via = "option" /\ kept.effort # 0 THEN kept.effort ELSE Process.argv
      BY <1>7, <1>t, <2>2 DEF SendDaemon, Sent, SettingsTypes
    <2>7. drive'.effort = kept.effort
      BY <1>t, <2>2, <2>5, <2>6 DEF Required, Argv, SettingsTypes, Vias
    <2>a. SettingsTypes'
      BY <1>t, <2>1, <2>2, <2>3, <2>4, <2>5, <2>6, <2>7 DEF SettingsTypes
    <2>b. Unbuilt' /\ UpToDate'
      BY <1>t, <2>1, <2>2, <2>3, <2>4, <2>5, <2>6, <2>7 DEF Unbuilt, UpToDate
    <2>c. Undoable' /\ OwnProcess' /\ PinnedEffort'
      BY <1>t, <2>1, <2>2, <2>3, <2>4, <2>5, <2>6, <2>7 DEF Undoable, OwnProcess, PinnedEffort
    <2> QED
      BY <2>a, <2>b, <2>c DEF SettingsInv
  <1>8. CASE SendDirect
    <2>1. live' = live /\ kept' = kept /\ opened' = opened /\ built' = built
      BY <1>8 DEF SendDirect, Sent
    <2>2. drive # AtRest /\ drive.phase = "ready"
      BY <1>8, <1>t DEF SendDirect
    <2>3. /\ DOMAIN drive' = DOMAIN drive /\ drive'.phase = "prompted"
          /\ drive'.via = drive.via /\ drive'.own = drive.own
          /\ drive'.overtaken = drive.overtaken
      BY <1>8, <1>t, <2>2 DEF SendDirect, Sent, SettingsTypes
    <2>4. kept.grade # 0 /\ drive' # AtRest
      BY <1>t, <2>2, <2>3 DEF Unbuilt, AtRest
    <2>5. drive.own
      BY <1>8 DEF SendDirect
    <2>6. drive'.effort = IF drive.via = "option" /\ kept.effort # 0 THEN kept.effort ELSE drive.argv
      BY <1>8, <1>t, <2>2 DEF SendDirect, Sent, SettingsTypes
    <2>7. ~drive.overtaken => drive'.effort = kept.effort
      BY <1>t, <2>2, <2>5, <2>6 DEF OwnProcess, Required, Argv, SettingsTypes, Vias
    <2>a. SettingsTypes'
      BY <1>t, <2>1, <2>2, <2>3, <2>4, <2>5, <2>6, <2>7 DEF SettingsTypes
    <2>b. Unbuilt' /\ UpToDate'
      BY <1>t, <2>1, <2>2, <2>3, <2>4, <2>5, <2>6, <2>7 DEF Unbuilt, UpToDate
    <2>c. Undoable' /\ OwnProcess' /\ PinnedEffort'
      BY <1>t, <2>1, <2>2, <2>3, <2>4, <2>5, <2>6, <2>7 DEF Undoable, OwnProcess, PinnedEffort
    <2> QED
      BY <2>a, <2>b, <2>c DEF SettingsInv
  <1>9. CASE Finish
    <2>1. live' = live /\ kept' = kept /\ opened' = opened /\ built' = built /\ vendor' = vendor
      BY <1>9 DEF Finish
    <2>2. drive' = AtRest
      BY <1>9, <1>t, <2>1 DEF Finish
    <2>a. SettingsTypes'
      BY <1>t, <2>1, <2>2 DEF SettingsTypes, AtRest
    <2>b. Unbuilt'
      BY <1>t, <2>1, <2>2 DEF Unbuilt, AtRest
    <2>c. UpToDate'
      BY <1>t, <2>1, <2>2 DEF UpToDate, SettingsTypes, AtRest
    <2>d. Undoable'
      BY <1>t, <2>1, <2>2 DEF Undoable, UpToDate, SettingsTypes, Unbuilt, AtRest
    <2>e. OwnProcess'
      BY <1>t, <2>1, <2>2 DEF OwnProcess, Required, Argv, SettingsTypes, AtRest
    <2>f. PinnedEffort'
      BY <1>t, <2>1, <2>2 DEF PinnedEffort, SettingsTypes, OwnProcess, AtRest
    <2> QED
      BY <2>a, <2>b, <2>c, <2>d, <2>e, <2>f DEF SettingsInv
  <1>10. ASSUME NEW key \in Keys, OtherStarts(key) PROVE SettingsInv'
    <2>1. live' = live /\ kept' = kept /\ opened' = opened /\ built' = built /\ drive' = drive /\ vendor' = vendor
      BY <1>10 DEF OtherStarts
    <2>a. SettingsTypes'
      BY <1>t, <2>1 DEF SettingsTypes, AtRest
    <2>b. Unbuilt'
      BY <1>t, <2>1 DEF Unbuilt, AtRest
    <2>c. UpToDate'
      BY <1>t, <2>1 DEF UpToDate, SettingsTypes, AtRest
    <2>d. Undoable'
      BY <1>t, <2>1 DEF Undoable, UpToDate, SettingsTypes, Unbuilt, AtRest
    <2>e. OwnProcess'
      BY <1>t, <2>1 DEF OwnProcess, Required, Argv, SettingsTypes, AtRest
    <2>f. PinnedEffort'
      BY <1>t, <2>1 DEF PinnedEffort, SettingsTypes, OwnProcess, AtRest
    <2> QED
      BY <2>a, <2>b, <2>c, <2>d, <2>e, <2>f DEF SettingsInv
  <1>11. ASSUME NEW key \in Keys, HostGone(key) PROVE SettingsInv'
    <2>1. live' = live /\ kept' = kept /\ opened' = opened /\ built' = built /\ vendor' = vendor
      BY <1>11 DEF HostGone
    <2>2. \/ drive' = drive \/ drive' = AtRest
          \/ /\ drive # AtRest /\ drive' = [drive EXCEPT !.phase = "lost"]
      BY <1>11, <1>t, <2>1 DEF HostGone
    <2>a. SettingsTypes'
      BY <1>t, <2>1, <2>2 DEF SettingsTypes, AtRest
    <2>b. Unbuilt'
      BY <1>t, <2>1, <2>2 DEF Unbuilt, AtRest
    <2>c. UpToDate'
      BY <1>t, <2>1, <2>2 DEF UpToDate, SettingsTypes, AtRest
    <2>d. Undoable'
      BY <1>t, <2>1, <2>2 DEF Undoable, UpToDate, SettingsTypes, Unbuilt, AtRest
    <2>e. OwnProcess'
      BY <1>t, <2>1, <2>2 DEF OwnProcess, Required, Argv, SettingsTypes, AtRest
    <2>f. PinnedEffort'
      BY <1>t, <2>1, <2>2 DEF PinnedEffort, SettingsTypes, OwnProcess, AtRest
    <2> QED
      BY <2>a, <2>b, <2>c, <2>d, <2>e, <2>f DEF SettingsInv
  <1>12. CASE UNCHANGED setvars
    BY <1>t, <1>12 DEF setvars, SettingsInv, SettingsTypes, Unbuilt, UpToDate, Undoable,
       OwnProcess, Required, PinnedEffort
  <1> QED
    BY <1>1, <1>2, <1>3, <1>4, <1>5, <1>6, <1>7, <1>8, <1>9, <1>10, <1>11, <1>12 DEF SettingsNext

\* Whatever edits the entry, whichever other sessions started the process of a
\* target, and whatever claims were undone, a prompt goes out with the effort the
\* session keeps, unless its own process was started for a request that another
\* turn overtook (runner.session_resolution, Daemon._check_command).
THEOREM EffortIsPinned == SettingsSpec => []PinnedEffort
  <1>1. SettingsInv => PinnedEffort
    BY DEF SettingsInv
  <1> QED
    BY <1>1, SettingsBegins, SettingsStep, PTL DEF SettingsSpec

----------------------------------------------------------------------------
(* Permissions.                                                             *)

\* The environment an adapter was started in has the ceiling of its target.
WarmForTarget == \A a \in warm : a.target \in 0..5 /\ a.ceiling = CeilingOf(a.target)
\* What a session keeps it may have: the mode is within the policy ...
MayHave(policy, mode) == policy \in 0..5 /\ mode \in 1..Undeclared /\ Admits(policy, mode)
StoredAdmitted ==
    /\ DOMAIN stored = Calls
    /\ \A s \in Calls : stored[s].known => MayHave(stored[s].policy, stored[s].mode)
\* ... a call is within its caller's bounds, and so it is while it waits ...
Within(call) ==
    call.policy \in 0..5 /\ call.within \in 0..4 /\ CeilingOf(call.policy) <= call.within
CallsWithin ==
    \A call \in calls :
        /\ call.session \in Calls /\ stored[call.session].known
        /\ Within(call)
        /\ call.changes => MayHave(call.policy, call.mode)
\* ... and so are a turn and what its adapter hands on.
TurnFields == {"phase", "policy", "mode", "adapter", "within", "overtaken"}
Bounded(t) ==
    /\ DOMAIN t = TurnFields
    /\ MayHave(t.policy, t.mode) /\ t.within \in 0..4 /\ t.adapter \in warm
    /\ ~t.overtaken => CeilingOf(t.policy) <= t.within /\ t.adapter.target = t.policy
TurnsWithin ==
    /\ DOMAIN turn = Calls
    /\ \A s \in Calls : Runs1(s) => Bounded(turn[s])

PermissionsInv == WarmForTarget /\ StoredAdmitted /\ CallsWithin /\ TurnsWithin

\* What the helpers of cli.py and permissions.py return.
LEMMA CeilingRange ==
  ASSUME NEW policy \in 0..5
  PROVE  CeilingOf(policy) \in 0..4
  BY DEF CeilingOf, Ask, Read1

LEMMA ClampedWithin ==
  ASSUME NEW wanted \in 0..5, NEW ceiling \in 0..4, NEW policy \in Clamped(wanted, ceiling)
  PROVE  policy \in 0..5 /\ CeilingOf(policy) <= ceiling
  BY DEF Clamped, CeilingOf, Ask, Read1, All4

LEMMA UndeclaredNumber == Undeclared \in Nat \ {0} /\ DOMAIN Catalog = 1..(Undeclared - 1)
  BY PermissionsAssumption DEF Undeclared

LEMMA ModesAdmitted ==
  ASSUME NEW policy, NEW explicit \in 0..Undeclared, NEW mode \in Modes(policy, explicit)
  PROVE  mode \in 1..Undeclared /\ Admits(policy, mode)
  <1>1. CASE explicit = 0
    BY <1>1, UndeclaredNumber DEF Modes, Selected, Survivors
  <1>2. CASE explicit # 0
    BY <1>2, UndeclaredNumber DEF Modes
  <1> QED
    BY <1>1, <1>2

\* A caller's ceiling is no more than it may itself: its turn has the policy its
\* adapter was started for, unless another call overtook it.
LEMMA CallersWithin ==
  ASSUME PermissionsInv, NEW s \in Calls, NEW caller \in Callers(s)
  PROVE  caller.ceiling \in 0..4 /\ caller.within \in 0..4 /\ caller.ceiling <= caller.within
  <1>1. CASE caller = [ceiling |-> All4, within |-> All4, person |-> TRUE]
    BY <1>1 DEF All4
  <1>2. CASE \E q \in Calls : Runs1(q) /\
               caller = [ceiling |-> turn[q].adapter.ceiling, person |-> FALSE,
                         within |-> IF turn[q].overtaken THEN turn[q].adapter.ceiling
                                    ELSE CeilingOf(turn[q].policy)]
    <2>1. PICK q \in Calls : Runs1(q) /\
               caller = [ceiling |-> turn[q].adapter.ceiling, person |-> FALSE,
                         within |-> IF turn[q].overtaken THEN turn[q].adapter.ceiling
                                    ELSE CeilingOf(turn[q].policy)]
      BY <1>2
    <2>2. /\ turn[q].policy \in 0..5 /\ turn[q].adapter \in warm
          /\ ~turn[q].overtaken => turn[q].adapter.target = turn[q].policy
      BY <2>1 DEF PermissionsInv, TurnsWithin, Bounded, MayHave
    <2>3. /\ turn[q].adapter.target \in 0..5
          /\ turn[q].adapter.ceiling = CeilingOf(turn[q].adapter.target)
      BY <2>2 DEF PermissionsInv, WarmForTarget
    <2>4. caller.ceiling = turn[q].adapter.ceiling /\ caller.within = caller.ceiling
      BY <2>1, <2>2, <2>3
    <2> QED
      BY <2>3, <2>4, CeilingRange
  <1> QED
    BY <1>1, <1>2 DEF Callers

LEMMA AdapterFits ==
  ASSUME WarmForTarget, NEW policy \in 0..5, NEW adapter \in Adapters(policy)
  PROVE  adapter.target = policy /\ adapter.ceiling = CeilingOf(policy)
  BY DEF WarmForTarget, Adapters, Environment, Target

\* The opening of a turn, of a run or of a continue.
LEMMA BeginKeeps ==
  ASSUME PermissionsInv, NEW s \in Calls, NEW call, Within(call),
         NEW policy, NEW mode, MayHave(policy, mode), Begin(s, call, policy, mode),
         calls' \subseteq calls
  PROVE  PermissionsInv'
  <1>1. PICK adapter \in Adapters(call.policy) :
              /\ turn' = [turn EXCEPT ![s] =
                            [phase |-> "running", policy |-> policy, mode |-> mode,
                             adapter |-> adapter, within |-> call.within,
                             overtaken |-> call.policy # policy]]
              /\ warm' = warm \cup {adapter}
    BY DEF Begin
  <1>2. adapter.target = call.policy /\ adapter.ceiling = CeilingOf(call.policy)
    BY AdapterFits DEF PermissionsInv, Within
  <1>3. stored' = [stored EXCEPT ![s] = [policy |-> policy, mode |-> mode, known |-> TRUE]]
    BY DEF Begin
  <1>4. WarmForTarget'
    BY <1>1, <1>2 DEF PermissionsInv, WarmForTarget, Within
  <1>5. StoredAdmitted'
    BY <1>3 DEF PermissionsInv, StoredAdmitted
  <1>6. CallsWithin'
    BY <1>3 DEF PermissionsInv, CallsWithin, StoredAdmitted
  <1>7. TurnsWithin'
    <2>1. DOMAIN turn' = Calls /\ \A q \in Calls \ {s} : turn'[q] = turn[q]
      BY <1>1 DEF PermissionsInv, TurnsWithin
    <2>2. \A q \in Calls \ {s} : Runs1(q)' => Bounded(turn[q])'
      BY <1>1, <2>1 DEF PermissionsInv, TurnsWithin, Runs1, Bounded
    <2>3. turn'[s] = [phase |-> "running", policy |-> policy, mode |-> mode,
                      adapter |-> adapter, within |-> call.within,
                      overtaken |-> call.policy # policy]
      BY <1>1 DEF PermissionsInv, TurnsWithin
    <2>4. /\ turn'[s].policy = policy /\ turn'[s].mode = mode
          /\ turn'[s].within = call.within /\ turn'[s].adapter = adapter
          /\ DOMAIN turn'[s] = TurnFields
      BY <2>3 DEF TurnFields
    <2>6. turn'[s].overtaken <=> call.policy # policy
      <3> DEFINE late == call.policy # policy
      <3>1. turn'[s] = [phase |-> "running", policy |-> policy, mode |-> mode,
                        adapter |-> adapter, within |-> call.within, overtaken |-> late]
        BY <2>3
      <3> HIDE DEF late
      <3>2. turn'[s].overtaken = late
        BY <3>1
      <3> USE DEF late
      <3> QED
        BY <3>2
    <2>5. Bounded(turn[s])'
      BY <1>1, <1>2, <2>4, <2>6 DEF Bounded, Within
    <2> QED
      BY <2>1, <2>2, <2>5 DEF TurnsWithin
  <1> QED
    BY <1>4, <1>5, <1>6, <1>7 DEF PermissionsInv

LEMMA ResumeKeeps ==
  ASSUME PermissionsInv, NEW call, Within(call), call.session \in Calls,
         stored[call.session].known, call.changes => MayHave(call.policy, call.mode),
         Resume(call), calls' \subseteq calls
  PROVE  PermissionsInv'
  <1>1. CASE call.changes
    <2>1. Begin(call.session, call, call.policy, call.mode)
      BY <1>1 DEF Resume
    <2> QED
      BY <1>1, <2>1, BeginKeeps
  <1>2. CASE ~call.changes
    <2>1. Begin(call.session, call, stored[call.session].policy, stored[call.session].mode)
      BY <1>2 DEF Resume
    <2>2. MayHave(stored[call.session].policy, stored[call.session].mode)
      BY DEF PermissionsInv, StoredAdmitted
    <2> QED
      BY <2>1, <2>2, BeginKeeps
  <1> QED
    BY <1>1, <1>2

\* A step that only touches a running turn, and leaves it within its bounds.
LEMMA TurnKeeps ==
  ASSUME PermissionsInv, NEW s \in Calls, NEW t, turn' = [turn EXCEPT ![s] = t],
         t.phase # "none" => Bounded(t), UNCHANGED <<stored, warm, calls>>
  PROVE  PermissionsInv'
  <1>1. TurnsWithin'
    <2>1. DOMAIN turn' = Calls /\ turn'[s] = t /\ \A q \in Calls \ {s} : turn'[q] = turn[q]
      BY DEF PermissionsInv, TurnsWithin
    <2> QED
      BY <2>1 DEF PermissionsInv, TurnsWithin, Runs1, Bounded
  <1> QED
    BY <1>1 DEF PermissionsInv, WarmForTarget, StoredAdmitted, CallsWithin

LEMMA PermissionsBegin == PermissionsInit => PermissionsInv
  BY DEF PermissionsInit, PermissionsInv, WarmForTarget, StoredAdmitted, CallsWithin,
         TurnsWithin, Runs1, NoTurn

LEMMA PermissionsStep == PermissionsInv /\ [PermissionsNext]_permvars => PermissionsInv'
  <1> SUFFICES ASSUME PermissionsInv, [PermissionsNext]_permvars PROVE PermissionsInv'
    OBVIOUS
  <1>1. ASSUME NEW s \in Calls, RunCall(s) PROVE PermissionsInv'
    <2>1. PICK caller \in Callers(s), wanted \in Policies, explicit \in 0..Undeclared :
            \E policy \in Clamped(wanted, caller.ceiling) :
              \E mode \in Modes(policy, explicit) :
                Begin(s, [policy |-> policy, within |-> caller.within], policy, mode)
      BY <1>1 DEF RunCall
    <2>0. PICK policy \in Clamped(wanted, caller.ceiling) :
            \E mode \in Modes(policy, explicit) :
              Begin(s, [policy |-> policy, within |-> caller.within], policy, mode)
      BY <2>1
    <2>2. PICK mode \in Modes(policy, explicit) :
            Begin(s, [policy |-> policy, within |-> caller.within], policy, mode)
      BY <2>0
    <2>3. /\ caller.ceiling \in 0..4 /\ caller.within \in 0..4
          /\ caller.ceiling <= caller.within
      BY CallersWithin
    <2>4. policy \in 0..5 /\ CeilingOf(policy) <= caller.ceiling
      BY <2>3, ClampedWithin, PermissionsAssumption
    <2>5. MayHave(policy, mode)
      BY <2>4, ModesAdmitted DEF MayHave
    <2> DEFINE call == [policy |-> policy, within |-> caller.within]
    <2>6. Within(call)
      BY <2>3, <2>4, CeilingRange DEF Within
    <2>7. calls' \subseteq calls
      BY <1>1 DEF RunCall
    <2> HIDE DEF call
    <2>8. Begin(s, call, policy, mode)
      BY <2>2 DEF call
    <2> QED
      BY <2>5, <2>6, <2>7, <2>8, BeginKeeps
  <1>2. ASSUME NEW s \in Calls, ContinueCall(s) PROVE PermissionsInv'
    <2>1. PICK caller \in Callers(s), flag \in {"none", "given"} :
            \E wanted \in (IF flag = "given" THEN Policies ELSE {stored[s].policy}) :
            \E policy \in Clamped(wanted, caller.ceiling) :
              /\ policy = Ask => caller.person
              /\ \E explicit \in {0, stored[s].mode} :
                   LET again == flag = "given" \/ policy # wanted IN
                   \E mode \in (IF again THEN Modes(policy, explicit) ELSE {stored[s].mode}) :
                     LET call == [session |-> s, policy |-> policy, mode |-> mode,
                                  changes |-> again, within |-> caller.within] IN
                       \/ Resume(call) /\ UNCHANGED calls
                       \/ /\ Cardinality(calls) < MaxCalls /\ calls' = calls \cup {call}
                          /\ UNCHANGED <<stored, turn, warm>>
      BY <1>2 DEF ContinueCall
    <2>a. PICK wanted \in (IF flag = "given" THEN Policies ELSE {stored[s].policy}) :
            \E policy \in Clamped(wanted, caller.ceiling) :
              /\ policy = Ask => caller.person
              /\ \E explicit \in {0, stored[s].mode} :
                   LET again == flag = "given" \/ policy # wanted IN
                   \E mode \in (IF again THEN Modes(policy, explicit) ELSE {stored[s].mode}) :
                     LET call == [session |-> s, policy |-> policy, mode |-> mode,
                                  changes |-> again, within |-> caller.within] IN
                       \/ Resume(call) /\ UNCHANGED calls
                       \/ /\ Cardinality(calls) < MaxCalls /\ calls' = calls \cup {call}
                          /\ UNCHANGED <<stored, turn, warm>>
      BY <2>1
    <2>b. PICK policy \in Clamped(wanted, caller.ceiling) :
              /\ policy = Ask => caller.person
              /\ \E explicit \in {0, stored[s].mode} :
                   LET again == flag = "given" \/ policy # wanted IN
                   \E mode \in (IF again THEN Modes(policy, explicit) ELSE {stored[s].mode}) :
                     LET call == [session |-> s, policy |-> policy, mode |-> mode,
                                  changes |-> again, within |-> caller.within] IN
                       \/ Resume(call) /\ UNCHANGED calls
                       \/ /\ Cardinality(calls) < MaxCalls /\ calls' = calls \cup {call}
                          /\ UNCHANGED <<stored, turn, warm>>
      BY <2>a
    <2> DEFINE again == flag = "given" \/ policy # wanted
    <2> DEFINE Made(mode) == [session |-> s, policy |-> policy, mode |-> mode,
                              changes |-> again, within |-> caller.within]
    <2>2. PICK explicit \in {0, stored[s].mode} :
            \E mode \in (IF again THEN Modes(policy, explicit) ELSE {stored[s].mode}) :
              \/ Resume(Made(mode)) /\ UNCHANGED calls
              \/ calls' = calls \cup {Made(mode)} /\ UNCHANGED <<stored, turn, warm>>
      BY <2>b
    <2>3. PICK mode \in (IF again THEN Modes(policy, explicit) ELSE {stored[s].mode}) :
              \/ Resume(Made(mode)) /\ UNCHANGED calls
              \/ calls' = calls \cup {Made(mode)} /\ UNCHANGED <<stored, turn, warm>>
      BY <2>2
    <2> DEFINE call == Made(mode)
    <2>4. stored[s].known /\ MayHave(stored[s].policy, stored[s].mode)
      BY <1>2 DEF ContinueCall, PermissionsInv, StoredAdmitted
    <2>5. /\ caller.ceiling \in 0..4 /\ caller.within \in 0..4
          /\ caller.ceiling <= caller.within
      BY CallersWithin
    <2>6. wanted \in 0..5
      BY <2>4, PermissionsAssumption DEF MayHave
    <2>7. policy \in 0..5 /\ CeilingOf(policy) <= caller.ceiling
      BY <2>5, <2>6, ClampedWithin
    <2>8. explicit \in 0..Undeclared
      BY <2>4, UndeclaredNumber DEF MayHave
    <2>9. again => MayHave(policy, mode)
      BY <2>7, <2>8, ModesAdmitted DEF MayHave
    <2>10. /\ call.session = s /\ call.policy = policy /\ call.mode = mode
           /\ call.within = caller.within /\ (call.changes <=> again)
      OBVIOUS
    <2>11. Within(call)
      BY <2>5, <2>7, <2>10, CeilingRange DEF Within
    <2>12. call.changes => MayHave(call.policy, call.mode)
      BY <2>9, <2>10
    <2>13. \/ Resume(call) /\ UNCHANGED calls
           \/ calls' = calls \cup {call} /\ UNCHANGED <<stored, turn, warm>>
      BY <2>3
    <2> HIDE DEF call
    <2>14. CASE Resume(call) /\ UNCHANGED calls
      BY <2>4, <2>10, <2>11, <2>12, <2>14, ResumeKeeps
    <2>15. CASE calls' = calls \cup {call} /\ UNCHANGED <<stored, turn, warm>>
      <3>1. CallsWithin'
        BY <2>4, <2>10, <2>11, <2>12, <2>15 DEF PermissionsInv, CallsWithin, Within
      <3> QED
        BY <2>15, <3>1
           DEF PermissionsInv, WarmForTarget, StoredAdmitted, TurnsWithin, Runs1, Bounded
    <2> QED
      BY <2>13, <2>14, <2>15
  <1>3. ASSUME NEW s \in Calls, AskPerson(s) \/ Answers(s) PROVE PermissionsInv'
    <2>1. Runs1(s)
      BY <1>3 DEF AskPerson, Answers, Runs1
    <2>2. Bounded(turn[s])
      BY <2>1 DEF PermissionsInv, TurnsWithin
    <2>3. PICK phase \in {"running", "asking"} :
            turn' = [turn EXCEPT ![s] = [turn[s] EXCEPT !.phase = phase]]
      BY <1>3 DEF AskPerson, Answers
    <2> DEFINE t == [turn[s] EXCEPT !.phase = phase]
    <2>4. Bounded(t)
      BY <2>2 DEF Bounded, TurnFields
    <2>5. UNCHANGED <<stored, warm, calls>>
      BY <1>3 DEF AskPerson, Answers
    <2>6. turn' = [turn EXCEPT ![s] = t]
      BY <2>3
    <2> HIDE DEF t
    <2> QED
      BY <2>4, <2>5, <2>6, TurnKeeps
  <1>4. ASSUME NEW s \in Calls, SwitchMode(s) PROVE PermissionsInv'
    <2>1. Runs1(s)
      BY <1>4 DEF SwitchMode, Runs1
    <2>2. Bounded(turn[s])
      BY <2>1 DEF PermissionsInv, TurnsWithin
    <2>3. PICK mode \in 1..Undeclared :
            turn' = [turn EXCEPT ![s] = IF SwitchAdmitted(s, mode)
                                        THEN [turn[s] EXCEPT !.mode = mode] ELSE NoTurn]
      BY <1>4 DEF SwitchMode
    <2> DEFINE t == IF SwitchAdmitted(s, mode) THEN [turn[s] EXCEPT !.mode = mode] ELSE NoTurn
    <2>4. t.phase # "none" => Bounded(t)
      <3>1. CASE SwitchAdmitted(s, mode)
        <4>1. /\ DOMAIN t = TurnFields /\ t.policy = turn[s].policy /\ t.mode = mode
              /\ t.within = turn[s].within /\ t.adapter = turn[s].adapter
              /\ t.overtaken = turn[s].overtaken
          BY <2>2, <3>1 DEF Bounded, TurnFields
        <4> HIDE DEF t
        <4> QED
          BY <2>2, <3>1, <4>1 DEF Bounded, SwitchAdmitted, MayHave
      <3>2. CASE ~SwitchAdmitted(s, mode)
        BY <3>2 DEF NoTurn
      <3> QED
        BY <3>1, <3>2
    <2>5. UNCHANGED <<stored, warm, calls>>
      BY <1>4 DEF SwitchMode
    <2>6. turn' = [turn EXCEPT ![s] = t]
      BY <2>3
    <2> HIDE DEF t
    <2> QED
      BY <2>4, <2>5, <2>6, TurnKeeps
  <1>5. ASSUME NEW s \in Calls, TurnOver(s) PROVE PermissionsInv'
    <2>1. turn' = [turn EXCEPT ![s] = NoTurn] /\ UNCHANGED <<stored, warm, calls>>
      BY <1>5 DEF TurnOver
    <2>2. NoTurn.phase = "none"
      BY DEF NoTurn
    <2> QED
      BY <2>1, <2>2, TurnKeeps
  <1>6. ASSUME NEW call \in calls, OpenCall(call) PROVE PermissionsInv'
    BY <1>6, ResumeKeeps DEF OpenCall, PermissionsInv, CallsWithin
  <1>7. ASSUME NEW call \in calls, RefuseCall(call) PROVE PermissionsInv'
    BY <1>7 DEF RefuseCall, PermissionsInv, WarmForTarget, StoredAdmitted, CallsWithin,
                TurnsWithin, Runs1, Bounded
  <1>8. CASE CoolDown
    <2>1. PICK a \in warm : /\ \A s \in Calls : Runs1(s) => turn[s].adapter # a
                            /\ warm' = warm \ {a}
      BY <1>8 DEF CoolDown
    <2>2. UNCHANGED <<stored, turn, calls>>
      BY <1>8 DEF CoolDown
    <2>3. TurnsWithin'
      BY <2>1, <2>2 DEF PermissionsInv, TurnsWithin, Runs1, Bounded
    <2> QED
      BY <2>1, <2>2, <2>3 DEF PermissionsInv, WarmForTarget, StoredAdmitted, CallsWithin
  <1>9. CASE UNCHANGED permvars
    BY <1>9 DEF permvars, PermissionsInv, WarmForTarget, StoredAdmitted, CallsWithin,
                TurnsWithin, Runs1, Bounded
  <1> QED
    BY <1>1, <1>2, <1>3, <1>4, <1>5, <1>6, <1>7, <1>8, <1>9 DEF PermissionsNext

\* For any number of sessions, any catalogue of modes and any chain of runs and
\* continuations, a turn does nothing unasked beyond its own policy or beyond
\* what its caller might (select_mode, _clamp_inherited_ceiling, daemon_target).
THEOREM AuthorityOnlyShrinks == PermissionsSpec => []NoMoreThanParent
  <1>1. PermissionsInv => NoMoreThanParent
    <2> SUFFICES ASSUME PermissionsInv, NEW s \in Calls, Runs1(s), NEW c \in Unasked(s)
                 PROVE  Allows(turn[s].policy, c) /\ (c <= turn[s].within \/ turn[s].overtaken)
      BY DEF NoMoreThanParent
    <2>1. Bounded(turn[s])
      BY DEF PermissionsInv, TurnsWithin
    <2>2. MayHave(turn[s].policy, turn[s].mode) /\ turn[s].within \in 0..4
      BY <2>1 DEF Bounded
    <2>3. c \in 1..4
      BY DEF Unasked, Categories, Read1, All4
    <2>4. CeilingOf(turn[s].policy) \in 0..4
      BY <2>2, CeilingRange DEF MayHave
    <2>5. Grants(turn[s].mode) \in 0..4 /\ Grants(turn[s].mode) <= CeilingOf(turn[s].policy)
      <3>1. CASE turn[s].mode = Undeclared
        BY <2>2, <3>1 DEF Grants, MayHave, Admits, CeilingOf, All4, Ask
      <3>2. CASE turn[s].mode # Undeclared
        <4>1. turn[s].mode \in DOMAIN Catalog
          BY <2>2, <3>2, UndeclaredNumber DEF MayHave
        <4> DEFINE Mode == [grants : 0..4, delegates : BOOLEAN, selectable : BOOLEAN]
        <4>a. Catalog \in Seq(Mode)
          BY PermissionsAssumption
        <4> HIDE DEF Mode
        <4>b. Catalog[turn[s].mode] \in Mode
          BY <4>a, <4>1
        <4> USE DEF Mode
        <4>2. Catalog[turn[s].mode].grants \in 0..4
          BY <4>b
        <4> QED
          BY <2>2, <3>2, <4>2 DEF Grants, MayHave, Admits
      <3> QED
        BY <3>1, <3>2
    <2>6. Allows(turn[s].policy, c)
      BY <2>3, <2>4, <2>5 DEF Unasked, Allows
    <2>7. c <= turn[s].within \/ turn[s].overtaken
      BY <2>1, <2>2, <2>3, <2>4, <2>6 DEF Bounded, Allows
    <2> QED
      BY <2>6, <2>7
  <1> QED
    BY <1>1, PermissionsBegin, PermissionsStep, PTL DEF PermissionsSpec
=============================================================================
