---------------------------- MODULE WebCtlProofs ----------------------------
(***************************************************************************)
(* Proofs about WebCtl for every number of goroutines, ports, buttons and  *)
(* restarts.                                                               *)
(***************************************************************************)
EXTENDS WebCtl, FiniteSetTheorems, TLAPS

(* The provers need no bound on the number of a Start.                     *)
Id      == Nat \X Ports
Labels  == {"idle", "boot", "check", "take", "close", "save0", "lock", "http", "more", "save1"}
Holding == {"http", "more", "save1"}

Typed ==
  /\ servers \subseteq Id /\ fresh \subseteq Id /\ bound \subseteq Id /\ shut \subseteq Id
  /\ srvs \in [Actors -> SUBSET Id]
  /\ pc \in [Actors -> Labels]
  /\ holder \in Actors \cup {Nobody}
  /\ starts \in Nat

(* mu is held by the Start that is past its Stop.                          *)
Mutex == \A a \in Actors : holder = a <=> pc[a] \in Holding

(* A Stop shuts down nothing but what it took, and only while it closes.   *)
Closing ==
  \A a \in Actors : /\ pc[a] # "close" => srvs[a] = {}
                    /\ srvs[a] \cap (servers \cup fresh) = {}

(* What the controller has or is making is open.                           *)
Open == servers \cup fresh \subseteq bound \ shut

(* A listener that is being made is new: a Start's number is its own.      *)
Numbered ==
  /\ \A x \in bound \cup shut : x[1] <= starts
  /\ \A a \in Actors : \A x \in srvs[a] : x[1] <= starts
  /\ \A a \in Actors : pc[a] = "http" =>
       /\ \A x \in bound \cup shut : x[1] # starts
       /\ \A b \in Actors : \A x \in srvs[b] : x[1] # starts
  /\ \A a \in Actors : pc[a] = "more" =>
       /\ \A x \in shut : x[1] # starts
       /\ \A b \in Actors : \A x \in srvs[b] : x[1] # starts

(* Listeners are made by the one Start that holds mu, while the controller *)
(* has none.                                                               *)
Making ==
  /\ fresh # {} => \E a \in Actors : pc[a] = "more"
  /\ \A a \in Actors : pc[a] = "more" => <<starts, Http>> \in fresh /\ servers = {}

Up ==
  /\ running => \E x \in servers : x[2] = Http
  /\ servers # {} => running

Inv == Typed /\ Mutex /\ Closing /\ Open /\ Numbered /\ Making /\ Up /\ NoLeak

USE DEF Labels, Holding, Goto

LEMMA TypedStep ==
  ASSUME Inv, [Next]_webVars
  PROVE  Typed'
  <1> USE WebCtlAssumption DEF Inv, Typed
  <1>0. ASSUME NEW a \in Actors, Enabled(a)
        PROVE  Typed'
    BY <1>0 DEF Enabled, controller, command, net, asked
  <1>1. ASSUME NEW a \in Actors, Check(a)
        PROVE  Typed'
    BY <1>1 DEF Check, controller, command, net, asked
  <1>2. ASSUME NEW a \in Actors, Take(a)
        PROVE  Typed'
    BY <1>2 DEF Take, controller, command, net, asked
  <1>3. ASSUME NEW a \in Actors, Closed(a)
        PROVE  Typed'
    BY <1>3 DEF Closed, controller, command, net, asked
  <1>4. ASSUME NEW a \in Actors, SaveOff(a)
        PROVE  Typed'
    BY <1>4 DEF SaveOff, controller, command, net, asked
  <1>5. ASSUME NEW a \in Actors, Lock(a)
        PROVE  Typed'
    BY <1>5 DEF Lock, controller, command, net, asked
  <1>6. ASSUME NEW a \in Actors, ListenHttp(a)
        PROVE  Typed'
    BY <1>6 DEF ListenHttp, Taken, Id, controller, command, net, asked
  <1>7. ASSUME NEW a \in Actors, Commit(a)
        PROVE  Typed'
    BY <1>7 DEF Commit, controller, command, net, asked
  <1>8. ASSUME NEW a \in Actors, SaveOn(a)
        PROVE  Typed'
    BY <1>8 DEF SaveOn, controller, command, net, asked
  <1>9. ASSUME NEW a \in Actors, NEW x \in Server, Shutdown(a, x)
        PROVE  Typed'
    BY <1>9 DEF Shutdown, controller, command, net, asked
  <1>10. ASSUME NEW a \in Actors, NEW p \in Ports, ListenMore(a, p)
        PROVE  Typed'
    BY <1>10 DEF ListenMore, Taken, Id, controller, command, net, asked
  <1>11. ASSUME NEW a \in Actors, NEW o \in Orders, Order(a, o)
        PROVE  Typed'
    BY <1>11 DEF Order, controller, command, net, asked
  <1>12. ASSUME NEW x \in Server, Serve(x)
        PROVE  Typed'
    BY <1>12 DEF Serve, controller, command, net, asked
  <1>13. ASSUME Restart
        PROVE  Typed'
    BY <1>13 DEF Restart, Boot, controller, command, net, asked
  <1>14. ASSUME NEW p \in Others, Elsewhere(p)
        PROVE  Typed'
    BY <1>14 DEF Elsewhere, controller, command, net, asked
  <1>15. ASSUME UNCHANGED webVars
        PROVE  Typed'
    BY <1>15 DEF webVars, controller, command, net, asked
  <1> QED
    BY <1>0, <1>1, <1>2, <1>3, <1>4, <1>5, <1>6, <1>7, <1>8,
       <1>9, <1>10, <1>11, <1>12, <1>13, <1>14, <1>15 DEF Next, Step

LEMMA MutexStep ==
  ASSUME Inv, [Next]_webVars
  PROVE  Mutex'
  <1> USE WebCtlAssumption DEF Inv, Typed, Mutex
  <1>0. ASSUME NEW a \in Actors, Enabled(a)
        PROVE  Mutex'
    BY <1>0 DEF Enabled, controller, command, net, asked
  <1>1. ASSUME NEW a \in Actors, Check(a)
        PROVE  Mutex'
    BY <1>1 DEF Check, controller, command, net, asked
  <1>2. ASSUME NEW a \in Actors, Take(a)
        PROVE  Mutex'
    BY <1>2 DEF Take, controller, command, net, asked
  <1>3. ASSUME NEW a \in Actors, Closed(a)
        PROVE  Mutex'
    BY <1>3 DEF Closed, controller, command, net, asked
  <1>4. ASSUME NEW a \in Actors, SaveOff(a)
        PROVE  Mutex'
    BY <1>4 DEF SaveOff, controller, command, net, asked
  <1>5. ASSUME NEW a \in Actors, Lock(a)
        PROVE  Mutex'
    BY <1>5 DEF Lock, controller, command, net, asked
  <1>6. ASSUME NEW a \in Actors, ListenHttp(a)
        PROVE  Mutex'
    BY <1>6 DEF ListenHttp, Taken, Id, controller, command, net, asked
  <1>7. ASSUME NEW a \in Actors, Commit(a)
        PROVE  Mutex'
    BY <1>7 DEF Commit, controller, command, net, asked
  <1>8. ASSUME NEW a \in Actors, SaveOn(a)
        PROVE  Mutex'
    BY <1>8 DEF SaveOn, controller, command, net, asked
  <1>9. ASSUME NEW a \in Actors, NEW x \in Server, Shutdown(a, x)
        PROVE  Mutex'
    BY <1>9 DEF Shutdown, controller, command, net, asked
  <1>10. ASSUME NEW a \in Actors, NEW p \in Ports, ListenMore(a, p)
        PROVE  Mutex'
    BY <1>10 DEF ListenMore, Taken, Id, controller, command, net, asked
  <1>11. ASSUME NEW a \in Actors, NEW o \in Orders, Order(a, o)
        PROVE  Mutex'
    BY <1>11 DEF Order, controller, command, net, asked
  <1>12. ASSUME NEW x \in Server, Serve(x)
        PROVE  Mutex'
    BY <1>12 DEF Serve, controller, command, net, asked
  <1>13. ASSUME Restart
        PROVE  Mutex'
    BY <1>13 DEF Restart, Boot, controller, command, net, asked
  <1>14. ASSUME NEW p \in Others, Elsewhere(p)
        PROVE  Mutex'
    BY <1>14 DEF Elsewhere, controller, command, net, asked
  <1>15. ASSUME UNCHANGED webVars
        PROVE  Mutex'
    BY <1>15 DEF webVars, controller, command, net, asked
  <1> QED
    BY <1>0, <1>1, <1>2, <1>3, <1>4, <1>5, <1>6, <1>7, <1>8,
       <1>9, <1>10, <1>11, <1>12, <1>13, <1>14, <1>15 DEF Next, Step

LEMMA ClosingStep ==
  ASSUME Inv, [Next]_webVars
  PROVE  Closing'
  <1> USE WebCtlAssumption DEF Inv, Typed, Mutex, Closing, Numbered, Open, Making
  <1>0. ASSUME NEW a \in Actors, Enabled(a)
        PROVE  Closing'
    BY <1>0 DEF Enabled, controller, command, net, asked
  <1>1. ASSUME NEW a \in Actors, Check(a)
        PROVE  Closing'
    BY <1>1 DEF Check, controller, command, net, asked
  <1>2. ASSUME NEW a \in Actors, Take(a)
        PROVE  Closing'
    BY <1>2 DEF Take, controller, command, net, asked
  <1>3. ASSUME NEW a \in Actors, Closed(a)
        PROVE  Closing'
    BY <1>3 DEF Closed, controller, command, net, asked
  <1>4. ASSUME NEW a \in Actors, SaveOff(a)
        PROVE  Closing'
    BY <1>4 DEF SaveOff, controller, command, net, asked
  <1>5. ASSUME NEW a \in Actors, Lock(a)
        PROVE  Closing'
    BY <1>5 DEF Lock, controller, command, net, asked
  <1>6. ASSUME NEW a \in Actors, ListenHttp(a)
        PROVE  Closing'
    BY <1>6 DEF ListenHttp, Taken, Id, controller, command, net, asked
  <1>7. ASSUME NEW a \in Actors, Commit(a)
        PROVE  Closing'
    BY <1>7 DEF Commit, controller, command, net, asked
  <1>8. ASSUME NEW a \in Actors, SaveOn(a)
        PROVE  Closing'
    BY <1>8 DEF SaveOn, controller, command, net, asked
  <1>9. ASSUME NEW a \in Actors, NEW x \in Server, Shutdown(a, x)
        PROVE  Closing'
    BY <1>9 DEF Shutdown, controller, command, net, asked
  <1>10. ASSUME NEW a \in Actors, NEW p \in Ports, ListenMore(a, p)
        PROVE  Closing'
    BY <1>10 DEF ListenMore, Taken, Id, controller, command, net, asked
  <1>11. ASSUME NEW a \in Actors, NEW o \in Orders, Order(a, o)
        PROVE  Closing'
    BY <1>11 DEF Order, controller, command, net, asked
  <1>12. ASSUME NEW x \in Server, Serve(x)
        PROVE  Closing'
    BY <1>12 DEF Serve, controller, command, net, asked
  <1>13. ASSUME Restart
        PROVE  Closing'
    BY <1>13 DEF Restart, Boot, controller, command, net, asked
  <1>14. ASSUME NEW p \in Others, Elsewhere(p)
        PROVE  Closing'
    BY <1>14 DEF Elsewhere, controller, command, net, asked
  <1>15. ASSUME UNCHANGED webVars
        PROVE  Closing'
    BY <1>15 DEF webVars, controller, command, net, asked
  <1> QED
    BY <1>0, <1>1, <1>2, <1>3, <1>4, <1>5, <1>6, <1>7, <1>8,
       <1>9, <1>10, <1>11, <1>12, <1>13, <1>14, <1>15 DEF Next, Step

LEMMA OpenStep ==
  ASSUME Inv, [Next]_webVars
  PROVE  Open'
  <1> USE WebCtlAssumption DEF Inv, Typed, Mutex, Closing, Open, Numbered
  <1>0. ASSUME NEW a \in Actors, Enabled(a)
        PROVE  Open'
    BY <1>0 DEF Enabled, controller, command, net, asked
  <1>1. ASSUME NEW a \in Actors, Check(a)
        PROVE  Open'
    BY <1>1 DEF Check, controller, command, net, asked
  <1>2. ASSUME NEW a \in Actors, Take(a)
        PROVE  Open'
    BY <1>2 DEF Take, controller, command, net, asked
  <1>3. ASSUME NEW a \in Actors, Closed(a)
        PROVE  Open'
    BY <1>3 DEF Closed, controller, command, net, asked
  <1>4. ASSUME NEW a \in Actors, SaveOff(a)
        PROVE  Open'
    BY <1>4 DEF SaveOff, controller, command, net, asked
  <1>5. ASSUME NEW a \in Actors, Lock(a)
        PROVE  Open'
    BY <1>5 DEF Lock, controller, command, net, asked
  <1>6. ASSUME NEW a \in Actors, ListenHttp(a)
        PROVE  Open'
    BY <1>6 DEF ListenHttp, Taken, Id, controller, command, net, asked
  <1>7. ASSUME NEW a \in Actors, Commit(a)
        PROVE  Open'
    BY <1>7 DEF Commit, controller, command, net, asked
  <1>8. ASSUME NEW a \in Actors, SaveOn(a)
        PROVE  Open'
    BY <1>8 DEF SaveOn, controller, command, net, asked
  <1>9. ASSUME NEW a \in Actors, NEW x \in Server, Shutdown(a, x)
        PROVE  Open'
    BY <1>9 DEF Shutdown, controller, command, net, asked
  <1>10. ASSUME NEW a \in Actors, NEW p \in Ports, ListenMore(a, p)
        PROVE  Open'
    BY <1>10 DEF ListenMore, Taken, Id, controller, command, net, asked
  <1>11. ASSUME NEW a \in Actors, NEW o \in Orders, Order(a, o)
        PROVE  Open'
    BY <1>11 DEF Order, controller, command, net, asked
  <1>12. ASSUME NEW x \in Server, Serve(x)
        PROVE  Open'
    BY <1>12 DEF Serve, controller, command, net, asked
  <1>13. ASSUME Restart
        PROVE  Open'
    BY <1>13 DEF Restart, Boot, controller, command, net, asked
  <1>14. ASSUME NEW p \in Others, Elsewhere(p)
        PROVE  Open'
    BY <1>14 DEF Elsewhere, controller, command, net, asked
  <1>15. ASSUME UNCHANGED webVars
        PROVE  Open'
    BY <1>15 DEF webVars, controller, command, net, asked
  <1> QED
    BY <1>0, <1>1, <1>2, <1>3, <1>4, <1>5, <1>6, <1>7, <1>8,
       <1>9, <1>10, <1>11, <1>12, <1>13, <1>14, <1>15 DEF Next, Step

LEMMA NumberedStep ==
  ASSUME Inv, [Next]_webVars
  PROVE  Numbered'
  <1> USE WebCtlAssumption DEF Inv, Typed, Mutex, Closing, Open, Numbered, Making
  <1>0. ASSUME NEW a \in Actors, Enabled(a)
        PROVE  Numbered'
    BY <1>0 DEF Enabled, controller, command, net, asked
  <1>1. ASSUME NEW a \in Actors, Check(a)
        PROVE  Numbered'
    BY <1>1 DEF Check, controller, command, net, asked
  <1>2. ASSUME NEW a \in Actors, Take(a)
        PROVE  Numbered'
    BY <1>2 DEF Take, controller, command, net, asked
  <1>3. ASSUME NEW a \in Actors, Closed(a)
        PROVE  Numbered'
    BY <1>3 DEF Closed, controller, command, net, asked
  <1>4. ASSUME NEW a \in Actors, SaveOff(a)
        PROVE  Numbered'
    BY <1>4 DEF SaveOff, controller, command, net, asked
  <1>5. ASSUME NEW a \in Actors, Lock(a)
        PROVE  Numbered'
    <2>1. \A x \in Id : x[1] \in Nat
      BY DEF Id
    <2>2. /\ UNCHANGED <<bound, shut, srvs>> /\ starts' = starts + 1
          /\ \A b \in Actors : pc'[b] \in Holding => b = a
          /\ pc'[a] = "http"
      BY <1>5 DEF Lock, net
    <2>3. /\ \A x \in bound \cup shut : x[1] <= starts' /\ x[1] # starts'
          /\ \A b \in Actors : \A x \in srvs[b] : x[1] <= starts' /\ x[1] # starts'
      BY <2>1, <2>2
    <2> QED
      BY <2>2, <2>3
  <1>6. ASSUME NEW a \in Actors, ListenHttp(a)
        PROVE  Numbered'
    BY <1>6 DEF ListenHttp, Taken, Id, controller, command, net, asked
  <1>7. ASSUME NEW a \in Actors, Commit(a)
        PROVE  Numbered'
    BY <1>7 DEF Commit, controller, command, net, asked
  <1>8. ASSUME NEW a \in Actors, SaveOn(a)
        PROVE  Numbered'
    BY <1>8 DEF SaveOn, controller, command, net, asked
  <1>9. ASSUME NEW a \in Actors, NEW x \in Server, Shutdown(a, x)
        PROVE  Numbered'
    BY <1>9 DEF Shutdown, controller, command, net, asked
  <1>10. ASSUME NEW a \in Actors, NEW p \in Ports, ListenMore(a, p)
        PROVE  Numbered'
    BY <1>10 DEF ListenMore, Taken, Id, controller, command, net, asked
  <1>11. ASSUME NEW a \in Actors, NEW o \in Orders, Order(a, o)
        PROVE  Numbered'
    BY <1>11 DEF Order, controller, command, net, asked
  <1>12. ASSUME NEW x \in Server, Serve(x)
        PROVE  Numbered'
    BY <1>12 DEF Serve, controller, command, net, asked
  <1>13. ASSUME Restart
        PROVE  Numbered'
    BY <1>13 DEF Restart, Boot, controller, command, net, asked
  <1>14. ASSUME NEW p \in Others, Elsewhere(p)
        PROVE  Numbered'
    BY <1>14 DEF Elsewhere, controller, command, net, asked
  <1>15. ASSUME UNCHANGED webVars
        PROVE  Numbered'
    BY <1>15 DEF webVars, controller, command, net, asked
  <1> QED
    BY <1>0, <1>1, <1>2, <1>3, <1>4, <1>5, <1>6, <1>7, <1>8,
       <1>9, <1>10, <1>11, <1>12, <1>13, <1>14, <1>15 DEF Next, Step

LEMMA MakingStep ==
  ASSUME Inv, [Next]_webVars
  PROVE  Making'
  <1> USE WebCtlAssumption DEF Inv, Typed, Mutex, Making, Open, Up
  <1>0. ASSUME NEW a \in Actors, Enabled(a)
        PROVE  Making'
    BY <1>0 DEF Enabled, controller, command, net, asked
  <1>1. ASSUME NEW a \in Actors, Check(a)
        PROVE  Making'
    BY <1>1 DEF Check, controller, command, net, asked
  <1>2. ASSUME NEW a \in Actors, Take(a)
        PROVE  Making'
    BY <1>2 DEF Take, controller, command, net, asked
  <1>3. ASSUME NEW a \in Actors, Closed(a)
        PROVE  Making'
    BY <1>3 DEF Closed, controller, command, net, asked
  <1>4. ASSUME NEW a \in Actors, SaveOff(a)
        PROVE  Making'
    BY <1>4 DEF SaveOff, controller, command, net, asked
  <1>5. ASSUME NEW a \in Actors, Lock(a)
        PROVE  Making'
    BY <1>5 DEF Lock, controller, command, net, asked
  <1>6. ASSUME NEW a \in Actors, ListenHttp(a)
        PROVE  Making'
    BY <1>6 DEF ListenHttp, Taken, Id, controller, command, net, asked
  <1>7. ASSUME NEW a \in Actors, Commit(a)
        PROVE  Making'
    BY <1>7 DEF Commit, controller, command, net, asked
  <1>8. ASSUME NEW a \in Actors, SaveOn(a)
        PROVE  Making'
    BY <1>8 DEF SaveOn, controller, command, net, asked
  <1>9. ASSUME NEW a \in Actors, NEW x \in Server, Shutdown(a, x)
        PROVE  Making'
    BY <1>9 DEF Shutdown, controller, command, net, asked
  <1>10. ASSUME NEW a \in Actors, NEW p \in Ports, ListenMore(a, p)
        PROVE  Making'
    BY <1>10 DEF ListenMore, Taken, Id, controller, command, net, asked
  <1>11. ASSUME NEW a \in Actors, NEW o \in Orders, Order(a, o)
        PROVE  Making'
    BY <1>11 DEF Order, controller, command, net, asked
  <1>12. ASSUME NEW x \in Server, Serve(x)
        PROVE  Making'
    BY <1>12 DEF Serve, controller, command, net, asked
  <1>13. ASSUME Restart
        PROVE  Making'
    BY <1>13 DEF Restart, Boot, controller, command, net, asked
  <1>14. ASSUME NEW p \in Others, Elsewhere(p)
        PROVE  Making'
    BY <1>14 DEF Elsewhere, controller, command, net, asked
  <1>15. ASSUME UNCHANGED webVars
        PROVE  Making'
    BY <1>15 DEF webVars, controller, command, net, asked
  <1> QED
    BY <1>0, <1>1, <1>2, <1>3, <1>4, <1>5, <1>6, <1>7, <1>8,
       <1>9, <1>10, <1>11, <1>12, <1>13, <1>14, <1>15 DEF Next, Step

LEMMA UpStep ==
  ASSUME Inv, [Next]_webVars
  PROVE  Up'
  <1> USE WebCtlAssumption DEF Inv, Typed, Mutex, Making, Up
  <1>0. ASSUME NEW a \in Actors, Enabled(a)
        PROVE  Up'
    BY <1>0 DEF Enabled, controller, command, net, asked
  <1>1. ASSUME NEW a \in Actors, Check(a)
        PROVE  Up'
    BY <1>1 DEF Check, controller, command, net, asked
  <1>2. ASSUME NEW a \in Actors, Take(a)
        PROVE  Up'
    BY <1>2 DEF Take, controller, command, net, asked
  <1>3. ASSUME NEW a \in Actors, Closed(a)
        PROVE  Up'
    BY <1>3 DEF Closed, controller, command, net, asked
  <1>4. ASSUME NEW a \in Actors, SaveOff(a)
        PROVE  Up'
    BY <1>4 DEF SaveOff, controller, command, net, asked
  <1>5. ASSUME NEW a \in Actors, Lock(a)
        PROVE  Up'
    BY <1>5 DEF Lock, controller, command, net, asked
  <1>6. ASSUME NEW a \in Actors, ListenHttp(a)
        PROVE  Up'
    BY <1>6 DEF ListenHttp, Taken, Id, controller, command, net, asked
  <1>7. ASSUME NEW a \in Actors, Commit(a)
        PROVE  Up'
    BY <1>7 DEF Commit, controller, command, net, asked
  <1>8. ASSUME NEW a \in Actors, SaveOn(a)
        PROVE  Up'
    BY <1>8 DEF SaveOn, controller, command, net, asked
  <1>9. ASSUME NEW a \in Actors, NEW x \in Server, Shutdown(a, x)
        PROVE  Up'
    BY <1>9 DEF Shutdown, controller, command, net, asked
  <1>10. ASSUME NEW a \in Actors, NEW p \in Ports, ListenMore(a, p)
        PROVE  Up'
    BY <1>10 DEF ListenMore, Taken, Id, controller, command, net, asked
  <1>11. ASSUME NEW a \in Actors, NEW o \in Orders, Order(a, o)
        PROVE  Up'
    BY <1>11 DEF Order, controller, command, net, asked
  <1>12. ASSUME NEW x \in Server, Serve(x)
        PROVE  Up'
    BY <1>12 DEF Serve, controller, command, net, asked
  <1>13. ASSUME Restart
        PROVE  Up'
    BY <1>13 DEF Restart, Boot, controller, command, net, asked
  <1>14. ASSUME NEW p \in Others, Elsewhere(p)
        PROVE  Up'
    BY <1>14 DEF Elsewhere, controller, command, net, asked
  <1>15. ASSUME UNCHANGED webVars
        PROVE  Up'
    BY <1>15 DEF webVars, controller, command, net, asked
  <1> QED
    BY <1>0, <1>1, <1>2, <1>3, <1>4, <1>5, <1>6, <1>7, <1>8,
       <1>9, <1>10, <1>11, <1>12, <1>13, <1>14, <1>15 DEF Next, Step

LEMMA LeakStep ==
  ASSUME Inv, [Next]_webVars
  PROVE  NoLeak'
  <1> USE WebCtlAssumption DEF Inv, Typed, Mutex, Closing, Making, Open, Up, NoLeak
  <1>0. ASSUME NEW a \in Actors, Enabled(a)
        PROVE  NoLeak'
    BY <1>0 DEF Enabled, controller, command, net, asked
  <1>1. ASSUME NEW a \in Actors, Check(a)
        PROVE  NoLeak'
    BY <1>1 DEF Check, controller, command, net, asked
  <1>2. ASSUME NEW a \in Actors, Take(a)
        PROVE  NoLeak'
    BY <1>2 DEF Take, controller, command, net, asked
  <1>3. ASSUME NEW a \in Actors, Closed(a)
        PROVE  NoLeak'
    BY <1>3 DEF Closed, controller, command, net, asked
  <1>4. ASSUME NEW a \in Actors, SaveOff(a)
        PROVE  NoLeak'
    BY <1>4 DEF SaveOff, controller, command, net, asked
  <1>5. ASSUME NEW a \in Actors, Lock(a)
        PROVE  NoLeak'
    BY <1>5 DEF Lock, controller, command, net, asked
  <1>6. ASSUME NEW a \in Actors, ListenHttp(a)
        PROVE  NoLeak'
    BY <1>6 DEF ListenHttp, Taken, Id, controller, command, net, asked
  <1>7. ASSUME NEW a \in Actors, Commit(a)
        PROVE  NoLeak'
    BY <1>7 DEF Commit, controller, command, net, asked
  <1>8. ASSUME NEW a \in Actors, SaveOn(a)
        PROVE  NoLeak'
    BY <1>8 DEF SaveOn, controller, command, net, asked
  <1>9. ASSUME NEW a \in Actors, NEW x \in Server, Shutdown(a, x)
        PROVE  NoLeak'
    <2>1. /\ UNCHANGED <<servers, fresh>> /\ bound' \subseteq bound /\ shut' = shut \cup {x}
          /\ \A b \in Actors : srvs[b] \subseteq srvs'[b] \cup {x}
      BY <1>9 DEF Shutdown, controller
    <2> QED
      BY <2>1
  <1>10. ASSUME NEW a \in Actors, NEW p \in Ports, ListenMore(a, p)
        PROVE  NoLeak'
    BY <1>10 DEF ListenMore, Taken, Id, controller, command, net, asked
  <1>11. ASSUME NEW a \in Actors, NEW o \in Orders, Order(a, o)
        PROVE  NoLeak'
    BY <1>11 DEF Order, controller, command, net, asked
  <1>12. ASSUME NEW x \in Server, Serve(x)
        PROVE  NoLeak'
    BY <1>12 DEF Serve, controller, command, net, asked
  <1>13. ASSUME Restart
        PROVE  NoLeak'
    BY <1>13 DEF Restart, Boot, controller, command, net, asked
  <1>14. ASSUME NEW p \in Others, Elsewhere(p)
        PROVE  NoLeak'
    BY <1>14 DEF Elsewhere, controller, command, net, asked
  <1>15. ASSUME UNCHANGED webVars
        PROVE  NoLeak'
    BY <1>15 DEF webVars, controller, command, net, asked
  <1> QED
    BY <1>0, <1>1, <1>2, <1>3, <1>4, <1>5, <1>6, <1>7, <1>8,
       <1>9, <1>10, <1>11, <1>12, <1>13, <1>14, <1>15 DEF Next, Step

-----------------------------------------------------------------------------
(* With commands that do not overlap, what each has done to the server and *)
(* to the setting so far.                                                  *)
SavedInv ==
  ~raced =>
    /\ \A a, b \in Actors : pc[a] # "idle" /\ pc[b] # "idle" => a = b
    /\ \A a \in Actors :
         /\ pc[a] \in {"close", "save0", "lock", "http", "more"} => ~running
         /\ pc[a] \in {"lock", "http", "more"} => web_enabled = "0"
         /\ pc[a] = "save1" => running
         /\ pc[a] = "check" => ((web_enabled = "1") <=> running)
         /\ pc[a] = "boot" => ~running
         /\ (pc[a] # "idle" /\ kept # "open") =>
              /\ order[a] = "start" /\ pc[a] # "check"
              /\ IF pc[a] = "boot" THEN (kept = "up") <=> (web_enabled = "1") ELSE kept = "up"
    /\ Quiet => ((web_enabled = "1") <=> running)
    /\ Quiet /\ kept # "open" => ((kept = "up") <=> running)

LEMMA SavedStep ==
  ASSUME Inv, SavedInv, [Next]_webVars
  PROVE  SavedInv'
  <1> USE WebCtlAssumption DEF Inv, Typed, SavedInv, Quiet
  <1>1. ASSUME NEW a \in Actors,
               Enabled(a) \/ Check(a) \/ Take(a) \/ Closed(a) \/ SaveOff(a) \/ Lock(a)
        PROVE  SavedInv'
    BY <1>1 DEF Enabled, Check, Take, Closed, SaveOff, Lock, controller, command, net, asked
  <1>2. ASSUME NEW a \in Actors, ListenHttp(a) \/ Commit(a) \/ SaveOn(a)
        PROVE  SavedInv'
    BY <1>2 DEF ListenHttp, Commit, SaveOn, controller, command, net, asked
  <1>3. ASSUME NEW a \in Actors, NEW o \in Orders, Order(a, o)
        PROVE  SavedInv'
    BY <1>3 DEF Order, controller, command, net, asked
  <1>4. CASE \/ \E a \in Actors, x \in Server : Shutdown(a, x)
             \/ \E a \in Actors, p \in Ports : ListenMore(a, p)
             \/ \E x \in Server : Serve(x)
             \/ \E p \in Others : Elsewhere(p)
             \/ UNCHANGED webVars
    <2>1. UNCHANGED <<pc, order, running, web_enabled, raced, kept>>
      BY <1>4 DEF Shutdown, ListenMore, Serve, Elsewhere, webVars, controller, command, net, asked
    <2> QED
      BY <2>1
  <1>5. CASE Restart
    BY <1>5 DEF Restart, Boot
  <1> QED
    BY <1>1, <1>2, <1>3, <1>4, <1>5 DEF Next, Step

-----------------------------------------------------------------------------
(* Theorems.                                                               *)
LEMMA AtStart == Init => Inv /\ SavedInv
  <1> SUFFICES ASSUME Init PROVE Inv /\ SavedInv
    OBVIOUS
  <1> USE WebCtlAssumption DEF Init, Boot
  <1>1. Typed /\ Mutex /\ Closing /\ Open
    BY DEF Typed, Mutex, Closing, Open
  <1>2. Numbered /\ Making /\ Up /\ NoLeak
    BY DEF Numbered, Making, Up, NoLeak
  <1>3. SavedInv
    BY DEF SavedInv, Quiet
  <1> QED
    BY <1>1, <1>2, <1>3 DEF Inv

LEMMA AtEachStep == Inv /\ SavedInv /\ [Next]_webVars => Inv' /\ SavedInv'
  BY TypedStep, MutexStep, ClosingStep, OpenStep, NumberedStep, MakingStep, UpStep, LeakStep,
     SavedStep DEF Inv

LEMMA Invariance == Spec => [](Inv /\ SavedInv)
  BY AtStart, AtEachStep, PTL DEF Spec

(* A controller that says it runs has its HTTP listener, and all it has is *)
(* open, however many commands race (Start and Stop of internal/webctl).   *)
THEOREM RunningMeansListening == Spec => []RunningListens
  <1>1. Inv => RunningListens
    BY DEF Inv, Up, Open, RunningListens
  <1> QED
    BY <1>1, Invariance, PTL

(* Every open listener is the controller's, that of a Start under way, or  *)
(* one that a Stop closes or has closed: none is lost.                     *)
THEOREM NothingLeaks == Spec => []NoLeak
  <1>1. Inv => NoLeak
    BY DEF Inv
  <1> QED
    BY <1>1, Invariance, PTL

(* With commands that do not overlap the setting says after each of them   *)
(* whether the server runs, and what ran with no command under way runs    *)
(* again after the next start, unless its port is taken or a button comes. *)
THEOREM SavedCorrectly == Spec => []SavedIsState
  <1>1. SavedInv => SavedIsState
    BY DEF SavedInv, SavedIsState
  <1> QED
    BY <1>1, Invariance, PTL
-----------------------------------------------------------------------------
(* The types, with the bound on the number of a Start: no more of them get *)
(* mu than buttons were pressed, and one at boot.                          *)

Pending == {a \in Actors : /\ pc[a] \in {"boot", "check", "take", "close", "save0", "lock"}
                           /\ order[a] = "start"}
Budget  == IsFiniteSet(Pending) /\ starts + Cardinality(Pending) <= orders + 1

(* The servers there have been since the process began.                    *)
Made == (1..starts) \X Ports
Ranged ==
  /\ servers \subseteq Made /\ fresh \subseteq Made /\ bound \subseteq Made /\ shut \subseteq Made
  /\ \A a \in Actors : srvs[a] \subseteq Made
  /\ \A a \in Actors : pc[a] \in Holding => starts >= 1

Plain ==
  /\ running \in BOOLEAN /\ order \in [Actors -> {"start", "stop"}]
  /\ \A a \in Actors : pc[a] = "lock" => order[a] = "start"
  /\ left \subseteq Ports /\ serving \subseteq bound
  /\ web_enabled \in {"0", "1"} /\ other \subseteq Ports
  /\ orders \in 0..MaxOrders /\ restarts \in 0..MaxRestarts
  /\ raced \in BOOLEAN /\ kept \in {"up", "down", "open"}

LEMMA PlainStep ==
  ASSUME Inv, Plain, [Next]_webVars
  PROVE  Plain'
  <1> USE WebCtlAssumption DEF Inv, Typed, Plain
  <1>1. ASSUME NEW a \in Actors, Enabled(a) \/ Check(a) \/ Take(a) \/ Closed(a) \/ SaveOff(a) \/ Lock(a)
        PROVE  Plain'
    BY <1>1 DEF Enabled, Check, Take, Closed, SaveOff, Lock, controller, command, net, asked
  <1>2. ASSUME NEW a \in Actors, ListenHttp(a) \/ Commit(a) \/ SaveOn(a)
        PROVE  Plain'
    BY <1>2 DEF ListenHttp, Commit, SaveOn, controller, command, net, asked
  <1>3. ASSUME NEW a \in Actors, NEW x \in Server, Shutdown(a, x)
        PROVE  Plain'
    BY <1>3 DEF Shutdown, controller, command, net, asked
  <1>4. ASSUME NEW a \in Actors, NEW p \in Ports, ListenMore(a, p)
        PROVE  Plain'
    BY <1>4 DEF ListenMore, controller, command, net, asked
  <1>5. ASSUME NEW a \in Actors, NEW o \in Orders, Order(a, o)
        PROVE  Plain'
    BY <1>5 DEF Order, controller, command, net, asked
  <1>6. ASSUME NEW x \in Server, Serve(x)
        PROVE  Plain'
    BY <1>6 DEF Serve, controller, command, net, asked
  <1>7. CASE Restart
    <2>1. /\ pc' = Boot /\ order' = [a \in Actors |-> "start"] /\ running' = FALSE /\ raced' = FALSE
          /\ left' = {} /\ serving' = {} /\ restarts' = restarts + 1 /\ restarts < MaxRestarts
          /\ UNCHANGED <<web_enabled, other, orders>>
      BY <1>7 DEF Restart
    <2>2. order' \in [Actors -> {"start", "stop"}] /\ \A a \in Actors : order'[a] = "start"
      BY <2>1
    <2>3. restarts' \in 0..MaxRestarts
      <3>1. \A m \in Nat : \A r \in 0..m : r < m => r + 1 \in 0..m
        OBVIOUS
      <3> QED
        BY <2>1, <3>1
    <2>4. (running' \in BOOLEAN /\ raced' \in BOOLEAN) /\ left' \subseteq Ports /\ serving' \subseteq bound'
      BY <2>1
    <2>5. web_enabled' \in {"0", "1"} /\ other' \subseteq Ports /\ orders' \in 0..MaxOrders
      BY <2>1
    <2>6. kept' \in {"up", "down", "open"}
      BY <1>7 DEF Restart
    <2> QED
      BY <2>2, <2>3, <2>4, <2>5, <2>6
  <1>8. ASSUME NEW p \in Others, Elsewhere(p)
        PROVE  Plain'
    BY <1>8 DEF Elsewhere, controller, command, net, asked
  <1>9. CASE UNCHANGED webVars
    BY <1>9 DEF webVars, controller, command, net, asked
  <1> QED
    BY <1>1, <1>2, <1>3, <1>4, <1>5, <1>6, <1>7, <1>8, <1>9 DEF Next, Step

LEMMA RangedStep ==
  ASSUME Inv, Ranged, [Next]_webVars
  PROVE  Ranged'
  <1> USE WebCtlAssumption DEF Inv, Typed, Mutex, Ranged
  <1>0. \A k \in Nat : k >= 1 => \A p \in Ports : <<k, p>> \in (1..k) \X Ports
    OBVIOUS
  <1>1. ASSUME NEW a \in Actors, Enabled(a) \/ Check(a) \/ Take(a) \/ Closed(a) \/ SaveOff(a)
        PROVE  Ranged'
    BY <1>1 DEF Enabled, Check, Take, Closed, SaveOff, controller, command, net, asked, Made
  <1>2. ASSUME NEW a \in Actors, Lock(a)
        PROVE  Ranged'
    <2>1. UNCHANGED <<servers, fresh, bound, shut, srvs>> /\ starts' = starts + 1
      BY <1>2 DEF Lock, net
    <2>2. Made \subseteq Made' /\ starts' >= 1
      BY <2>1 DEF Made
    <2> QED
      BY <2>1, <2>2
  <1>3. ASSUME NEW a \in Actors, ListenHttp(a)
        PROVE  Ranged'
    <2>1. /\ UNCHANGED <<servers, shut, srvs, starts>> /\ starts >= 1
          /\ bound' \subseteq bound \cup {<<starts, Http>>}
          /\ fresh' \subseteq fresh \cup {<<starts, Http>>}
          /\ \A b \in Actors : pc'[b] \in Holding => pc[b] \in Holding
      BY <1>3 DEF ListenHttp
    <2>2. <<starts, Http>> \in Made /\ Made' = Made
      BY <1>0, <2>1 DEF Made
    <2> QED
      BY <2>1, <2>2
  <1>4. ASSUME NEW a \in Actors, Commit(a) \/ SaveOn(a)
        PROVE  Ranged'
    BY <1>4 DEF Commit, SaveOn, net, Made
  <1>5. ASSUME NEW a \in Actors, NEW x \in Server, Shutdown(a, x)
        PROVE  Ranged'
    <2>1. /\ UNCHANGED <<servers, fresh, pc, starts>>
          /\ bound' \subseteq bound /\ shut' = shut \cup {x} /\ x \in srvs[a]
          /\ \A b \in Actors : srvs'[b] \subseteq srvs[b]
      BY <1>5 DEF Shutdown, controller
    <2>2. Made' = Made /\ x \in Made
      BY <2>1 DEF Made
    <2> QED
      BY <2>1, <2>2
  <1>6. ASSUME NEW a \in Actors, NEW p \in Ports, ListenMore(a, p)
        PROVE  Ranged'
    <2>1. /\ UNCHANGED <<servers, shut, srvs, pc, starts>> /\ starts >= 1
          /\ bound' \subseteq bound \cup {<<starts, p>>}
          /\ fresh' \subseteq fresh \cup {<<starts, p>>}
      BY <1>6 DEF ListenMore, controller
    <2>2. <<starts, p>> \in Made /\ Made' = Made
      BY <1>0, <2>1 DEF Made
    <2> QED
      BY <2>1, <2>2
  <1>7. ASSUME NEW a \in Actors, NEW o \in Orders, Order(a, o)
        PROVE  Ranged'
    BY <1>7 DEF Order, controller, net, Made
  <1>8. ASSUME NEW x \in Server, Serve(x)
        PROVE  Ranged'
    BY <1>8 DEF Serve, controller, command, Made
  <1>9. CASE Restart
    BY <1>9 DEF Restart, Boot
  <1>10. ASSUME NEW p \in Others, Elsewhere(p)
        PROVE  Ranged'
    BY <1>10 DEF Elsewhere, controller, command, net, Made
  <1>11. CASE UNCHANGED webVars
    BY <1>11 DEF webVars, controller, command, net, Made
  <1> QED
    BY <1>1, <1>2, <1>3, <1>4, <1>5, <1>6, <1>7, <1>8, <1>9, <1>10, <1>11 DEF Next, Step

(* Fewer commands under way, or one more.                                  *)
LEMMA Fewer ==
  ASSUME NEW S, IsFiniteSet(S), NEW T, T \subseteq S, NEW k \in Nat, NEW m \in Nat,
         k + Cardinality(S) <= m
  PROVE  IsFiniteSet(T) /\ k + Cardinality(T) <= m
  <1>1. IsFiniteSet(T) /\ Cardinality(T) <= Cardinality(S)
    BY FS_Subset
  <1>2. Cardinality(T) \in Nat /\ Cardinality(S) \in Nat
    BY <1>1, FS_CardinalityType
  <1> QED
    BY <1>1, <1>2

LEMMA OneMore ==
  ASSUME NEW S, IsFiniteSet(S), NEW a, NEW T, T \subseteq S \cup {a}, NEW k \in Nat, NEW m \in Nat,
         k + Cardinality(S) <= m
  PROVE  IsFiniteSet(T) /\ k + Cardinality(T) <= m + 1
  <1>1. /\ IsFiniteSet(S \cup {a}) /\ Cardinality(S) \in Nat
        /\ Cardinality(S \cup {a}) <= Cardinality(S) + 1
    <2>1. Cardinality(S) \in Nat
      BY FS_CardinalityType
    <2>2. /\ IsFiniteSet(S \cup {a})
          /\ Cardinality(S \cup {a}) = IF a \in S THEN Cardinality(S) ELSE Cardinality(S) + 1
      BY FS_AddElement
    <2> QED
      BY <2>1, <2>2
  <1>2. k + Cardinality(S \cup {a}) <= m + 1
    BY <1>1, FS_CardinalityType
  <1> QED
    BY <1>1, <1>2, Fewer

LEMMA OneLess ==
  ASSUME NEW S, IsFiniteSet(S), NEW a \in S, NEW T, T \subseteq S \ {a}, NEW k \in Nat, NEW m \in Nat,
         k + Cardinality(S) <= m
  PROVE  IsFiniteSet(T) /\ k + 1 + Cardinality(T) <= m
  <1>1. /\ IsFiniteSet(S \ {a}) /\ Cardinality(S) \in Nat
        /\ Cardinality(S \ {a}) = Cardinality(S) - 1
    BY FS_RemoveElement, FS_CardinalityType
  <1>2. k + 1 + Cardinality(S \ {a}) <= m
    BY <1>1
  <1> QED
    BY <1>1, <1>2, Fewer

LEMMA AtBoot ==
  ASSUME NEW T, T \subseteq {Main}, NEW k \in Nat
  PROVE  IsFiniteSet(T) /\ 0 + Cardinality(T) <= k + 1
  <1>1. IsFiniteSet({Main}) /\ Cardinality({Main}) = 1
    BY FS_Singleton
  <1>2. 0 + Cardinality({Main}) <= k + 1 /\ k + 1 \in Nat
    BY <1>1
  <1> QED
    BY <1>1, <1>2, Fewer

LEMMA BudgetStep ==
  ASSUME Inv, Plain, Budget, [Next]_webVars
  PROVE  Budget'
  <1> USE WebCtlAssumption DEF Inv, Typed, Plain, Budget
  <1>0. starts \in Nat /\ orders \in Nat /\ orders + 1 \in Nat
    OBVIOUS
  <1>1. ASSUME UNCHANGED <<starts, orders>>, Pending' \subseteq Pending
        PROVE  Budget'
    BY <1>0, <1>1, Fewer
  <1>2. ASSUME NEW a \in Actors, Enabled(a) \/ Check(a) \/ Take(a) \/ Closed(a) \/ SaveOff(a)
        PROVE  Budget'
    <2>1. UNCHANGED <<starts, orders>> /\ Pending' \subseteq Pending
      BY <1>2 DEF Enabled, Check, Take, Closed, SaveOff, asked, Pending
    <2> QED
      BY <1>1, <2>1
  <1>3. ASSUME NEW a \in Actors, ListenHttp(a) \/ Commit(a) \/ SaveOn(a)
        PROVE  Budget'
    <2>1. UNCHANGED <<starts, orders>> /\ Pending' \subseteq Pending
      BY <1>3 DEF ListenHttp, Commit, SaveOn, asked, Pending
    <2> QED
      BY <1>1, <2>1
  <1>4. ASSUME NEW a \in Actors, Lock(a)
        PROVE  Budget'
    <2>1. starts' = starts + 1 /\ orders' = orders /\ a \in Pending /\ Pending' \subseteq Pending \ {a}
      BY <1>4 DEF Lock, asked, Pending
    <2>2. IsFiniteSet(Pending') /\ starts + 1 + Cardinality(Pending') <= orders + 1
      BY <1>0, <2>1, OneLess
    <2> QED
      BY <2>1, <2>2
  <1>5. ASSUME NEW a \in Actors, NEW o \in Orders, Order(a, o)
        PROVE  Budget'
    <2>1. starts' = starts /\ orders' = orders + 1 /\ Pending' \subseteq Pending \cup {a}
      BY <1>5 DEF Order, Pending
    <2>2. IsFiniteSet(Pending') /\ starts + Cardinality(Pending') <= orders + 1 + 1
      BY <1>0, <2>1, OneMore
    <2> QED
      BY <2>1, <2>2
  <1>6. CASE Restart
    <2>1. starts' = 0 /\ orders' = orders /\ Pending' \subseteq {Main}
      BY <1>6 DEF Restart, Boot, Pending
    <2> QED
      BY <1>0, <2>1, AtBoot
  <1>7. CASE \/ \E a \in Actors, x \in Server : Shutdown(a, x)
             \/ \E a \in Actors, p \in Ports : ListenMore(a, p)
             \/ \E x \in Server : Serve(x)
             \/ \E p \in Others : Elsewhere(p)
             \/ UNCHANGED webVars
    <2>1. UNCHANGED <<starts, orders, pc, order>>
      BY <1>7 DEF Shutdown, ListenMore, Serve, Elsewhere, webVars, controller, command, net, asked
    <2> QED
      BY <1>1, <2>1 DEF Pending
  <1> QED
    BY <1>2, <1>3, <1>4, <1>5, <1>6, <1>7 DEF Next, Step

(* Type correctness of the controller, the bound on the servers there can  *)
(* be included.                                                            *)
THEOREM WebTypeCorrect == Spec => []TypeOK
  <1>1. Init => Plain /\ Ranged /\ Budget
    <2> SUFFICES ASSUME Init PROVE Plain /\ Ranged /\ Budget
      OBVIOUS
    <2> USE WebCtlAssumption DEF Init, Boot
    <2>1. Plain
      <3>1. order \in [Actors -> {"start", "stop"}] /\ \A a \in Actors : order[a] = "start"
        OBVIOUS
      <3>2. orders \in 0..MaxOrders /\ restarts \in 0..MaxRestarts
        OBVIOUS
      <3>3. web_enabled \in {"0", "1"} /\ other \subseteq Ports /\ running \in BOOLEAN
            /\ raced \in BOOLEAN /\ left = {} /\ serving = {} /\ kept = "up"
        OBVIOUS
      <3> QED
        BY <3>1, <3>2, <3>3 DEF Plain
    <2>2. Ranged
      BY DEF Ranged
    <2>3. Pending \subseteq {Main} /\ starts = 0 /\ orders = 0
      BY DEF Pending
    <2>4. Budget
      BY <2>3, AtBoot DEF Budget
    <2> QED
      BY <2>1, <2>2, <2>4
  <1>2. Inv /\ Plain /\ Ranged /\ Budget /\ [Next]_webVars => Plain' /\ Ranged' /\ Budget'
    BY PlainStep, RangedStep, BudgetStep
  <1>3. Inv /\ Plain /\ Ranged /\ Budget => TypeOK
    <2> SUFFICES ASSUME Inv, Plain, Ranged, Budget PROVE TypeOK
      OBVIOUS
    <2>1. starts \in 0..MaxOrders + 1
      <3>1. Cardinality(Pending) \in Nat /\ starts \in Nat /\ orders \in 0..MaxOrders /\ MaxOrders \in Nat
        BY FS_CardinalityType, WebCtlAssumption DEF Budget, Inv, Typed, Plain
      <3>2. starts + Cardinality(Pending) <= orders + 1
        BY DEF Budget
      <3>3. \A c, s, o, m \in Nat : s + c <= o + 1 /\ o <= m => s \in 0..m + 1
        OBVIOUS
      <3>4. orders \in Nat /\ orders <= MaxOrders
        BY <3>1
      <3> QED
        BY <3>1, <3>2, <3>3, <3>4
    <2>2. Made \subseteq Server
      BY <2>1, WebCtlAssumption DEF Made, Server
    <2>3. /\ servers \subseteq Server /\ fresh \subseteq Server /\ bound \subseteq Server
          /\ shut \subseteq Server
      BY <2>2 DEF Ranged
    <2>4. srvs \in [Actors -> SUBSET Server]
      BY <2>2 DEF Ranged, Inv, Typed
    <2> QED
      BY <2>1, <2>3, <2>4 DEF TypeOK, Inv, Typed, Plain
  <1> QED
    BY <1>1, <1>2, <1>3, Invariance, PTL DEF Spec
=============================================================================
