--------------------------- MODULE ServicesProofs ----------------------------
(***************************************************************************)
(* Theorems about the two parts of the program that work outside a match:  *)
(* the game server and the account.                                        *)
(***************************************************************************)
EXTENDS MCServices, SequenceTheorems, FiniteSetTheorems, TLAPS

-----------------------------------------------------------------------------
(***************************************************************************)
(* Theorems about ServerLifecycle, for any number of calls and threads: as *)
(* long as servers do not cross, one runs at a time, a player who calls    *)
(* cannot be found, and a host in a match can notice that the other has    *)
(* gone.                                                                   *)
(***************************************************************************)

State == [pc : ThreadPlaces, object : 0..Current]
MainPlaces == {"idle", "stop", "close", "restart", "reset"}

\* What the types say of each variable.
LEMMA Fields ==
  ASSUME TypeOK
  PROVE  /\ server \in Seq(Flags) /\ Current \in Nat
         /\ main.pc \in MainPlaces /\ main.object \in 0..Current /\ main \in [pc : MainPlaces, object : 0..Current]
         /\ thread \in [Threads -> State]
         /\ \A t \in Threads : thread[t].pc \in ThreadPlaces /\ thread[t].object \in 0..Current
         /\ \A o \in 1..Current : server[o] \in Flags
         /\ query.open \in BOOLEAN /\ query.forgotten \in Nat
         /\ ended.user \in BOOLEAN /\ ended.opponent \in BOOLEAN
  <1>1. main \in [pc : MainPlaces, object : 0..Current]
    BY DEF TypeOK, MainPlaces, ThreadPlaces, Current
  <1> QED BY <1>1 DEF TypeOK, State, Current

\* A server object given new flags.
LEMMA Flagged ==
  ASSUME TypeOK, NEW o \in 1..Current, NEW f \in Flags, server' = [server EXCEPT ![o] = f]
  PROVE  /\ server' \in Seq(Flags) /\ Current' = Current /\ server'[o] = f
         /\ \A q \in 1..Current : q # o => server'[q] = server[q]
  <1>1. server' \in Seq(Flags) /\ Len(server') = Len(server)
    BY ExceptSeq DEF TypeOK, Current
  <1> QED BY <1>1, Fields DEF Current

\* A thread that goes on.
LEMMA Went ==
  ASSUME TypeOK, NEW t \in Threads, NEW place \in ThreadPlaces, Goes(t, place)
  PROVE  /\ thread' \in [Threads -> State]
         /\ thread'[t].pc = place /\ (place # "done" => thread'[t].object = thread[t].object)
         /\ \A u \in Threads : u # t => thread'[u] = thread[u]
  <1> DEFINE new == IF place = "done" THEN NoThread ELSE [thread[t] EXCEPT !.pc = place]
  <1>1. thread' = [thread EXCEPT ![t] = new]
    BY Fields DEF Goes
  <1>2. new \in State /\ new.pc = place /\ (place # "done" => new.object = thread[t].object)
    BY Fields DEF State, NoThread, None
  <1> HIDE DEF new
  <1> QED BY <1>1, <1>2, Fields

\* A thread that is started.
LEMMA Starts ==
  ASSUME TypeOK, Free # {}, NEW o
  PROVE  \E n \in Threads :
           /\ thread[n].pc = "done"
           /\ Started(o) = [thread EXCEPT ![n] = [pc |-> "created", object |-> o]]
           /\ Started(o)[n].pc = "created" /\ Started(o)[n].object = o
           /\ \A u \in Threads : u # n => Started(o)[u] = thread[u]
  <1> DEFINE n == CHOOSE t \in Free : TRUE
  <1>1. n \in Free
    OBVIOUS
  <1>2. n \in Threads /\ thread[n].pc = "done"
    BY <1>1 DEF Free, NoThread
  <1>3. Started(o) = [thread EXCEPT ![n] = [pc |-> "created", object |-> o]]
    BY DEF Started
  <1> DEFINE new == [pc |-> "created", object |-> o]
  <1>4. new.pc = "created" /\ new.object = o
    OBVIOUS
  <1> HIDE DEF n, new
  <1>5. Started(o)[n] = new /\ \A u \in Threads : u # n => Started(o)[u] = thread[u]
    BY <1>2, <1>3, Fields DEF new
  <1> QED BY <1>2, <1>3, <1>4, <1>5 DEF new

-----------------------------------------------------------------------------
(***************************************************************************)
(* One server: no step of createServer crosses another.                    *)
(***************************************************************************)

\* createServer begins.
LEMMA CreateKeeps ==
  ASSUME TypeOK, LifecycleInv, NEW t \in Threads, Create(t)
  PROVE  TypeOK' /\ LifecycleInv'
  <1> DEFINE o == thread[t].object
             f == [server[o] EXCEPT !.run = TRUE, !.ping = FALSE]
  <1>1. /\ thread[t].pc = "created" /\ Goes(t, "init") /\ UNCHANGED <<main, query, match, ended, calls>>
        /\ crossed \subseteq crossed' /\ crossed' \subseteq crossed \union {"server"}
        /\ Alone' => Alone /\ ~\E u \in Threads : InServer(u)
    BY DEF Create, Alone
  <1>2. o \in 1..Current
    BY <1>1, Fields DEF LifecycleInv, MainInv, None
  <1>3. server' = [server EXCEPT ![o] = f]
    BY <1>2, Fields DEF Create, Current
  <1>4. f \in Flags /\ f.run /\ f.restart = server[o].restart
    BY <1>2, Fields DEF Flags
  <1> HIDE DEF f
  <1>5. /\ server' \in Seq(Flags) /\ Current' = Current /\ server'[o] = f
        /\ \A q \in 1..Current : q # o => server'[q] = server[q]
    BY <1>2, <1>3, <1>4, Flagged
  <1>6. /\ thread' \in [Threads -> State] /\ thread'[t].pc = "init" /\ thread'[t].object = o
        /\ \A u \in Threads : u # t => thread'[u] = thread[u]
    BY <1>1, Went DEF ThreadPlaces
  <1>7. TypeOK'
    BY <1>1, <1>5, <1>6 DEF TypeOK, State, Current
  <1>8. MainInv'
    BY <1>1, <1>2, <1>4, <1>5, <1>6 DEF LifecycleInv, MainInv
  <1>9. ASSUME Alone'
        PROVE  OneServer' /\ Called' /\ Hosting'
    <2>1. OneServer /\ Called /\ Hosting /\ \A u \in Threads : ~InServer(u)
      BY <1>1, <1>9 DEF LifecycleInv
    <2>2. ~query.open /\ query' = query
      BY <1>1, <2>1 DEF OneServer, InServer
    <2>3. \A u \in Threads : InServer(u)' => u = t
      BY <1>6, <2>1 DEF InServer
    <2>4. OneServer'
      BY <1>1, <1>5, <1>6, <2>1, <2>2, <2>3 DEF OneServer
    <2>5. match' \notin {"calling", "client"}
      BY <1>1, <2>1 DEF Called
    <2>6. match' # "host"
      BY <1>1, <2>1 DEF Hosting, Listed, InServer
    <2> QED BY <2>4, <2>5, <2>6 DEF Called, Hosting
  <1> QED BY <1>7, <1>8, <1>9 DEF LifecycleInv

\* The query is opened.
LEMMA QrInitKeeps ==
  ASSUME TypeOK, LifecycleInv, NEW t \in Threads, QrInit(t)
  PROVE  TypeOK' /\ LifecycleInv'
  <1>1. /\ thread[t].pc = "init" /\ Goes(t, "loop") /\ UNCHANGED <<server, main, match, ended, calls, crossed>>
        /\ query' = [open |-> TRUE, forgotten |-> query.forgotten + IF query.open THEN 1 ELSE 0]
    BY DEF QrInit
  <1>2. /\ thread' \in [Threads -> State] /\ thread'[t].pc = "loop" /\ thread'[t].object = thread[t].object
        /\ \A u \in Threads : u # t => thread'[u] = thread[u]
    BY <1>1, Went DEF ThreadPlaces
  <1>3. query'.open /\ query' \in [open : BOOLEAN, forgotten : Nat]
    BY <1>1, Fields
  <1>4. TypeOK' /\ MainInv'
    <2>1. TypeOK'
      BY <1>1, <1>2, <1>3 DEF TypeOK, State, Current
    <2>2. MainInv'
      BY <1>1, <1>2 DEF LifecycleInv, MainInv, Current
    <2> QED BY <2>1, <2>2
  <1>5. ASSUME Alone'
        PROVE  OneServer' /\ Called' /\ Hosting'
    <2>1. OneServer /\ Called /\ Hosting /\ InServer(t)
      BY <1>1, <1>5 DEF LifecycleInv, InServer, Alone
    <2>2. ~query.open
      BY <1>1, <2>1 DEF OneServer, InServer
    <2>3. query'.forgotten = 0
      BY <1>1, <2>1, <2>2 DEF OneServer
    <2>4. \A u \in Threads : InServer(u)' <=> InServer(u)
      BY <1>1, <1>2 DEF InServer
    <2>5. OneServer'
      BY <1>1, <1>2, <2>1, <2>3, <2>4 DEF OneServer, Current
    <2>6. match' # "host" /\ match' \notin {"calling", "client"}
      BY <1>1, <2>1, <2>2 DEF Hosting, Listed, Called
    <2> QED BY <2>5, <2>6 DEF Called, Hosting
  <1> QED BY <1>4, <1>5 DEF LifecycleInv

\* The loop sees that isRunServer is NO.
LEMMA LoopEndsKeeps ==
  ASSUME TypeOK, LifecycleInv, NEW t \in Threads, LoopEnds(t)
  PROVE  TypeOK' /\ LifecycleInv'
  <1>1. /\ thread[t].pc = "loop" /\ Goes(t, "stop") /\ ~server[thread[t].object].run
        /\ UNCHANGED <<server, main, query, match, ended, calls, crossed>>
    BY DEF LoopEnds
  <1>2. /\ thread' \in [Threads -> State] /\ thread'[t].pc = "stop" /\ thread'[t].object = thread[t].object
        /\ \A u \in Threads : u # t => thread'[u] = thread[u]
    BY <1>1, Went DEF ThreadPlaces
  <1>3. TypeOK' /\ MainInv'
    <2>1. TypeOK'
      BY <1>1, <1>2 DEF TypeOK, State, Current
    <2>2. MainInv'
      BY <1>1, <1>2 DEF LifecycleInv, MainInv, Current
    <2> QED BY <2>1, <2>2
  <1>4. ASSUME Alone'
        PROVE  OneServer' /\ Called' /\ Hosting'
    <2>1. OneServer /\ Called /\ Hosting /\ InServer(t)
      BY <1>1, <1>4 DEF LifecycleInv, InServer, Alone
    <2>2. \A u \in Threads : InServer(u)' <=> InServer(u)
      BY <1>1, <1>2 DEF InServer
    <2>3. OneServer'
      BY <1>1, <1>2, <2>1, <2>2 DEF OneServer, Current
    <2>4. Called'
      BY <1>1, <1>2, <2>1 DEF Called, Current
    <2>5. match' # "host"
      BY <1>1, <2>1 DEF Hosting, Listed, OneServer, InServer
    <2> QED BY <2>3, <2>4, <2>5 DEF Hosting
  <1> QED BY <1>3, <1>4 DEF LifecycleInv

-----------------------------------------------------------------------------
(***************************************************************************)
(* shutDownServer, by a thread and by the main thread.                     *)
(***************************************************************************)
ShutPlaces == {"stop", "close", "restart", "reset"}

\* The object that is shut down.
LEMMA Acting ==
  ASSUME TypeOK, LifecycleInv, NEW a \in Actor, PlaceOf(a) \in ShutPlaces
  PROVE  /\ ObjectOf(a) \in 1..Current
         /\ a = Main => main.pc = PlaceOf(a) /\ ObjectOf(a) = Current
         /\ a # Main => a \in Threads /\ thread[a].pc = PlaceOf(a) /\ ObjectOf(a) = thread[a].object
  <1>1. CASE a = Main
    BY <1>1, Fields DEF PlaceOf, ObjectOf, ShutPlaces, LifecycleInv, MainInv, None
  <1>2. CASE a # Main
    BY <1>2, Fields DEF Actor, PlaceOf, ObjectOf, ShutPlaces, LifecycleInv, MainInv, None
  <1> QED BY <1>1, <1>2

\* A step of shutDownServer from one place to another.
LEMMA Goings ==
  ASSUME TypeOK, LifecycleInv, NEW a \in Actor, PlaceOf(a) \in ShutPlaces,
         NEW next, next \in ShutPlaces \/ next = Done(a), Proceeds(a, next)
  PROVE  /\ thread' \in [Threads -> State] /\ main' \in [pc : MainPlaces, object : 0..Current]
         /\ a = Main => main'.pc = next /\ main'.object = main.object /\ UNCHANGED thread
         /\ a # Main => /\ UNCHANGED main /\ thread'[a].pc = next
                        /\ next # "done" => thread'[a].object = thread[a].object
                        /\ \A u \in Threads : u # a => thread'[u] = thread[u]
  <1>1. CASE a = Main
    BY <1>1, Fields DEF Proceeds, Done, MainPlaces, ShutPlaces
  <1>2. CASE a # Main
    <2>1. a \in Threads /\ Goes(a, next) /\ UNCHANGED main /\ next \in ThreadPlaces
      BY <1>2 DEF Actor, Proceeds, Done, ShutPlaces, ThreadPlaces
    <2> QED BY <1>2, <2>1, Went, Fields
  <1> QED BY <1>1, <1>2

\* Nobody is in a match as host while somebody shuts a server down.
LEMMA NoHost ==
  ASSUME TypeOK, LifecycleInv, Alone, NEW a \in Actor, PlaceOf(a) \in ShutPlaces
  PROVE  match # "host"
  <1>1. OneServer /\ Hosting
    BY DEF LifecycleInv
  <1>2. CASE a = Main
    BY <1>1, <1>2, Acting DEF Hosting, ShutPlaces
  <1>3. CASE a # Main
    <2>1. a \in Threads /\ thread[a].pc \in ShutPlaces /\ InServer(a)
      BY <1>3, Acting DEF ShutPlaces, InServer
    <2> QED BY <1>1, <2>1 DEF Hosting, Listed, OneServer, InServer, ShutPlaces
  <1> QED BY <1>2, <1>3

\* What a step of shutDownServer between two of its places leaves as it was.
LEMMA ShutOne ==
  ASSUME TypeOK, LifecycleInv, NEW a \in Actor, PlaceOf(a) \in ShutPlaces,
         NEW next, next \in ShutPlaces \/ next = Done(a), Proceeds(a, next), Alone,
         Current' = Current, query'.forgotten = query.forgotten,
         query'.open => query.open, a # Main /\ PlaceOf(a) = "close" => ~query'.open,
         PlaceOf(a) = "stop" => next = "close",
         \A o \in 1..Current : server'[o].run => server[o].run
  PROVE  OneServer'
  <1>1. OneServer
    BY DEF LifecycleInv
  <1>2. \A u \in Threads : /\ thread'[u].pc \notin {"created", "done"} => thread[u].pc \notin {"created", "done"}
                           /\ thread'[u].pc = "created" => thread'[u] = thread[u]
    BY Goings, Acting DEF ShutPlaces, Done
  <1>3. query'.open => \E u \in Threads : thread'[u].pc \in {"loop", "stop", "close"}
    <2> SUFFICES ASSUME query'.open
                 PROVE  \E u \in Threads : thread'[u].pc \in {"loop", "stop", "close"}
      OBVIOUS
    <2>1. PICK u \in Threads : thread[u].pc \in {"loop", "stop", "close"}
      BY <1>1 DEF OneServer
    <2>2. CASE u = a
      BY <2>1, <2>2, Acting, Goings DEF ShutPlaces, Actor, Main
    <2>3. CASE u # a
      BY <2>1, <2>3, Goings
    <2> QED BY <2>2, <2>3
  <1>4. ASSUME NEW t \in Threads, NEW u \in Threads, InServer(t)', InServer(u)'
        PROVE  t = u
    <2>1. thread'[t].pc \notin {"created", "done"} /\ thread'[u].pc \notin {"created", "done"}
      BY <1>4 DEF InServer
    <2>2. thread[t].pc \notin {"created", "done"} /\ thread[u].pc \notin {"created", "done"}
      BY <1>2, <2>1
    <2>3. InServer(t) /\ InServer(u)
      BY <2>2 DEF InServer
    <2> QED BY <1>1, <2>3 DEF OneServer
  <1>5. \A t \in Threads : thread'[t].pc = "created" => thread'[t].object = Current'
    <2>1. \A t \in Threads : thread[t].pc = "created" => thread[t].object = Current
      BY <1>1 DEF OneServer
    <2>2. \A t \in Threads : thread'[t].pc = "created" => thread'[t] = thread[t]
      BY <1>2
    <2> QED BY <2>1, <2>2
  <1>6. query'.forgotten = 0 /\ \A o \in 1..Current' : server'[o].run => o = Current'
    BY <1>1 DEF OneServer
  <1> QED BY <1>3, <1>4, <1>5, <1>6 DEF OneServer, InServer

\* A step of shutDownServer that starts nothing.
LEMMA ShutKeeps ==
  ASSUME TypeOK, LifecycleInv, NEW a \in Actor, PlaceOf(a) \in ShutPlaces,
         NEW next, next \in ShutPlaces \/ next = Done(a), Proceeds(a, next),
         UNCHANGED <<match, ended, calls, crossed>>,
         server' \in Seq(Flags), Current' = Current,
         \A o \in 1..Current : /\ server'[o].run => server[o].run
                               /\ server'[o].restart => server[o].restart,
         query' \in [open : BOOLEAN, forgotten : Nat], query'.forgotten = query.forgotten,
         query'.open => query.open, a # Main /\ PlaceOf(a) = "close" => ~query'.open,
         PlaceOf(a) = "stop" => next = "close" /\ ~server'[ObjectOf(a)].run,
         next = "idle" => \A o \in 1..Current : ~server'[o].restart
  PROVE  TypeOK' /\ LifecycleInv'
  <1>1. TypeOK'
    <2>1. thread' \in [Threads -> State] /\ main' \in [pc : MainPlaces, object : 0..Current]
      BY Goings
    <2>2. /\ thread' \in [Threads -> [pc : ThreadPlaces, object : 0..Len(server')]]
          /\ main' \in [pc : (ThreadPlaces \union {"idle"}) \ {"created", "init", "loop", "done"}, object : 0..Len(server')]
      BY <2>1 DEF State, Current, MainPlaces, ThreadPlaces
    <2> QED BY <2>2 DEF TypeOK
  <1>2. MainInv'
    <2>1. main'.pc # "idle" => Current' # None /\ main'.object = Current'
      <3>1. CASE a = Main
        <4>1. main.pc # "idle" /\ main'.object = main.object
          BY <3>1, Acting, Goings DEF ShutPlaces
        <4> QED BY <4>1 DEF LifecycleInv, MainInv
      <3>2. CASE a # Main
        <4>1. main' = main
          BY <3>2, Goings
        <4> QED BY <4>1 DEF LifecycleInv, MainInv
      <3> QED BY <3>1, <3>2
    <2>2. \A t \in Threads : thread'[t].pc # "done" => thread'[t].object # None
      BY Acting, Goings DEF LifecycleInv, MainInv, ShutPlaces
    <2>3. \A o \in 1..Current' : server'[o].restart => o = Current' /\ main'.pc # "idle"
      BY Acting, Goings DEF LifecycleInv, MainInv
    <2> QED BY <2>1, <2>2, <2>3 DEF LifecycleInv, MainInv
  <1>3. ASSUME Alone'
        PROVE  OneServer' /\ Called' /\ Hosting'
    <2>1. Alone /\ OneServer /\ Called
      BY <1>3 DEF Alone, LifecycleInv
    <2>2. OneServer'
      BY <2>1, ShutOne
    <2>3. Called'
      <3> SUFFICES ASSUME match' \in {"calling", "client"}
                   PROVE  /\ \A t \in Threads : thread'[t].pc \notin {"created", "init"}
                          /\ \A o \in 1..Current : ~server'[o].restart /\ (server'[o].run => main'.pc = "stop")
        BY DEF Called
      <3>1. /\ \A t \in Threads : thread[t].pc \notin {"created", "init"}
            /\ \A o \in 1..Current : ~server[o].restart /\ (server[o].run => main.pc = "stop")
        BY <2>1 DEF Called
      <3>2. \A t \in Threads : thread'[t].pc \notin {"created", "init"}
        BY <3>1, Acting, Goings DEF ShutPlaces, Done
      <3>3. ASSUME NEW o \in 1..Current, server'[o].run
            PROVE  main'.pc = "stop"
        <4>1. main.pc = "stop" /\ o = Current
          BY <2>1, <3>1, <3>3 DEF OneServer
        <4> QED BY <3>3, <4>1, Acting, Goings
      <3> QED BY <3>1, <3>2, <3>3
    <2>4. match' # "host"
      BY <2>1, NoHost
    <2> QED BY <2>2, <2>3, <2>4 DEF Hosting
  <1> QED BY <1>1, <1>2, <1>3 DEF LifecycleInv

\* isRunServer is set to NO.
LEMMA StopKeeps ==
  ASSUME TypeOK, LifecycleInv, NEW a \in Actor, Stop(a)
  PROVE  TypeOK' /\ LifecycleInv'
  <1> DEFINE o == ObjectOf(a)
             f == [server[o] EXCEPT !.run = FALSE]
  <1>1. /\ PlaceOf(a) = "stop" /\ Proceeds(a, "close") /\ UNCHANGED <<query, match, ended, calls, crossed>>
        /\ PlaceOf(a) \in ShutPlaces /\ "close" \in ShutPlaces
    BY DEF Stop, ShutPlaces
  <1>2. o \in 1..Current
    BY <1>1, Acting
  <1>3. server' = [server EXCEPT ![o] = f]
    BY <1>2, Fields DEF Stop, Current
  <1>4. f \in Flags /\ ~f.run /\ f.restart = server[o].restart
    BY <1>2, Fields DEF Flags
  <1> HIDE DEF f
  <1>5. /\ server' \in Seq(Flags) /\ Current' = Current /\ server'[o] = f
        /\ \A q \in 1..Current : q # o => server'[q] = server[q]
    BY <1>2, <1>3, <1>4, Flagged
  <1>6. query \in [open : BOOLEAN, forgotten : Nat]
    BY DEF TypeOK
  <1> QED BY <1>1, <1>4, <1>5, <1>6, ShutKeeps

\* qr2_shutdown.
LEMMA CloseKeeps ==
  ASSUME TypeOK, LifecycleInv, NEW a \in Actor, Close(a)
  PROVE  TypeOK' /\ LifecycleInv'
  <1>1. /\ PlaceOf(a) = "close" /\ Proceeds(a, "restart") /\ UNCHANGED <<server, match, ended, calls, crossed>>
        /\ PlaceOf(a) \in ShutPlaces /\ "restart" \in ShutPlaces /\ query' = [query EXCEPT !.open = FALSE]
    BY DEF Close, ShutPlaces
  <1>2. query' \in [open : BOOLEAN, forgotten : Nat] /\ ~query'.open /\ query'.forgotten = query.forgotten
    BY <1>1 DEF TypeOK
  <1> QED BY <1>1, <1>2, Fields, ShutKeeps DEF Current

\* No restart was asked for.
LEMMA NoRestartKeeps ==
  ASSUME TypeOK, LifecycleInv, NEW a \in Actor, NoRestart(a)
  PROVE  TypeOK' /\ LifecycleInv'
  <1>1. /\ PlaceOf(a) = "restart" /\ Proceeds(a, Done(a)) /\ ~server[ObjectOf(a)].restart
        /\ PlaceOf(a) \in ShutPlaces /\ UNCHANGED <<server, query, match, ended, calls, crossed>>
    BY DEF NoRestart, ShutPlaces
  <1>2. query' \in [open : BOOLEAN, forgotten : Nat]
    BY <1>1 DEF TypeOK
  <1>3. Done(a) = "idle" => \A o \in 1..Current : ~server[o].restart
    BY <1>1, Acting DEF Done, LifecycleInv, MainInv
  <1> QED BY <1>1, <1>2, <1>3, Fields, ShutKeeps DEF Current

\* neadRestart is set to NO.
LEMMA ResetKeeps ==
  ASSUME TypeOK, LifecycleInv, NEW a \in Actor, Reset(a)
  PROVE  TypeOK' /\ LifecycleInv'
  <1> DEFINE o == ObjectOf(a)
             f == [server[o] EXCEPT !.restart = FALSE]
  <1>1. /\ PlaceOf(a) = "reset" /\ Proceeds(a, Done(a)) /\ UNCHANGED <<query, match, ended, calls, crossed>>
        /\ PlaceOf(a) \in ShutPlaces
    BY DEF Reset, ShutPlaces
  <1>2. o \in 1..Current
    BY <1>1, Acting
  <1>3. server' = [server EXCEPT ![o] = f]
    BY <1>2, Fields DEF Reset, Current
  <1>4. f \in Flags /\ ~f.restart /\ f.run = server[o].run
    BY <1>2, Fields DEF Flags
  <1> HIDE DEF f
  <1>5. /\ server' \in Seq(Flags) /\ Current' = Current /\ server'[o] = f
        /\ \A q \in 1..Current : q # o => server'[q] = server[q]
    BY <1>2, <1>3, <1>4, Flagged
  <1>6. query \in [open : BOOLEAN, forgotten : Nat]
    BY DEF TypeOK
  <1>7. Done(a) = "idle" => \A q \in 1..Current : ~server'[q].restart
    BY <1>1, <1>4, <1>5, Acting DEF Done, LifecycleInv, MainInv
  <1> QED BY <1>1, <1>4, <1>5, <1>6, <1>7, ShutKeeps

\* createServer is started again, in a new thread.
LEMMA RestartKeeps ==
  ASSUME TypeOK, LifecycleInv, NEW a \in Actor, Restart(a)
  PROVE  TypeOK' /\ LifecycleInv'
  <1> DEFINE o == ObjectOf(a)
  <1>1. /\ PlaceOf(a) = "restart" /\ PlaceOf(a) \in ShutPlaces /\ server[o].restart /\ Free # {}
        /\ UNCHANGED <<server, query, match, ended, calls, crossed>>
    BY DEF Restart, ShutPlaces
  <1>2. o \in 1..Current /\ o = Current /\ main.pc # "idle" /\ Current # None
    BY <1>1, Acting DEF LifecycleInv, MainInv
  <1>3. PICK n \in Threads :
           /\ thread[n].pc = "done"
           /\ Started(o) = [thread EXCEPT ![n] = [pc |-> "created", object |-> o]]
           /\ Started(o)[n].pc = "created" /\ Started(o)[n].object = o
           /\ \A u \in Threads : u # n => Started(o)[u] = thread[u]
    BY <1>1, Starts
  <1>4. Started(o) \in [Threads -> State]
    BY <1>2, <1>3, Fields DEF State, ThreadPlaces
  <1>5. /\ thread' \in [Threads -> State] /\ main' \in [pc : MainPlaces, object : 0..Current]
        /\ main'.pc # "idle" /\ main'.object = main.object
        /\ thread'[n].pc = "created" /\ thread'[n].object = o
        /\ \A u \in Threads : u # n => \/ thread'[u] = thread[u]
                                       \/ /\ thread'[u].pc = "reset" /\ thread[u].pc = "restart"
                                          /\ thread'[u].object = thread[u].object
    <2>1. CASE a = Main
      <3>1. main' = [main EXCEPT !.pc = "reset"] /\ thread' = Started(o)
        BY <2>1 DEF Restart
      <3>2. main' \in [pc : MainPlaces, object : 0..Current] /\ main'.pc = "reset" /\ main'.object = main.object
        BY <3>1, Fields DEF MainPlaces
      <3> QED BY <1>3, <1>4, <3>1, <3>2
    <2>2. CASE a # Main
      <3>1. main' = main /\ thread' = [Started(o) EXCEPT ![a].pc = "reset"]
        BY <2>2 DEF Restart
      <3>2. a \in Threads /\ thread[a].pc = "restart" /\ a # n /\ Started(o)[a] = thread[a]
        BY <1>1, <1>3, <2>2, Acting
      <3>3. thread' = [Started(o) EXCEPT ![a] = [thread[a] EXCEPT !.pc = "reset"]]
        BY <1>4, <3>1, <3>2
      <3> DEFINE new == [thread[a] EXCEPT !.pc = "reset"]
      <3>4. new \in State /\ new.pc = "reset" /\ new.object = thread[a].object
        BY <3>2, Fields DEF State, ThreadPlaces
      <3> HIDE DEF new
      <3>5. thread' = [Started(o) EXCEPT ![a] = new]
        BY <3>3 DEF new
      <3>6. thread'[a] = new /\ \A u \in Threads : u # a => thread'[u] = Started(o)[u]
        BY <1>4, <3>2, <3>5
      <3>7. thread' \in [Threads -> State]
        BY <1>4, <3>4, <3>5
      <3>8. \A u \in Threads : u # n => \/ thread'[u] = thread[u]
                                     \/ /\ thread'[u].pc = "reset" /\ thread[u].pc = "restart"
                                        /\ thread'[u].object = thread[u].object
        BY <1>3, <3>2, <3>4, <3>6
      <3>9. thread'[n].pc = "created" /\ thread'[n].object = o
        BY <1>3, <3>2, <3>6
      <3> QED BY <1>2, <3>1, <3>7, <3>8, <3>9, Fields
    <2> QED BY <2>1, <2>2
  <1>6. TypeOK'
    BY <1>1, <1>5 DEF TypeOK, State, Current, MainPlaces, ThreadPlaces
  <1>7. MainInv'
    BY <1>1, <1>2, <1>5 DEF LifecycleInv, MainInv, Current
  <1>8. ASSUME Alone'
        PROVE  OneServer' /\ Called' /\ Hosting'
    <2>1. Alone /\ OneServer /\ Called /\ Hosting
      BY <1>1, <1>8 DEF LifecycleInv, Alone
    <2>2. \A u \in Threads : InServer(u)' => InServer(u)
      BY <1>5 DEF InServer
    <2>3. /\ \A t, u \in Threads : InServer(t)' /\ InServer(u)' => t = u
          /\ \A t \in Threads : thread'[t].pc = "created" => thread'[t].object = Current'
      BY <1>1, <1>2, <1>5, <2>1, <2>2 DEF OneServer, Current
    <2>4. query'.open => \E t \in Threads : thread'[t].pc \in {"loop", "stop", "close"}
      <3> SUFFICES ASSUME query'.open
                   PROVE  \E t \in Threads : thread'[t].pc \in {"loop", "stop", "close"}
        OBVIOUS
      <3>1. PICK t \in Threads : thread[t].pc \in {"loop", "stop", "close"}
        BY <1>1, <2>1 DEF OneServer
      <3> QED BY <1>3, <1>5, <3>1
    <2>5. OneServer'
      BY <1>1, <2>1, <2>3, <2>4 DEF OneServer, InServer, Current
    <2>6. match' # "host" /\ match' \notin {"calling", "client"}
      BY <1>1, <1>2, <2>1 DEF Hosting, Called
    <2> QED BY <2>5, <2>6 DEF Hosting, Called
  <1> QED BY <1>6, <1>7, <1>8 DEF LifecycleInv

-----------------------------------------------------------------------------
(***************************************************************************)
(* The main thread, which does all this between two calls of               *)
(* shutDownServer.                                                         *)
(***************************************************************************)

\* While the main thread is idle nobody asks for a restart.
LEMMA IdleMain ==
  ASSUME LifecycleInv, main.pc = "idle"
  PROVE  \A o \in 1..Current : ~server[o].restart
  BY DEF LifecycleInv, MainInv

\* Nothing happens.
LEMMA Stutters ==
  ASSUME TypeOK, LifecycleInv, UNCHANGED vars
  PROVE  TypeOK' /\ LifecycleInv'
  <1>1. /\ server' = server /\ main' = main /\ thread' = thread /\ query' = query /\ match' = match
        /\ ended' = ended /\ calls' = calls /\ crossed' = crossed
    BY DEF vars
  <1>2. TypeOK'
    BY <1>1 DEF TypeOK
  <1>3. MainInv'
    BY <1>1 DEF LifecycleInv, MainInv, Current
  <1>4. ASSUME Alone'
        PROVE  OneServer' /\ Called' /\ Hosting'
    <2>1. OneServer /\ Called /\ Hosting
      BY <1>1, <1>4 DEF LifecycleInv, Alone
    <2>2. OneServer'
      BY <1>1, <2>1 DEF OneServer, InServer, Current
    <2>3. Called'
      BY <1>1, <2>1 DEF Called, Current
    <2>4. (Listed' <=> Listed) /\ (Runs' <=> Runs)
      BY <1>1 DEF Listed, Runs, Current
    <2>5. Hosting'
      BY <1>1, <2>1, <2>4 DEF Hosting, Current
    <2> QED BY <2>2, <2>3, <2>5
  <1> QED BY <1>2, <1>3, <1>4 DEF LifecycleInv

\* Nothing but a match, its end or a call concerns the servers that have run before.
LEMMA SameServers ==
  ASSUME TypeOK, LifecycleInv, UNCHANGED <<thread, query>>, Current' = Current,
         \A o \in 1..Current : server'[o].run => server[o].run, Alone' => Alone
  PROVE  Alone' => OneServer'
  <1> SUFFICES ASSUME Alone'
               PROVE  OneServer'
    OBVIOUS
  <1>1. OneServer
    BY DEF LifecycleInv
  <1> QED BY <1>1 DEF OneServer, InServer

\* The main screen appears.
LEMMA AppearKeeps ==
  ASSUME LifecycleAssumption, TypeOK, LifecycleInv, Appear
  PROVE  TypeOK' /\ LifecycleInv'
  <1>1. main.pc = "idle" /\ AtMenu /\ UNCHANGED <<main, query, match, ended>>
    BY DEF Appear
  <1>2. CASE ~StartsServer
    <2>1. UNCHANGED vars
      BY <1>1, <1>2 DEF Appear, vars
    <2> QED BY <2>1, Stutters
  <1>3. CASE StartsServer
    <2>1. /\ Free # {} /\ server' = Append(server, Object) /\ thread' = Started(Current + 1)
          /\ crossed' = crossed \union
               (IF \E t \in Threads : thread[t].pc = "created" THEN {"twice"} ELSE {})
          /\ calls < MaxCalls /\ calls' = calls + 1
      BY <1>3 DEF Appear, Acts
    <2> DEFINE newest == Current + 1
    <2> HIDE DEF newest
    <2>20. \E n \in Threads :
             /\ thread[n].pc = "done"
             /\ Started(newest) = [thread EXCEPT ![n] = [pc |-> "created", object |-> newest]]
             /\ Started(newest)[n].pc = "created" /\ Started(newest)[n].object = newest
             /\ \A u \in Threads : u # n => Started(newest)[u] = thread[u]
      BY <2>1, Starts
    <2>21. thread' = Started(newest)
      BY <2>1 DEF newest
    <2>2. PICK n \in Threads :
             /\ thread[n].pc = "done"
             /\ thread' = [thread EXCEPT ![n] = [pc |-> "created", object |-> Current + 1]]
             /\ thread'[n].pc = "created" /\ thread'[n].object = Current + 1
             /\ \A u \in Threads : u # n => thread'[u] = thread[u]
      BY <2>20, <2>21 DEF newest
    <2>3. Object \in Flags /\ ~Object.run /\ ~Object.restart
      BY DEF Object, Flags
    <2> HIDE DEF Object
    <2>4. /\ server' \in Seq(Flags) /\ Current' = Current + 1 /\ server'[Current + 1] = Object
          /\ \A o \in 1..Current : server'[o] = server[o]
      BY <2>1, <2>3, AppendProperties, Fields DEF Current
    <2>5. \A o \in 1..Current' : o = Current + 1 \/ o \in 1..Current
      BY <2>4, Fields
    <2>6. [pc |-> "created", object |-> Current + 1] \in [pc : ThreadPlaces, object : 0..Current + 1]
      BY Fields DEF ThreadPlaces
    <2>7. thread \in [Threads -> [pc : ThreadPlaces, object : 0..Current + 1]]
      BY Fields DEF State
    <2>8. thread' \in [Threads -> [pc : ThreadPlaces, object : 0..Current + 1]]
      BY <2>2, <2>6, <2>7
    <2>9. TypeOK'
      <3>1. main' \in [pc : (ThreadPlaces \union {"idle"}) \ {"created", "init", "loop", "done"}, object : 0..Len(server')]
        BY <1>1, <2>4, Fields DEF Current, MainPlaces, ThreadPlaces
      <3>2. thread' \in [Threads -> [pc : ThreadPlaces, object : 0..Len(server')]]
        BY <2>4, <2>8 DEF Current
      <3>3. calls' \in 0..MaxCalls /\ crossed' \subseteq {"server", "twice", "early"}
        BY <2>1 DEF TypeOK, LifecycleAssumption
      <3> QED BY <1>1, <2>4, <3>1, <3>2, <3>3 DEF TypeOK
    <2>10. MainInv'
      <3>1. \A o \in 1..Current' : ~server'[o].restart
        BY <1>1, <2>3, <2>4, <2>5, IdleMain
      <3>2. \A t \in Threads : thread'[t].pc # "done" => thread'[t].object # None
        BY <2>2, Fields DEF LifecycleInv, MainInv, None
      <3> QED BY <1>1, <3>1, <3>2 DEF LifecycleInv, MainInv
    <2>11. ASSUME Alone'
           PROVE  OneServer' /\ Called' /\ Hosting'
      <3>1. Alone /\ \A t \in Threads : thread[t].pc # "created"
        BY <2>1, <2>11 DEF Alone
      <3>2. OneServer
        BY <3>1 DEF LifecycleInv
      <3>3. \A o \in 1..Current : ~server[o].run
        BY <1>3, <3>2, Fields DEF OneServer, StartsServer, Runs, None
      <3>4. \A o \in 1..Current' : ~server'[o].run
        BY <2>3, <2>4, <2>5, <3>3
      <3>5. \A t \in Threads : thread'[t].pc = "created" => thread'[t].object = Current'
        BY <2>2, <2>4, <3>1
      <3>6. query'.open => \E t \in Threads : thread'[t].pc \in {"loop", "stop", "close"}
        <4> SUFFICES ASSUME query'.open
                     PROVE  \E t \in Threads : thread'[t].pc \in {"loop", "stop", "close"}
          OBVIOUS
        <4>1. PICK t \in Threads : thread[t].pc \in {"loop", "stop", "close"}
          BY <1>1, <3>2 DEF OneServer
        <4> QED BY <2>2, <4>1
      <3>7. \A t, u \in Threads : InServer(t)' /\ InServer(u)' => t = u
        BY <2>2, <3>2 DEF OneServer, InServer
      <3>8. OneServer'
        BY <1>1, <3>2, <3>4, <3>5, <3>6, <3>7 DEF OneServer
      <3>9. ~(ended.user /\ ended.opponent)
        BY DEF LifecycleInv, MainInv
      <3>10. match = "none"
        BY <1>1, <1>3, <3>9, Fields DEF AtMenu, StartsServer
      <3> QED BY <1>1, <3>8, <3>10 DEF Called, Hosting
    <2> QED BY <2>9, <2>10, <2>11 DEF LifecycleInv
  <1> QED BY <1>2, <1>3

\* A player is called.
LEMMA CallKeeps ==
  ASSUME LifecycleAssumption, TypeOK, LifecycleInv, CallOpponent
  PROVE  TypeOK' /\ LifecycleInv'
  <1>1. /\ Current # None /\ main.pc = "idle" /\ calls < MaxCalls /\ calls' = calls + 1 /\ match' = "calling"
        /\ main' = [pc |-> "stop", object |-> Current]
        /\ crossed' = crossed \union
             (IF \E t \in Threads : thread[t].pc \in {"created", "init"} THEN {"early"} ELSE {})
        /\ UNCHANGED <<server, thread, query, ended>> /\ Current' = Current
    BY DEF CallOpponent, Acts, ShutDown, Current
  <1>2. calls' \in 0..MaxCalls /\ crossed' \subseteq {"server", "twice", "early"}
    BY <1>1 DEF TypeOK, LifecycleAssumption
  <1>3. main' \in [pc : MainPlaces, object : 0..Current] /\ main'.pc = "stop" /\ main'.object = Current
    BY <1>1, Fields DEF MainPlaces
  <1>4. TypeOK'
    BY <1>1, <1>2, <1>3 DEF TypeOK, Current, MainPlaces, ThreadPlaces
  <1>5. MainInv'
    BY <1>1, <1>3, IdleMain DEF LifecycleInv, MainInv
  <1>6. Alone' => Alone /\ \A t \in Threads : thread[t].pc \notin {"created", "init"}
    BY <1>1 DEF Alone
  <1>7. Alone' => OneServer'
    BY <1>1, <1>6, SameServers
  <1>8. Alone' => Called' /\ Hosting'
    BY <1>1, <1>3, <1>6, IdleMain DEF Called, Hosting
  <1> QED BY <1>4, <1>5, <1>7, <1>8 DEF LifecycleInv

\* A step of the main thread in which nothing is shut down.
LEMMA PlayKeeps ==
  ASSUME TypeOK, LifecycleInv, main.pc = "idle", UNCHANGED <<main, thread, query, crossed>>,
         server' \in Seq(Flags), Current' = Current, calls' \in 0..MaxCalls,
         \A o \in 1..Current : /\ server'[o].run = server[o].run
                               /\ server'[o].restart = server[o].restart,
         match' \in {"none", "calling", "client", "host"},
         ended' \in [user : BOOLEAN, opponent : BOOLEAN], ~(ended'.user /\ ended'.opponent),
         match' \in {"calling", "client"} => match \in {"calling", "client"},
         match' = "host" => (Alone => Listed /\ server'[Current].ping)
  PROVE  TypeOK' /\ LifecycleInv'
  <1>1. TypeOK'
    BY DEF TypeOK, Current
  <1>2. MainInv'
    BY IdleMain DEF LifecycleInv, MainInv
  <1>3. ASSUME Alone'
        PROVE  OneServer' /\ Called' /\ Hosting'
    <2>1. Alone /\ OneServer /\ Called
      BY <1>3 DEF Alone, LifecycleInv
    <2>2. OneServer'
      BY <1>3, <2>1, SameServers
    <2>3. Called'
      BY <2>1 DEF Called
    <2>4. ASSUME match' = "host"
          PROVE  main'.pc = "idle" /\ Listed' /\ Runs' /\ server'[Current'].ping
      <3>1. Listed /\ server'[Current].ping
        BY <2>1, <2>4
      <3>2. query.open
        BY <3>1 DEF Listed
      <3>3. PICK t \in Threads : thread[t].pc = "loop" /\ server[thread[t].object].run
        BY <3>1 DEF Listed
      <3>4. thread[t].object \in 1..Current /\ thread[t].object = Current /\ Current # None
        BY <2>1, <3>3, Fields DEF LifecycleInv, MainInv, OneServer, None
      <3>5. Listed'
        BY <3>2, <3>3, <3>4 DEF Listed
      <3>6. Runs'
        BY <3>3, <3>4 DEF Runs
      <3> QED BY <3>1, <3>5, <3>6
    <2> QED BY <2>2, <2>3, <2>4 DEF Hosting
  <1> QED BY <1>1, <1>2, <1>3 DEF LifecycleInv

\* The client has connected.
LEMMA ClientKeeps ==
  ASSUME TypeOK, LifecycleInv, ClientConnected
  PROVE  TypeOK' /\ LifecycleInv'
  <1>1. /\ main.pc = "idle" /\ match = "calling" /\ match' = "client"
        /\ ended' = [user |-> FALSE, opponent |-> FALSE]
        /\ UNCHANGED <<server, main, thread, query, calls, crossed>> /\ Current' = Current
    BY DEF ClientConnected, Current
  <1>2. server' \in Seq(Flags) /\ calls' \in 0..MaxCalls
    BY <1>1 DEF TypeOK
  <1> QED BY <1>1, <1>2, PlayKeeps

\* A guest has connected.
LEMMA GuestKeeps ==
  ASSUME LifecycleAssumption, TypeOK, LifecycleInv, GuestConnected
  PROVE  TypeOK' /\ LifecycleInv'
  <1> DEFINE f == [server[Current] EXCEPT !.ping = TRUE]
  <1>1. /\ main.pc = "idle" /\ match' = "host" /\ Listed /\ calls < MaxCalls /\ calls' = calls + 1
        /\ ended' = [user |-> FALSE, opponent |-> FALSE]
        /\ server' = [server EXCEPT ![Current].ping = TRUE] /\ UNCHANGED <<main, thread, query, crossed>>
    BY DEF GuestConnected, Acts
  <1>2. Current \in 1..Current
    BY <1>1, Fields DEF Listed, LifecycleInv, MainInv, None
  <1>3. server' = [server EXCEPT ![Current] = f]
    BY <1>1, <1>2, Fields DEF Current
  <1>4. f \in Flags /\ f.ping /\ f.run = server[Current].run /\ f.restart = server[Current].restart
    BY <1>2, Fields DEF Flags
  <1> HIDE DEF f
  <1>5. /\ server' \in Seq(Flags) /\ Current' = Current /\ server'[Current] = f
        /\ \A q \in 1..Current : q # Current => server'[q] = server[q]
    BY <1>2, <1>3, <1>4, Flagged
  <1>6. \A o \in 1..Current : server'[o].run = server[o].run /\ server'[o].restart = server[o].restart
    BY <1>4, <1>5
  <1>7. calls' \in 0..MaxCalls
    BY <1>1 DEF TypeOK, LifecycleAssumption
  <1> QED BY <1>1, <1>4, <1>5, <1>6, <1>7, PlayKeeps

\* A player is no longer in a match, and the server is shut down.
LEMMA ShuttingKeeps ==
  ASSUME LifecycleAssumption, TypeOK, LifecycleInv, main.pc = "idle", ShutDown, match' = "none", NEW ping \in BOOLEAN,
         server' = IF Current = None THEN server
                   ELSE [server EXCEPT ![Current] = [server[Current] EXCEPT !.restart = TRUE, !.ping = ping]],
         ended' \in [user : BOOLEAN, opponent : BOOLEAN], ~(ended'.user /\ ended'.opponent),
         calls < MaxCalls, calls' = calls + 1, UNCHANGED <<thread, query, crossed>>
  PROVE  TypeOK' /\ LifecycleInv'
  <1> DEFINE f == [server[Current] EXCEPT !.restart = TRUE, !.ping = ping]
  <1>1. /\ server' \in Seq(Flags) /\ Current' = Current
        /\ \A o \in 1..Current : /\ server'[o].run = server[o].run
                                 /\ o # Current => server'[o] = server[o]
    <2>1. CASE Current = None
      BY <2>1, Fields DEF Current
    <2>2. CASE Current # None
      <3>1. Current \in 1..Current
        BY <2>2, Fields DEF None
      <3>2. f \in Flags /\ f.run = server[Current].run
        BY <3>1, Fields DEF Flags
      <3>3. server' = [server EXCEPT ![Current] = f]
        BY <2>2
      <3> HIDE DEF f
      <3>4. /\ server' \in Seq(Flags) /\ Current' = Current /\ server'[Current] = f
            /\ \A o \in 1..Current : o # Current => server'[o] = server[o]
        BY <3>1, <3>2, <3>3, Flagged
      <3> QED BY <3>2, <3>4
    <2> QED BY <2>1, <2>2
  <1>2. /\ main' \in [pc : MainPlaces, object : 0..Current] /\ main'.object = Current
        /\ main'.pc = IF Current = None THEN "idle" ELSE "stop"
    BY Fields DEF ShutDown, MainPlaces
  <1>3. calls' \in 0..MaxCalls
    BY DEF TypeOK, LifecycleAssumption
  <1>4. TypeOK'
    BY <1>1, <1>2, <1>3 DEF TypeOK, Current, MainPlaces, ThreadPlaces
  <1>5. MainInv'
    <2>1. \A o \in 1..Current' : server'[o].restart => o = Current' /\ main'.pc # "idle"
      BY <1>1, <1>2, IdleMain, Fields DEF None
    <2>2. main'.pc # "idle" => Current' # None /\ main'.object = Current'
      BY <1>1, <1>2
    <2> QED BY <2>1, <2>2 DEF LifecycleInv, MainInv
  <1>6. Alone' => OneServer'
    BY <1>1, SameServers DEF Alone
  <1> QED BY <1>4, <1>5, <1>6 DEF LifecycleInv, Called, Hosting

\* lostConnection.
LEMMA LostKeeps ==
  ASSUME LifecycleAssumption, TypeOK, LifecycleInv, Acts, LostConnection, UNCHANGED <<thread, query, crossed>>
  PROVE  TypeOK' /\ LifecycleInv'
  <1>1. /\ main.pc = "idle" /\ calls < MaxCalls /\ calls' = calls + 1 /\ ShutDown /\ match' = "none"
        /\ ended' = [user |-> TRUE, opponent |-> FALSE]
        /\ server' = IF Current = None THEN server
                     ELSE [server EXCEPT ![Current].restart = TRUE, ![Current].ping = FALSE]
    BY DEF Acts, LostConnection
  <1>2. Current # None => Current \in 1..Current
    BY Fields DEF None
  <1>3. server' = IF Current = None THEN server
                  ELSE [server EXCEPT ![Current] = [server[Current] EXCEPT !.restart = TRUE, !.ping = FALSE]]
    BY <1>1, <1>2, Fields DEF Current
  <1>4. ended' \in [user : BOOLEAN, opponent : BOOLEAN] /\ ~(ended'.user /\ ended'.opponent)
    BY <1>1
  <1> QED BY <1>1, <1>3, <1>4, ShuttingKeeps

\* A player leaves.
LEMMA LeaveKeeps ==
  ASSUME LifecycleAssumption, TypeOK, LifecycleInv,
         Leaves("user", "opponent") \/ Leaves("opponent", "user")
  PROVE  TypeOK' /\ LifecycleInv'
  <1>1. match \in {"client", "host"} /\ Acts /\ UNCHANGED <<thread, query, crossed>>
    BY DEF Leaves
  <1>2. CASE LostConnection
    BY <1>1, <1>2, LostKeeps
  <1>3. CASE ~LostConnection
    <2>1. /\ UNCHANGED <<server, main, match>>
          /\ \/ ~ended["opponent"] /\ ended' = [ended EXCEPT !["user"] = TRUE]
             \/ ~ended["user"] /\ ended' = [ended EXCEPT !["opponent"] = TRUE]
      BY <1>3 DEF Leaves
    <2>2. ended \in [user : BOOLEAN, opponent : BOOLEAN]
      BY DEF TypeOK
    <2>3. ended' \in [user : BOOLEAN, opponent : BOOLEAN] /\ ~(ended'.user /\ ended'.opponent)
      BY <2>1, <2>2
    <2>4. main.pc = "idle" /\ calls < MaxCalls /\ calls' = calls + 1
      BY <1>1 DEF Acts
    <2>5. calls' \in 0..MaxCalls /\ server' \in Seq(Flags) /\ Current' = Current
      BY <2>1, <2>4 DEF TypeOK, LifecycleAssumption, Current
    <2>6. match' \in {"none", "calling", "client", "host"}
      BY <1>1, <2>1
    <2>7. match' = "host" => (Alone => Listed /\ server'[Current].ping)
      BY <2>1 DEF LifecycleInv, Hosting
    <2> QED BY <1>1, <2>1, <2>3, <2>4, <2>5, <2>6, <2>7, PlayKeeps
  <1> QED BY <1>2, <1>3

\* Another player has logged in.
LEMMA LoginKeeps ==
  ASSUME LifecycleAssumption, TypeOK, LifecycleInv, Login
  PROVE  TypeOK' /\ LifecycleInv'
  <1>1. /\ main.pc = "idle" /\ calls < MaxCalls /\ calls' = calls + 1 /\ ShutDown /\ match' = "none"
        /\ UNCHANGED <<thread, query, ended, crossed>>
        /\ server' = IF Current = None THEN server ELSE [server EXCEPT ![Current].restart = TRUE]
    BY DEF Acts, Login
  <1>2. Current # None => Current \in 1..Current /\ server[Current] \in Flags
    BY Fields DEF None
  <1> DEFINE ping == IF Current = None THEN FALSE ELSE server[Current].ping
  <1>3. ping \in BOOLEAN
    BY <1>2 DEF Flags
  <1>4. Current # None =>
          [server[Current] EXCEPT !.restart = TRUE] = [server[Current] EXCEPT !.restart = TRUE, !.ping = ping]
    BY <1>2 DEF Flags
  <1>5. Current # None =>
          [server EXCEPT ![Current].restart = TRUE] = [server EXCEPT ![Current] = [server[Current] EXCEPT !.restart = TRUE]]
    BY <1>2, Fields DEF Current
  <1> HIDE DEF ping
  <1>6. server' = IF Current = None THEN server
                  ELSE [server EXCEPT ![Current] = [server[Current] EXCEPT !.restart = TRUE, !.ping = ping]]
    BY <1>1, <1>4, <1>5
  <1>7. ended' \in [user : BOOLEAN, opponent : BOOLEAN] /\ ~(ended'.user /\ ended'.opponent)
    BY <1>1 DEF TypeOK, LifecycleInv, MainInv
  <1> QED BY <1>1, <1>3, <1>6, <1>7, ShuttingKeeps

-----------------------------------------------------------------------------
\* Nothing has happened at first.
LEMMA LifecycleStarts ==
  ASSUME LifecycleAssumption, Init
  PROVE  TypeOK /\ LifecycleInv
  <1>1. /\ server = <<>> /\ Current = 0 /\ server \in Seq(Flags)
        /\ main = [pc |-> "idle", object |-> None] /\ thread = [t \in Threads |-> NoThread]
        /\ query = [open |-> FALSE, forgotten |-> 0] /\ match = "none"
        /\ ended = [user |-> FALSE, opponent |-> FALSE] /\ calls = 0 /\ crossed = {}
    BY DEF Init, Current
  <1>2. \A t \in Threads : thread[t].pc = "done"
    BY <1>1 DEF NoThread
  <1>3. main \in [pc : (ThreadPlaces \union {"idle"}) \ {"created", "init", "loop", "done"}, object : 0..Len(server)]
    BY <1>1 DEF None, ThreadPlaces
  <1>4. thread \in [Threads -> [pc : ThreadPlaces, object : 0..Len(server)]]
    BY <1>1 DEF NoThread, None, ThreadPlaces
  <1>5. TypeOK
    BY <1>1, <1>3, <1>4 DEF TypeOK, LifecycleAssumption
  <1>6. MainInv
    BY <1>1, <1>2 DEF MainInv
  <1>7. OneServer /\ Called /\ Hosting
    BY <1>1, <1>2 DEF OneServer, Called, Hosting, InServer
  <1> QED BY <1>5, <1>6, <1>7 DEF LifecycleInv

\* Every step keeps the invariant.
LEMMA LifecycleStep ==
  ASSUME LifecycleAssumption, TypeOK, LifecycleInv, [Next]_vars
  PROVE  TypeOK' /\ LifecycleInv'
  <1>1. CASE Appear
    BY <1>1, AppearKeeps
  <1>2. CASE Players
    <2>1. CASE Loses
      <3>1. Acts /\ LostConnection /\ UNCHANGED <<thread, query, crossed>>
        BY <2>1 DEF Loses
      <3> QED BY <3>1, LostKeeps
    <2> QED BY <1>2, <2>1, CallKeeps, ClientKeeps, GuestKeeps, LeaveKeeps, LoginKeeps DEF Players
  <1>3. ASSUME NEW a \in Actor, Shuts(a)
        PROVE  TypeOK' /\ LifecycleInv'
    BY <1>3, StopKeeps, CloseKeeps, NoRestartKeeps, RestartKeeps, ResetKeeps DEF Shuts
  <1>4. CASE Shuts(Main)
    BY <1>3, <1>4 DEF Actor
  <1>5. ASSUME NEW t \in Threads, ServerThread(t)
        PROVE  TypeOK' /\ LifecycleInv'
    <2>1. CASE Shuts(t)
      BY <1>3, <2>1 DEF Actor
    <2> QED BY <1>5, <2>1, CreateKeeps, QrInitKeeps, LoopEndsKeeps DEF ServerThread
  <1>6. CASE UNCHANGED vars
    BY <1>6, Stutters
  <1> QED BY <1>1, <1>2, <1>4, <1>5, <1>6 DEF Next

(***************************************************************************)
(* The inductive invariant: a server is asked to restart only while the    *)
(* main thread shuts it down; as long as servers do not cross, a query is  *)
(* open only under the one server that runs, a call leaves nothing of the  *)
(* caller's server but what is about to end, and a host in a match runs.   *)
(***************************************************************************)
THEOREM LifecycleInvariant == ASSUME LifecycleAssumption PROVE Spec => [](TypeOK /\ LifecycleInv)
  <1>1. Init => TypeOK /\ LifecycleInv
    BY LifecycleStarts
  <1>2. (TypeOK /\ LifecycleInv) /\ [Next]_vars => (TypeOK /\ LifecycleInv)'
    BY LifecycleStep
  <1> QED BY <1>1, <1>2, PTL DEF Spec

(***************************************************************************)
(* One server runs at a time and no query socket is forgotten, unless a    *)
(* server was started before the one before it had shut down.              *)
(***************************************************************************)
THEOREM ServersApartHolds == ASSUME LifecycleAssumption PROVE Spec => []ServersApart
  <1>1. LifecycleInv => ServersApart
    BY DEF LifecycleInv, OneServer, ServersApart
  <1> QED BY <1>1, LifecycleInvariant, PTL

(***************************************************************************)
(* A player who calls another one cannot be found, with the same exception *)
(* and that of a call made while the own server was starting.              *)
(***************************************************************************)
THEOREM CallerNotListedHolds == ASSUME LifecycleAssumption PROVE Spec => []CallerNotListed
  <1>1. TypeOK /\ LifecycleInv => CallerNotListed
    <2> SUFFICES ASSUME TypeOK, LifecycleInv, Alone, match \in {"calling", "client"}, main.pc = "idle", Listed
                 PROVE  FALSE
      BY DEF CallerNotListed
    <2>1. PICK t \in Threads : thread[t].pc = "loop" /\ server[thread[t].object].run
      BY DEF Listed
    <2>2. thread[t].object \in 1..Current
      BY <2>1, Fields DEF LifecycleInv, MainInv, None
    <2> QED BY <2>1, <2>2 DEF LifecycleInv, Called
  <1> QED BY <1>1, LifecycleInvariant, PTL

(***************************************************************************)
(* A host in a match is listed and running, so that it can notice that the *)
(* other has gone.                                                         *)
(***************************************************************************)
THEOREM HostNoticesLossHolds == ASSUME LifecycleAssumption PROVE Spec => []HostNoticesLoss
  <1>1. LifecycleInv => HostNoticesLoss
    BY DEF LifecycleInv, Hosting, HostNoticesLoss
  <1> QED BY <1>1, LifecycleInvariant, PTL

-----------------------------------------------------------------------------
(***************************************************************************)
(* Theorems about AccountLedger, for any number of transactions, requests  *)
(* and restarts: what is kept of the transactions, and when the player's   *)
(* money agrees with what was earned and with the server.                  *)
(***************************************************************************)

RequestType == [kind : Kinds, items : SUBSET Items, place : Places, money : Nat]

\* The fields of the account.
LEMMA AccountFields ==
  ASSUME LedgerAssumption, LedgerTypeOK
  PROVE  /\ mem.money \in Nat /\ mem.transactions \subseteq Items /\ mem.duels \subseteq Items
         /\ disk.money \in Nat /\ disk.duels \subseteq Items
         /\ booked["transactions"] \in Nat /\ booked["transactions"] <= MaxItems
         /\ booked["duels"] \in Nat /\ booked["duels"] <= MaxItems
         /\ remote.money \in Nat
         /\ \A i \in Items : Counted("transactions", i) \in Nat
         /\ MaxItems \in Nat /\ Items = 1..MaxItems /\ won \in BOOLEAN
  <1>1. MaxItems \in Nat /\ Items = 1..MaxItems
    BY DEF LedgerAssumption, Items
  <1>2. /\ mem.money \in Nat /\ mem.transactions \subseteq Items /\ mem.duels \subseteq Items
        /\ disk.money \in Nat /\ disk.duels \subseteq Items /\ won \in BOOLEAN
    BY DEF LedgerTypeOK
  <1>3. booked["transactions"] \in 0..MaxItems /\ booked["duels"] \in 0..MaxItems
    BY DEF LedgerTypeOK, Kinds
  <1>4. remote.money \in Nat /\ remote.counted \in [Kinds -> [Items -> Nat]]
    BY DEF LedgerTypeOK
  <1>5. \A i \in Items : Counted("transactions", i) \in Nat
    BY <1>4 DEF Counted, Kinds
  <1> QED BY <1>1, <1>2, <1>3, <1>4, <1>5

\* The fields of the requests.
LEMMA RequestFields ==
  ASSUME LedgerTypeOK
  PROVE  /\ requests \in Seq(RequestType) /\ Len(requests) \in Nat /\ DOMAIN requests = 1..Len(requests)
         /\ \A r \in DOMAIN requests :
              /\ requests[r] \in RequestType
              /\ requests[r].kind \in Kinds /\ requests[r].items \subseteq Items
              /\ requests[r].place \in Places /\ requests[r].money \in Nat
  <1>1. requests \in Seq(RequestType)
    BY DEF LedgerTypeOK, RequestType
  <1>2. \A q \in RequestType : q.kind \in Kinds /\ q.items \subseteq Items /\ q.place \in Places /\ q.money \in Nat
    BY DEF RequestType
  <1> HIDE DEF RequestType
  <1> QED BY <1>1, <1>2

\* A new request about transactions, and perhaps one about duels after it.
LEMMA NewRequest ==
  ASSUME LedgerTypeOK, NEW x \in SUBSET Items, NEW some,
         some = <<>> \/ \E y \in SUBSET Items : some = <<Request("duels", y)>>,
         requests' = requests \o (<<Request("transactions", x)>> \o some)
  PROVE  \E n :
           /\ n \in DOMAIN requests' /\ n \notin DOMAIN requests
           /\ requests'[n] = Request("transactions", x)
           /\ \A r \in DOMAIN requests : r \in DOMAIN requests' /\ requests'[r] = requests[r]
           /\ \A r \in DOMAIN requests' : r \in DOMAIN requests \/ r = n \/ requests'[r].kind = "duels"
           /\ requests' \in Seq(RequestType)
  <1> DEFINE n == Len(requests) + 1
             new == <<Request("transactions", x)>> \o some
  <1>1. \A y \in SUBSET Items : Request("duels", y) \in RequestType /\ Request("duels", y).kind = "duels"
    BY DEF Request, RequestType, Kinds, Places
  <1>2. Request("transactions", x) \in RequestType
    BY DEF Request, RequestType, Kinds, Places
  <1> DEFINE a == Request("transactions", x)
  <1>3. some \in Seq(RequestType) /\ Len(some) \in {0, 1} /\ (Len(some) = 1 => some[1].kind = "duels")
    <2>1. CASE some = <<>>
      BY <2>1, EmptySeq
    <2>2. ASSUME NEW y \in SUBSET Items, some = <<Request("duels", y)>>
          PROVE  <1>3
      <3> DEFINE b == Request("duels", y)
      <3>1. b \in RequestType /\ b.kind = "duels" /\ some = <<b>>
        BY <1>1, <2>2
      <3> HIDE DEF b, RequestType
      <3> QED BY <3>1
    <2> QED BY <2>1, <2>2
  <1>9. <<a>> \in Seq(RequestType) /\ Len(<<a>>) = 1 /\ <<a>>[1] = a
    <2> HIDE DEF a, RequestType
    <2>1. a \in RequestType
      BY <1>2 DEF a
    <2> QED BY <2>1
  <1>10. /\ new \in Seq(RequestType) /\ Len(new) \in {1, 2} /\ new[1] = a
         /\ Len(new) = 2 => new[2].kind = "duels"
    <2> HIDE DEF a, RequestType
    <2> DEFINE one == <<a>>
    <2>1. new = one \o some
      BY DEF a
    <2>2. one \in Seq(RequestType) /\ Len(one) = 1 /\ one[1] = a
      BY <1>9
    <2> HIDE DEF one, new
    <2>3. /\ one \o some \in Seq(RequestType) /\ Len(one \o some) = Len(one) + Len(some)
          /\ \A i \in 1..Len(one) + Len(some) :
               (one \o some)[i] = IF i <= Len(one) THEN one[i] ELSE some[i - Len(one)]
      BY ZenonT(30), <1>3, <2>2, ConcatProperties
    <2> DEFINE both == one \o some
    <2>4. both = new /\ Len(both) = 1 + Len(some) /\ both[1] = a /\ (Len(some) = 1 => both[2] = some[1])
      <3>1. 1 \in 1..Len(one) + Len(some) /\ (Len(some) = 1 => 2 \in 1..Len(one) + Len(some))
        BY <1>3, <2>2
      <3> QED BY <1>3, <2>1, <2>2, <2>3, <3>1
    <2>5. both \in Seq(RequestType)
      BY <2>3
    <2> HIDE DEF both
    <2> QED BY SMTT(30), <1>3, <2>4, <2>5
  <1>4. requests \in Seq(RequestType) /\ Len(requests) \in Nat /\ requests' = requests \o new
    BY RequestFields
  <1> HIDE DEF new, RequestType
  <1>5. /\ requests' \in Seq(RequestType) /\ Len(requests') = Len(requests) + Len(new)
        /\ \A i \in 1..Len(requests) : requests'[i] = requests[i]
        /\ \A i \in 1..Len(new) : requests'[Len(requests) + i] = new[i]
    <2>1. /\ requests \o new \in Seq(RequestType) /\ Len(requests \o new) = Len(requests) + Len(new)
          /\ \A i \in 1..Len(requests) + Len(new) :
               (requests \o new)[i] = IF i <= Len(requests) THEN requests[i] ELSE new[i - Len(requests)]
      BY <1>10, <1>4, ConcatProperties
    <2> DEFINE both == requests \o new
    <2>2. requests' = both
      BY <1>4
    <2> HIDE DEF both
    <2>3. /\ both \in Seq(RequestType) /\ Len(both) = Len(requests) + Len(new)
          /\ \A i \in 1..Len(requests) + Len(new) :
               both[i] = IF i <= Len(requests) THEN requests[i] ELSE new[i - Len(requests)]
      BY <2>1 DEF both
    <2>4. \A i \in 1..Len(requests) : both[i] = requests[i]
      BY <1>4, <1>10, <2>3
    <2>5. ASSUME NEW i \in 1..Len(new)
          PROVE  both[Len(requests) + i] = new[i]
      <3>1. /\ Len(requests) + i \in 1..Len(requests) + Len(new) /\ ~(Len(requests) + i <= Len(requests))
            /\ Len(requests) + i - Len(requests) = i
        BY <1>4, <1>10
      <3> QED BY <2>3, <3>1
    <2> QED BY <2>2, <2>3, <2>4, <2>5
  <1>6. \A r \in DOMAIN requests' : r \in DOMAIN requests \/ r = n \/ requests'[r].kind = "duels"
    <2> SUFFICES ASSUME NEW r \in DOMAIN requests', r \notin DOMAIN requests, r # n
                 PROVE  requests'[r].kind = "duels"
      OBVIOUS
    <2>1. r \in 1..Len(requests) + Len(new) /\ ~(r \in 1..Len(requests))
      BY <1>5, RequestFields
    <2>2. r = Len(requests) + 2 /\ Len(new) = 2
      <3>1. ASSUME NEW k \in Nat, NEW l \in {1, 2}, r \in 1..k + l, ~(r \in 1..k), r # k + 1
            PROVE  r = k + 2 /\ l = 2
        BY <3>1
      <3>2. Len(requests) \in Nat /\ Len(new) \in {1, 2} /\ r # Len(requests) + 1
        BY <1>10, RequestFields
      <3> QED BY <2>1, <3>1, <3>2
    <2> QED BY <2>2, <1>10, <1>5
  <1>7. n \in DOMAIN requests' /\ n \notin DOMAIN requests /\ requests'[n] = Request("transactions", x)
    BY <1>10, <1>4, <1>5
  <1>8. \A r \in DOMAIN requests : r \in DOMAIN requests' /\ requests'[r] = requests[r]
    BY <1>10, <1>4, <1>5
  <1> HIDE DEF n
  <1> QED BY <1>5, <1>6, <1>7, <1>8

\* A request that becomes another, with the same kind and items.
LEMMA RequestBecomes ==
  ASSUME LedgerTypeOK, NEW r \in DOMAIN requests, NEW e \in RequestType,
         e.kind = requests[r].kind, e.items = requests[r].items,
         requests' = [requests EXCEPT ![r] = e]
  PROVE  /\ DOMAIN requests' = DOMAIN requests /\ requests' \in Seq(RequestType)
         /\ requests'[r] = e
         /\ \A q \in DOMAIN requests :
              /\ requests'[q].kind = requests[q].kind /\ requests'[q].items = requests[q].items
              /\ q # r => requests'[q] = requests[q]
  <1> HIDE DEF RequestType
  <1>1. requests \in Seq(RequestType) /\ r \in 1..Len(requests)
    BY RequestFields
  <1>2. requests'[r] = e /\ DOMAIN requests' = DOMAIN requests
        /\ \A q \in DOMAIN requests : q # r => requests'[q] = requests[q]
    OBVIOUS
  <1>3. requests' \in Seq(RequestType)
    BY <1>1, ExceptSeq
  <1> QED BY <1>2, <1>3

\* Only the place.
LEMMA PlaceMoves ==
  ASSUME LedgerTypeOK, NEW r \in DOMAIN requests, NEW p \in Places,
         requests' = [requests EXCEPT ![r].place = p]
  PROVE  /\ DOMAIN requests' = DOMAIN requests /\ requests' \in Seq(RequestType)
         /\ requests'[r].place = p
         /\ \A q \in DOMAIN requests :
              /\ requests'[q].kind = requests[q].kind /\ requests'[q].items = requests[q].items
              /\ requests'[q].money = requests[q].money
              /\ q # r => requests'[q] = requests[q]
  <1> DEFINE e == [requests[r] EXCEPT !.place = p]
  <1>1. requests[r] \in RequestType
    BY RequestFields
  <1>2. /\ e \in RequestType /\ e.kind = requests[r].kind /\ e.items = requests[r].items
        /\ e.place = p /\ e.money = requests[r].money
    BY <1>1 DEF RequestType
  <1>3. requests' = [requests EXCEPT ![r] = e]
    OBVIOUS
  <1> HIDE DEF e, RequestType
  <1>4. /\ DOMAIN requests' = DOMAIN requests /\ requests' \in Seq(RequestType)
        /\ requests'[r] = e
        /\ \A q \in DOMAIN requests :
             /\ requests'[q].kind = requests[q].kind /\ requests'[q].items = requests[q].items
             /\ q # r => requests'[q] = requests[q]
    BY <1>2, <1>3, RequestBecomes
  <1> QED BY <1>2, <1>4

-----------------------------------------------------------------------------
\* What is under way about transactions, by the place of the request.
LEMMA UnderWayIs ==
  ASSUME LedgerTypeOK
  PROVE  \A r : r \in UnderWay("transactions") <=>
           r \in Transactions /\ requests[r].place \in {"sent", "served", "received"}
  BY RequestFields DEF UnderWay, Transactions, Places

\* The same after a step.
LEMMA UnderWayIsThen ==
  ASSUME LedgerTypeOK'
  PROVE  \A r : r \in UnderWay("transactions")' <=>
           r \in Transactions' /\ requests'[r].place \in {"sent", "served", "received"}
  <1>1. requests' \in Seq([kind : Kinds, items : SUBSET Items, place : Places, money : Nat])
    BY DEF LedgerTypeOK
  <1>2. \A r \in DOMAIN requests' : requests'[r].place \in Places
    <2> DEFINE types == [kind : Kinds, items : SUBSET Items, place : Places, money : Nat]
    <2>1. \A q \in types : q.place \in Places
      OBVIOUS
    <2>2. requests' \in Seq(types)
      BY <1>1
    <2> HIDE DEF types
    <2>3. \A r \in DOMAIN requests' : requests'[r] \in types
      BY <2>2
    <2> QED BY <2>1, <2>3
  <1> QED BY <1>2 DEF UnderWay, Transactions, Places

\* The types after a step.
LEMMA TypesAgain ==
  ASSUME mem' \in [money : Nat, transactions : SUBSET Items, duels : SUBSET Items],
         disk' \in [money : Nat, duels : SUBSET Items],
         booked' \in [Kinds -> 0..MaxItems], won' \in BOOLEAN,
         requests' \in Seq(RequestType),
         buffer' \in [Kinds -> [there : BOOLEAN, holds : Seq(DOMAIN requests')]],
         remote' \in [money : Nat, counted : [Kinds -> [Items -> Nat]]],
         restarts' \in 0..MaxRestarts,
         mishap' \subseteq {"overlap", "added", "failed", "restart", "paid"}
  PROVE  LedgerTypeOK'
  BY DEF LedgerTypeOK, RequestType

\* A buffer among fewer requests is one among more.
LEMMA BufferGrows ==
  ASSUME LedgerTypeOK, DOMAIN requests \subseteq DOMAIN requests'
  PROVE  buffer \in [Kinds -> [there : BOOLEAN, holds : Seq(DOMAIN requests')]]
  <1>1. \A b \in [there : BOOLEAN, holds : Seq(DOMAIN requests)] :
           b \in [there : BOOLEAN, holds : Seq(DOMAIN requests')]
    <2> SUFFICES ASSUME NEW b \in [there : BOOLEAN, holds : Seq(DOMAIN requests)]
                 PROVE  b.holds \in Seq(DOMAIN requests')
      OBVIOUS
    <2> QED BY SeqMonotonic
  <1>2. buffer \in [Kinds -> [there : BOOLEAN, holds : Seq(DOMAIN requests)]]
    BY DEF LedgerTypeOK
  <1> QED BY <1>1, <1>2

\* A step that leaves what concerns transactions alone.
LEMMA Elsewhere ==
  ASSUME LedgerTypeOK, LedgerTypeOK', LedgerInv,
         mem'.money = mem.money, mem'.transactions = mem.transactions, disk'.money = disk.money,
         booked' = booked, won' = won, remote'.money = remote.money,
         remote'.counted["transactions"] = remote.counted["transactions"],
         buffer'["transactions"] = buffer["transactions"],
         mishap \subseteq mishap', Transactions' = Transactions,
         \A r \in Transactions : requests'[r] = requests[r]
  PROVE  LedgerInv'
  <1>1. \A i : Counted("transactions", i)' = Counted("transactions", i)
    BY DEF Counted
  <1>2. UnderWay("transactions")' = UnderWay("transactions")
    BY UnderWayIs, UnderWayIsThen
  <1>3. BookedInv'
    BY <1>1 DEF LedgerInv, BookedInv
  <1>4. KeptInv'
    BY <1>1, <1>2, UnderWayIs DEF LedgerInv, KeptInv, Served
  <1>5. OnceInv'
    <2>1. OneAnswer => OneAnswer'
      BY <1>2, UnderWayIs DEF OneAnswer
    <2>2. Fresh => Fresh'
      BY <1>1, <1>2, UnderWayIs DEF Fresh, Served, Unserved
    <2> QED BY <2>1, <2>2 DEF LedgerInv, OnceInv
  <1>6. MoneyInv'
    BY <1>2, UnderWayIs DEF LedgerInv, MoneyInv, Reported, Served
  <1> QED BY <1>3, <1>4, <1>5, <1>6 DEF LedgerInv

\* At the beginning.
LEMMA LedgerStarts ==
  ASSUME LedgerAssumption, LedgerInit
  PROVE  LedgerTypeOK /\ LedgerInv
  <1>1. /\ requests = <<>> /\ mishap = {} /\ mem = [money |-> 0, transactions |-> {}, duels |-> {}]
        /\ disk = [money |-> 0, duels |-> {}] /\ won = FALSE /\ restarts = 0
        /\ booked = [k \in Kinds |-> 0] /\ buffer = [k \in Kinds |-> NoBuffer]
        /\ remote = [money |-> 0, counted |-> [k \in Kinds |-> [i \in Items |-> 0]]]
    BY DEF LedgerInit
  <1>2. Transactions = {} /\ UnderWay("transactions") = {} /\ DOMAIN requests = {}
    BY <1>1 DEF Transactions, UnderWay
  <1>3. booked["transactions"] = 0 /\ \A i \in Items : Counted("transactions", i) = 0
    BY <1>1 DEF Kinds, Counted
  <1>4. LedgerTypeOK
    <2>1. NoBuffer \in [there : BOOLEAN, holds : Seq(DOMAIN requests)]
      BY DEF NoBuffer
    <2>2. requests \in Seq([kind : Kinds, items : SUBSET Items, place : Places, money : Nat])
      BY <1>1
    <2>3. remote \in [money : Nat, counted : [Kinds -> [Items -> Nat]]]
      BY <1>1
    <2>4. booked \in [Kinds -> 0..MaxItems] /\ restarts \in 0..MaxRestarts
      BY <1>1 DEF LedgerAssumption
    <2>5. buffer \in [Kinds -> [there : BOOLEAN, holds : Seq(DOMAIN requests)]]
      BY <1>1, <2>1
    <2> QED BY <1>1, <2>2, <2>3, <2>4, <2>5 DEF LedgerTypeOK
  <1>5. BookedInv /\ KeptInv /\ OnceInv
    BY <1>1, <1>2, <1>3 DEF BookedInv, KeptInv, OnceInv, OneAnswer, Fresh
  <1>6. Reported
    <2>1. remote.money + Cardinality(mem.transactions) = booked.transactions
      BY <1>1, <1>3, FS_EmptySet
    <2> QED BY <1>1, <1>2, <1>3, <2>1 DEF Reported
  <1> QED BY <1>4, <1>5, <1>6 DEF LedgerInv, MoneyInv

\* A duel's money is paid.
LEMMA PayDuelKeeps ==
  ASSUME LedgerAssumption, LedgerTypeOK, LedgerInv, PayDuel
  PROVE  LedgerTypeOK' /\ LedgerInv'
  <1>1. /\ ~won /\ won' = TRUE /\ mem' = [mem EXCEPT !.money = @ + 1]
        /\ booked.transactions < MaxItems /\ booked.duels < MaxItems
        /\ disk' = [disk EXCEPT !.money = mem.money + 1]
        /\ mishap' = mishap \union Paid(UnderWay("transactions") # {})
        /\ UNCHANGED <<booked, requests, buffer, remote, restarts>>
    BY DEF PayDuel
  <1>2. /\ mem'.money = mem.money + 1 /\ mem'.transactions = mem.transactions /\ disk'.money = mem.money + 1
        /\ mem' \in [money : Nat, transactions : SUBSET Items, duels : SUBSET Items]
        /\ disk' \in [money : Nat, duels : SUBSET Items]
    <2>1. /\ mem \in [money : Nat, transactions : SUBSET Items, duels : SUBSET Items]
          /\ disk \in [money : Nat, duels : SUBSET Items]
      BY DEF LedgerTypeOK
    <2>2. mem.money + 1 \in Nat
      BY AccountFields
    <2> DEFINE paid == mem.money + 1
    <2>3. mem' = [mem EXCEPT !.money = paid] /\ disk' = [disk EXCEPT !.money = paid] /\ paid \in Nat
      BY <1>1, <2>2
    <2> HIDE DEF paid
    <2>4. /\ mem'.money = paid /\ mem'.transactions = mem.transactions /\ disk'.money = paid
          /\ mem' \in [money : Nat, transactions : SUBSET Items, duels : SUBSET Items]
          /\ disk' \in [money : Nat, duels : SUBSET Items]
      BY <2>1, <2>3
    <2> QED BY <2>4 DEF paid
  <1>3. mishap \subseteq mishap' /\ (mishap' = {} => UnderWay("transactions") = {})
    BY <1>1 DEF Paid
  <1>4. LedgerTypeOK'
    <2>1. /\ booked' \in [Kinds -> 0..MaxItems] /\ requests' \in Seq(RequestType)
          /\ buffer' \in [Kinds -> [there : BOOLEAN, holds : Seq(DOMAIN requests')]]
          /\ remote' \in [money : Nat, counted : [Kinds -> [Items -> Nat]]]
          /\ restarts' \in 0..MaxRestarts /\ won' \in BOOLEAN
      BY <1>1 DEF LedgerTypeOK, RequestType
    <2>2. mishap' \subseteq {"overlap", "added", "failed", "restart", "paid"}
      BY <1>1 DEF LedgerTypeOK, Paid
    <2> QED BY <1>2, <2>1, <2>2, TypesAgain
  <1>5. Transactions' = Transactions /\ UnderWay("transactions")' = UnderWay("transactions")
    BY <1>1 DEF Transactions, UnderWay
  <1>6. \A i : Counted("transactions", i)' = Counted("transactions", i)
    BY <1>1 DEF Counted
  <1>7. BookedInv'
    BY <1>1, <1>2, <1>5, <1>6 DEF LedgerInv, BookedInv
  <1>8. KeptInv'
    BY <1>1, <1>2, <1>3, <1>5, <1>6 DEF LedgerInv, KeptInv, Served
  <1>9. OnceInv'
    <2>1. (OneAnswer => OneAnswer') /\ (Fresh => Fresh')
      BY <1>1, <1>2, <1>5, <1>6 DEF OneAnswer, Fresh, Served, Unserved
    <2> QED BY <1>3, <2>1 DEF LedgerInv, OnceInv
  <1>10. MoneyInv'
    <2> SUFFICES ASSUME mishap' = {}
                 PROVE  Reported'
      BY DEF MoneyInv
    <2>1. Reported /\ UnderWay("transactions") = {}
      BY <1>3 DEF LedgerInv, MoneyInv
    <2> QED BY SMTT(30), <1>1, <1>2, <1>5, <2>1, AccountFields DEF Reported, Served
  <1> QED BY <1>4, <1>7, <1>8, <1>9, <1>10 DEF LedgerInv

\* The next transaction has a number nobody has seen.
LEMMA NextNumber ==
  ASSUME LedgerAssumption, LedgerTypeOK, BookedInv, booked["transactions"] + 1 <= MaxItems,
         NEW t, t = booked["transactions"] + 1
  PROVE  /\ t \in Items /\ t \notin mem.transactions /\ Counted("transactions", t) = 0
         /\ \A r \in Transactions : t \notin requests[r].items
         /\ Cardinality(mem.transactions \union {t}) = Cardinality(mem.transactions) + 1
         /\ Cardinality(mem.transactions) \in Nat
         /\ mem.transactions \union {t} \subseteq 1..t /\ mem.transactions \union {t} \subseteq Items
         /\ 1..t = 1..booked["transactions"] \union {t}
  <1>1. /\ booked["transactions"] \in Nat /\ MaxItems \in Nat /\ Items = 1..MaxItems
        /\ \A i \in Items : Counted("transactions", i) \in Nat
    BY AccountFields
  <1>2. t \in Items /\ 1..t = 1..booked["transactions"] \union {t} /\ t \notin 1..booked["transactions"]
    BY <1>1
  <1>3. mem.transactions \subseteq 1..booked["transactions"]
    BY DEF BookedInv
  <1>4. t \notin mem.transactions /\ \A r \in Transactions : t \notin requests[r].items
    BY <1>2, <1>3 DEF BookedInv
  <1>5. Counted("transactions", t) = 0
    <2>1. Counted("transactions", t) > 0 => t <= booked["transactions"]
      BY <1>2 DEF BookedInv
    <2> QED BY <1>1, <1>2, <2>1
  <1>6. IsFiniteSet(mem.transactions)
    <2>1. IsFiniteSet(1..booked["transactions"])
      BY <1>1, FS_Interval
    <2> QED BY <1>3, <2>1, FS_Subset
  <1>7. /\ Cardinality(mem.transactions) \in Nat
        /\ Cardinality(mem.transactions \union {t}) = Cardinality(mem.transactions) + 1
    BY <1>4, <1>6, FS_AddElement, FS_CardinalityType
  <1>8. mem.transactions \union {t} \subseteq 1..t
    BY <1>2, <1>3
  <1>9. mem.transactions \subseteq Items
    BY AccountFields
  <1> QED BY <1>2, <1>4, <1>5, <1>7, <1>8, <1>9

\* A request reports all that is pending, some of it perhaps new.
LEMMA AsksKeeps ==
  ASSUME LedgerAssumption, LedgerTypeOK, LedgerTypeOK', LedgerInv, NEW n,
         n \notin Transactions, Transactions' = Transactions \union {n},
         requests'[n] = Request("transactions", mem'.transactions),
         won' => booked'["transactions"] < MaxItems /\ booked'["duels"] < MaxItems,
         \A r \in Transactions : requests'[r] = requests[r],
         remote' = remote, buffer'["transactions"] = [there |-> TRUE, holds |-> <<>>],
         mem.transactions \subseteq mem'.transactions,
         mem'.transactions \subseteq 1..booked'["transactions"],
         booked["transactions"] <= booked'["transactions"],
         1..booked'["transactions"] \subseteq 1..booked["transactions"] \union mem'.transactions,
         \A i \in mem'.transactions \ mem.transactions :
           Counted("transactions", i) = 0 /\ \A r \in Transactions : i \notin requests[r].items,
         mishap \subseteq mishap', "overlap" \notin mishap' => UnderWay("transactions") = {},
         mem'.transactions # mem.transactions /\ "added" \notin mishap' => UnderWay("transactions") = {},
         mishap' = {} =>
           /\ ~won' /\ mem'.money = booked'["transactions"]
           /\ mem'.transactions = {} => disk'.money = mem'.money
           /\ remote.money + Cardinality(mem'.transactions) = booked'["transactions"]
  PROVE  LedgerInv'
  <1>1. \A i : Counted("transactions", i)' = Counted("transactions", i)
    BY DEF Counted
  <1>2. requests'[n].items = mem'.transactions /\ requests'[n].place = "sent" /\ n \in Transactions'
    BY DEF Request
  <1>3. \A r : r \in UnderWay("transactions")' <=> r \in UnderWay("transactions") \/ r = n
    BY <1>2, UnderWayIs, UnderWayIsThen
  <1>4. BookedInv'
    <2>1. /\ \A r \in Transactions : requests[r].items \subseteq 1..booked["transactions"]
          /\ \A i \in Items : Counted("transactions", i) > 0 => i <= booked["transactions"]
      BY DEF LedgerInv, BookedInv
    <2>2. booked["transactions"] \in Nat /\ booked'["transactions"] \in Nat /\ Items = 1..MaxItems /\ MaxItems \in Nat
      <3>1. booked'["transactions"] \in Nat
        BY DEF LedgerTypeOK, Kinds
      <3> QED BY <3>1, AccountFields
    <2>3. 1..booked["transactions"] \subseteq 1..booked'["transactions"]
      BY <2>2
    <2>4. \A i \in Items : Counted("transactions", i)' > 0 => i <= booked'["transactions"]
      BY <1>1, <2>1, <2>2
    <2>5. \A r \in Transactions' : requests'[r].items \subseteq 1..booked'["transactions"]
      BY <1>2, <2>1, <2>3
    <2> QED BY <2>4, <2>5 DEF BookedInv
  <1>5. KeptInv'
    <2>1. \A r \in Transactions' : Served(r)' => \A i \in requests'[r].items : Counted("transactions", i)' > 0
      BY <1>1, <1>2 DEF LedgerInv, KeptInv, Served
    <2>2. ASSUME mishap' \intersect {"restart", "added"} = {}
          PROVE  /\ \A t \in 1..booked'["transactions"] : t \in mem'.transactions \/ Counted("transactions", t)' > 0
                 /\ \A r \in UnderWay("transactions")' : mem'.transactions \subseteq requests'[r].items
      <3>1. /\ \A t \in 1..booked["transactions"] : t \in mem.transactions \/ Counted("transactions", t) > 0
            /\ \A r \in UnderWay("transactions") : mem.transactions \subseteq requests[r].items
        BY <2>2 DEF LedgerInv, KeptInv
      <3>2. "added" \notin mishap'
        BY <2>2
      <3>3. \A t \in 1..booked'["transactions"] : t \in mem'.transactions \/ Counted("transactions", t)' > 0
        BY <1>1, <3>1
      <3>4. \A r \in UnderWay("transactions")' : mem'.transactions \subseteq requests'[r].items
        BY <1>2, <1>3, <3>1, <3>2, UnderWayIs
      <3> QED BY <3>3, <3>4
    <2> QED BY <2>1, <2>2 DEF KeptInv
  <1>6. OnceInv'
    <2> SUFFICES ASSUME mishap' \intersect {"overlap", "failed"} = {}
                 PROVE  OneAnswer' /\ Fresh'
      BY DEF OnceInv
    <2>1. OneAnswer /\ Fresh /\ UnderWay("transactions") = {}
      BY DEF LedgerInv, OnceInv
    <2>2. OneAnswer'
      BY <1>2, <1>3, <2>1 DEF OneAnswer
    <2>3. \A i \in mem'.transactions : Counted("transactions", i) = 0
      BY <2>1 DEF Fresh
    <2>4. \A r \in Transactions : Unserved(r) => requests[r].place = "gone"
      BY <2>1, UnderWayIs DEF Unserved
    <2>5. \A r \in Transactions : requests[r].place = "gone" => requests[r].items \intersect mem'.transactions = {}
      BY <2>1 DEF Fresh
    <2>6. \A i \in Items : Counted("transactions", i)' <= 1
      BY <1>1, <2>1 DEF Fresh
    <2>7. \A r \in Transactions' : Unserved(r)' => \A i \in requests'[r].items : Counted("transactions", i)' = 0
      BY <1>1, <1>2, <2>1, <2>3 DEF Fresh, Unserved
    <2>8. \A r, q \in Transactions' :
            r # q /\ Unserved(r)' /\ Unserved(q)' => requests'[r].items \intersect requests'[q].items = {}
      BY <1>2, <2>1, <2>4, <2>5 DEF Fresh, Unserved
    <2>9. \A r \in Transactions' : requests'[r].place = "gone" => requests'[r].items \intersect mem'.transactions = {}
      BY <1>2, <2>5
    <2>10. \A i \in mem'.transactions : Counted("transactions", i)' = 0
      BY <1>1, <2>3
    <2> QED BY <2>2, <2>6, <2>7, <2>8, <2>9, <2>10 DEF Fresh
  <1>7. MoneyInv'
    <2> SUFFICES ASSUME mishap' = {}
                 PROVE  Reported'
      BY DEF MoneyInv
    <2>1. Reported /\ UnderWay("transactions") = {}
      BY DEF LedgerInv, MoneyInv
    <2>2. \A r \in UnderWay("transactions")' : r = n
      BY <1>3, <2>1
    <2>3. \A r \in Transactions' : requests'[r].place = "gone" => requests'[r].items = {}
      BY <1>2, <2>1 DEF Reported
    <2>4. booked'["transactions"] \in Nat
      BY DEF LedgerTypeOK, Kinds
    <2> QED BY <1>2, <2>2, <2>3, <2>4 DEF Reported, Served
  <1> QED BY <1>4, <1>5, <1>6, <1>7 DEF LedgerInv

\* The buffers after a request: those of its kinds are new and empty.
LEMMA BuffersAfresh ==
  ASSUME LedgerTypeOK, NEW kinds, "transactions" \in kinds, FreshBuffers(kinds),
         DOMAIN requests \subseteq DOMAIN requests'
  PROVE  /\ buffer' \in [Kinds -> [there : BOOLEAN, holds : Seq(DOMAIN requests')]]
         /\ buffer'["transactions"] = [there |-> TRUE, holds |-> <<>>]
  <1>1. buffer' = [k \in Kinds |-> IF k \in kinds THEN [there |-> TRUE, holds |-> <<>>] ELSE buffer[k]]
    BY DEF FreshBuffers
  <1>2. buffer \in [Kinds -> [there : BOOLEAN, holds : Seq(DOMAIN requests')]]
    BY BufferGrows
  <1>3. [there |-> TRUE, holds |-> <<>>] \in [there : BOOLEAN, holds : Seq(DOMAIN requests')]
    OBVIOUS
  <1> DEFINE buffers == [there : BOOLEAN, holds : Seq(DOMAIN requests')]
             empty == [there |-> TRUE, holds |-> <<>>]
  <1>4. empty \in buffers /\ buffer \in [Kinds -> buffers] /\ "transactions" \in Kinds
        /\ buffer' = [k \in Kinds |-> IF k \in kinds THEN empty ELSE buffer[k]]
    BY <1>1, <1>2, <1>3 DEF Kinds
  <1> HIDE DEF buffers, empty
  <1>5. buffer' \in [Kinds -> buffers] /\ buffer'["transactions"] = empty
    BY <1>4
  <1> QED BY <1>5 DEF buffers, empty

\* A new request about transactions is the only new one.
LEMMA OneMore ==
  ASSUME NEW n, n \in DOMAIN requests', n \notin DOMAIN requests, requests'[n].kind = "transactions",
         \A r \in DOMAIN requests : r \in DOMAIN requests' /\ requests'[r] = requests[r],
         \A r \in DOMAIN requests' : r \in DOMAIN requests \/ r = n \/ requests'[r].kind = "duels"
  PROVE  /\ n \notin Transactions /\ Transactions' = Transactions \union {n}
         /\ \A r \in Transactions : requests'[r] = requests[r]
  BY DEF Transactions

\* A duel is booked and reported.
LEMMA BookDuelKeeps ==
  ASSUME LedgerAssumption, LedgerTypeOK, LedgerInv, BookDuel
  PROVE  LedgerTypeOK' /\ LedgerInv'
  <1> DEFINE t == booked["transactions"] + 1
             d == booked["duels"] + 1
             duels == mem.duels \union {d}
             kinds == {"transactions"} \union IF Cardinality(duels) > DuelsToReport THEN {"duels"} ELSE {}
             x == mem.transactions \union {t}
             some == IF "duels" \in kinds THEN <<Request("duels", duels)>> ELSE <<>>
  <1>1. /\ won /\ won' = FALSE /\ booked' = [transactions |-> t, duels |-> d]
        /\ mem' = [mem EXCEPT !.transactions = @ \union {t}, !.duels = duels]
        /\ disk' = [money |-> mem.money, duels |-> {}]
        /\ requests' = requests \o (<<Request("transactions", x)>> \o some)
        /\ FreshBuffers(kinds) /\ "transactions" \in kinds /\ kinds \subseteq Kinds
        /\ mishap' = mishap \union Overlap(kinds) \union Added
        /\ remote' = remote /\ restarts' = restarts
    BY DEF BookDuel, Reports, DuelsArchived, Kinds
  <1>2. /\ mem.money \in Nat /\ mem.transactions \subseteq Items /\ mem.duels \subseteq Items
        /\ booked["transactions"] \in Nat /\ booked["duels"] \in Nat
        /\ MaxItems \in Nat /\ Items = 1..MaxItems
    BY AccountFields
  <1>3. t <= MaxItems /\ d <= MaxItems /\ x \in SUBSET Items /\ duels \in SUBSET Items /\ t \in Nat /\ d \in Nat
    BY <1>1, <1>2 DEF LedgerInv, BookedInv
  <1>4. some = <<>> \/ \E y \in SUBSET Items : some = <<Request("duels", y)>>
    BY <1>3
  <1>5. /\ t \in Items /\ t \notin mem.transactions /\ Counted("transactions", t) = 0
        /\ \A r \in Transactions : t \notin requests[r].items
        /\ Cardinality(x) = Cardinality(mem.transactions) + 1 /\ Cardinality(mem.transactions) \in Nat
        /\ x \subseteq 1..t /\ 1..t = 1..booked["transactions"] \union {t}
    BY <1>3, NextNumber DEF LedgerInv
  <1>6. mem'.money = mem.money /\ mem'.transactions = x /\ mem'.duels = duels
        /\ mem' \in [money : Nat, transactions : SUBSET Items, duels : SUBSET Items]
    <2>1. mem \in [money : Nat, transactions : SUBSET Items, duels : SUBSET Items]
      BY DEF LedgerTypeOK
    <2>2. mem' = [mem EXCEPT !.transactions = x, !.duels = duels]
      BY <1>1
    <2> HIDE DEF x, duels
    <2> QED BY <1>3, <2>1, <2>2
  <1>7. booked'["transactions"] = t /\ booked'["duels"] = d /\ booked' \in [Kinds -> 0..MaxItems]
    <2>1. booked' = [transactions |-> t, duels |-> d]
      BY <1>1
    <2> HIDE DEF t, d
    <2> QED BY <1>2, <1>3, <2>1 DEF Kinds
  <1>8. t > booked["transactions"] /\ t \in x
    BY <1>2
  <1>9. "overlap" \notin mishap' => UnderWay("transactions") = {}
    BY <1>1 DEF Overlap
  <1>10. /\ mishap \subseteq mishap' /\ mishap' \subseteq {"overlap", "added", "failed", "restart", "paid"}
         /\ "added" \notin mishap' => UnderWay("transactions") = {}
    BY <1>1 DEF Overlap, Added, LedgerTypeOK
  <1>11. requests' = requests \o (<<Request("transactions", x)>> \o some)
    BY <1>1
  <1>12. /\ won /\ won' = FALSE /\ disk' = [money |-> mem.money, duels |-> {}]
         /\ FreshBuffers(kinds) /\ "transactions" \in kinds
         /\ remote' = remote /\ restarts' = restarts
    BY <1>1
  <1> HIDE DEF some, kinds, x, duels, t, d
  <1>13. PICK n : /\ n \in DOMAIN requests' /\ n \notin DOMAIN requests
                  /\ requests'[n] = Request("transactions", x)
                  /\ \A r \in DOMAIN requests : r \in DOMAIN requests' /\ requests'[r] = requests[r]
                  /\ \A r \in DOMAIN requests' : r \in DOMAIN requests \/ r = n \/ requests'[r].kind = "duels"
                  /\ requests' \in Seq(RequestType)
    BY <1>3, <1>4, <1>11, NewRequest
  <1>14. /\ buffer' \in [Kinds -> [there : BOOLEAN, holds : Seq(DOMAIN requests')]]
         /\ buffer'["transactions"] = [there |-> TRUE, holds |-> <<>>]
    BY <1>12, <1>13, BuffersAfresh
  <1>15. LedgerTypeOK'
    <2>1. disk' \in [money : Nat, duels : SUBSET Items] /\ won' \in BOOLEAN
      BY <1>2, <1>12
    <2>2. remote' \in [money : Nat, counted : [Kinds -> [Items -> Nat]]] /\ restarts' \in 0..MaxRestarts
      BY <1>12 DEF LedgerTypeOK
    <2> QED BY <1>6, <1>7, <1>10, <1>13, <1>14, <2>1, <2>2, TypesAgain
  <1>16. /\ n \notin Transactions /\ Transactions' = Transactions \union {n}
         /\ \A r \in Transactions : requests'[r] = requests[r]
    <2>1. requests'[n].kind = "transactions"
      BY <1>13 DEF Request
    <2> QED BY <1>13, <2>1, OneMore
  <1>17. mishap' = {} => /\ ~won' /\ mem'.money = booked'["transactions"]
                         /\ mem'.transactions = {} => disk'.money = mem'.money
                         /\ remote.money + Cardinality(mem'.transactions) = booked'["transactions"]
    <2> SUFFICES ASSUME mishap' = {}
                 PROVE  mem.money = t /\ remote.money + Cardinality(x) = t
      BY <1>6, <1>7, <1>12
    <2>1. Reported /\ UnderWay("transactions") = {}
      BY <1>10 DEF LedgerInv, MoneyInv
    <2>2. mem.money = t /\ remote.money + Cardinality(mem.transactions) = booked["transactions"]
      BY <1>12, <2>1 DEF Reported, t
    <2>3. remote.money \in Nat
      BY AccountFields
    <2> DEFINE c == Cardinality(mem.transactions)
    <2>4. c \in Nat /\ Cardinality(x) = c + 1 /\ remote.money + c = booked["transactions"]
      BY <1>5, <2>2
    <2> HIDE DEF c
    <2> QED BY <1>2, <2>2, <2>3, <2>4 DEF t
  <1>18. /\ mem.transactions \subseteq x /\ x \subseteq 1..t /\ 1..t \subseteq 1..booked["transactions"] \union x
         /\ \A i \in x \ mem.transactions :
              Counted("transactions", i) = 0 /\ \A r \in Transactions : i \notin requests[r].items
    BY <1>5, <1>8 DEF x
  <1>19. booked["transactions"] <= t
    BY <1>2, <1>8, <1>3
  <1> QED BY <1>6, <1>7, <1>9, <1>10, <1>12, <1>13, <1>14, <1>15, <1>16, <1>17, <1>18, <1>19, AsksKeeps

\* The daily money is booked, and not reported.
LEMMA DailyMoneyKeeps ==
  ASSUME LedgerAssumption, LedgerTypeOK, LedgerInv, DailyMoney
  PROVE  LedgerTypeOK' /\ LedgerInv'
  <1> DEFINE t == booked["transactions"] + 1
             x == mem.transactions \union {t}
             m == mem.money + 1
  <1>1. /\ booked["transactions"] + (IF won THEN 1 ELSE 0) < MaxItems
        /\ booked' = [booked EXCEPT !["transactions"] = t]
        /\ mem' = [mem EXCEPT !.money = m, !.transactions = x]
        /\ mishap' = mishap \union Added
        /\ disk' = disk /\ won' = won /\ requests' = requests /\ buffer' = buffer
        /\ remote' = remote /\ restarts' = restarts
    BY DEF DailyMoney
  <1>2. /\ mem.money \in Nat /\ mem.transactions \subseteq Items
        /\ booked["transactions"] \in Nat /\ booked["duels"] \in Nat /\ booked["duels"] <= MaxItems
        /\ MaxItems \in Nat /\ Items = 1..MaxItems /\ won \in BOOLEAN /\ remote.money \in Nat
    BY AccountFields
  <1>3. t <= MaxItems /\ t \in Nat /\ m \in Nat /\ m = mem.money + 1 /\ t = booked["transactions"] + 1
        /\ (won => t < MaxItems)
    BY <1>1, <1>2
  <1>4. /\ t \in Items /\ t \notin mem.transactions /\ Counted("transactions", t) = 0
        /\ \A r \in Transactions : t \notin requests[r].items
        /\ Cardinality(x) = Cardinality(mem.transactions) + 1 /\ Cardinality(mem.transactions) \in Nat
        /\ x \subseteq 1..t /\ 1..t = 1..booked["transactions"] \union {t} /\ x \in SUBSET Items
    BY <1>3, NextNumber DEF LedgerInv
  <1>5. t \in x /\ \A i \in x : i \in mem.transactions \/ i = t
    OBVIOUS
  <1>6. mem.transactions \subseteq x
    OBVIOUS
  <1> HIDE DEF t, x, m
  <1>7. /\ mem'.money = m /\ mem'.transactions = x
        /\ mem' \in [money : Nat, transactions : SUBSET Items, duels : SUBSET Items]
    BY <1>1, <1>3, <1>4 DEF LedgerTypeOK
  <1>8. booked'["transactions"] = t /\ booked'["duels"] = booked["duels"] /\ booked' \in [Kinds -> 0..MaxItems]
    BY <1>1, <1>2, <1>3 DEF LedgerTypeOK, Kinds
  <1>9. /\ mishap \subseteq mishap' /\ mishap' \subseteq {"overlap", "added", "failed", "restart", "paid"}
        /\ "added" \notin mishap' => UnderWay("transactions") = {}
    BY <1>1 DEF Added, LedgerTypeOK
  <1>10. LedgerTypeOK'
    <2>1. /\ disk' \in [money : Nat, duels : SUBSET Items] /\ won' \in BOOLEAN
          /\ requests' \in Seq(RequestType)
          /\ buffer' \in [Kinds -> [there : BOOLEAN, holds : Seq(DOMAIN requests')]]
          /\ remote' \in [money : Nat, counted : [Kinds -> [Items -> Nat]]] /\ restarts' \in 0..MaxRestarts
      BY <1>1 DEF LedgerTypeOK, RequestType
    <2> QED BY <1>7, <1>8, <1>9, <2>1, TypesAgain
  <1>11. Transactions' = Transactions /\ UnderWay("transactions")' = UnderWay("transactions")
    BY <1>1 DEF Transactions, UnderWay
  <1>12. \A i : Counted("transactions", i)' = Counted("transactions", i)
    BY <1>1 DEF Counted
  <1>13. BookedInv'
    <2>1. \A i \in 1..booked["transactions"] : i \in 1..t
      BY <1>4
    <2>2. won' => booked'["transactions"] < MaxItems /\ booked'["duels"] < MaxItems
      BY <1>1, <1>3, <1>8 DEF LedgerInv, BookedInv
    <2>3. \A i \in Items : Counted("transactions", i)' > 0 => i <= t
      BY <1>2, <1>3, <1>12 DEF LedgerInv, BookedInv
    <2> QED BY <1>1, <1>4, <1>7, <1>8, <1>11, <2>1, <2>2, <2>3 DEF LedgerInv, BookedInv
  <1>14. KeptInv'
    <2>1. \A r \in Transactions' : Served(r)' => \A i \in requests'[r].items : Counted("transactions", i)' > 0
      BY <1>1, <1>11, <1>12 DEF LedgerInv, KeptInv, Served
    <2>2. ASSUME mishap' \intersect {"restart", "added"} = {}
          PROVE  /\ \A i \in 1..booked'["transactions"] : i \in mem'.transactions \/ Counted("transactions", i)' > 0
                 /\ UnderWay("transactions")' = {}
      <3>1. \A i \in 1..booked["transactions"] : i \in mem.transactions \/ Counted("transactions", i) > 0
        BY <1>9, <2>2 DEF LedgerInv, KeptInv
      <3> QED BY <1>4, <1>5, <1>6, <1>7, <1>8, <1>9, <1>11, <1>12, <2>2, <3>1
    <2> QED BY <2>1, <2>2 DEF KeptInv
  <1>15. OnceInv'
    <2>1. OneAnswer => OneAnswer'
      BY <1>1, <1>11 DEF OneAnswer
    <2>2. ASSUME Fresh
          PROVE  Fresh'
      <3>1. \A r \in Transactions' : requests'[r].place = "gone" => requests'[r].items \intersect mem'.transactions = {}
        BY <1>1, <1>4, <1>5, <1>7, <1>11, <2>2 DEF Fresh
      <3>2. \/ \A i \in mem'.transactions : Counted("transactions", i)' = 0
            \/ \E r \in UnderWay("transactions")' : Served(r)'
        BY <1>1, <1>4, <1>5, <1>7, <1>11, <1>12, <2>2 DEF Fresh, Served
      <3>3. /\ \A i \in Items : Counted("transactions", i)' <= 1
            /\ \A r \in Transactions' : Unserved(r)' => \A i \in requests'[r].items : Counted("transactions", i)' = 0
            /\ \A r, q \in Transactions' :
                 r # q /\ Unserved(r)' /\ Unserved(q)' => requests'[r].items \intersect requests'[q].items = {}
        BY <1>1, <1>11, <1>12, <2>2 DEF Fresh, Unserved
      <3> QED BY <3>1, <3>2, <3>3 DEF Fresh
    <2> QED BY <1>9, <2>1, <2>2 DEF LedgerInv, OnceInv
  <1>16. MoneyInv'
    <2> SUFFICES ASSUME mishap' = {}
                 PROVE  Reported'
      BY DEF MoneyInv
    <2>1. Reported /\ UnderWay("transactions") = {}
      BY <1>9 DEF LedgerInv, MoneyInv
    <2>2. mem'.money = booked'["transactions"] + IF won' THEN 1 ELSE 0
      BY <1>1, <1>2, <1>3, <1>7, <1>8, <2>1 DEF Reported
    <2>3. remote'.money + Cardinality(mem'.transactions) = booked'["transactions"]
      BY <1>1, <1>2, <1>3, <1>4, <1>7, <1>8, <2>1 DEF Reported
    <2> QED BY <1>1, <1>5, <1>7, <1>11, <2>1, <2>2, <2>3 DEF Reported
  <1> QED BY <1>10, <1>13, <1>14, <1>15, <1>16 DEF LedgerInv

\* What is pending is reported again.
LEMMA AuthorizedKeeps ==
  ASSUME LedgerAssumption, LedgerTypeOK, LedgerInv, Authorized
  PROVE  LedgerTypeOK' /\ LedgerInv'
  <1>1. /\ requests' = requests \o <<Request("transactions", mem.transactions)>>
        /\ FreshBuffers({"transactions"})
        /\ mishap' = mishap \union Overlap({"transactions"}) \union Paid(won)
        /\ mem' = mem /\ disk' = disk /\ booked' = booked /\ won' = won
        /\ remote' = remote /\ restarts' = restarts
    BY DEF Authorized, Reports
  <1>2. /\ mem.money \in Nat /\ mem.transactions \subseteq Items
        /\ booked["transactions"] \in Nat /\ won \in BOOLEAN /\ remote.money \in Nat
    BY AccountFields
  <1>3. requests' = requests \o (<<Request("transactions", mem.transactions)>> \o <<>>)
    <2> DEFINE a == Request("transactions", mem.transactions)
    <2>1. requests' = requests \o <<a>>
      BY <1>1
    <2> HIDE DEF a
    <2>2. <<a>> \o <<>> = <<a>>
      OBVIOUS
    <2>3. requests' = requests \o (<<a>> \o <<>>)
      BY <2>1, <2>2
    <2> QED BY <2>3 DEF a
  <1>4. PICK n : /\ n \in DOMAIN requests' /\ n \notin DOMAIN requests
                 /\ requests'[n] = Request("transactions", mem.transactions)
                 /\ \A r \in DOMAIN requests : r \in DOMAIN requests' /\ requests'[r] = requests[r]
                 /\ \A r \in DOMAIN requests' : r \in DOMAIN requests \/ r = n \/ requests'[r].kind = "duels"
                 /\ requests' \in Seq(RequestType)
    <2> DEFINE some == <<>>
    <2>1. some = <<>> /\ requests' = requests \o (<<Request("transactions", mem.transactions)>> \o some)
      BY <1>3
    <2> HIDE DEF some
    <2> QED BY <1>2, <2>1, NewRequest
  <1>5. /\ buffer' \in [Kinds -> [there : BOOLEAN, holds : Seq(DOMAIN requests')]]
        /\ buffer'["transactions"] = [there |-> TRUE, holds |-> <<>>]
    <2>1. FreshBuffers({"transactions"}) /\ DOMAIN requests \subseteq DOMAIN requests'
      BY <1>1, <1>4
    <2> DEFINE kinds == {"transactions"}
    <2>2. "transactions" \in kinds /\ FreshBuffers(kinds)
      BY <2>1
    <2> HIDE DEF kinds
    <2> QED BY <2>1, <2>2, BuffersAfresh
  <1>6. /\ mishap \subseteq mishap' /\ mishap' \subseteq {"overlap", "added", "failed", "restart", "paid"}
        /\ "overlap" \notin mishap' => UnderWay("transactions") = {}
        /\ mishap' = {} => ~won
    BY <1>1, <1>2 DEF Overlap, Paid, LedgerTypeOK
  <1>7. LedgerTypeOK'
    <2>1. /\ mem' \in [money : Nat, transactions : SUBSET Items, duels : SUBSET Items]
          /\ disk' \in [money : Nat, duels : SUBSET Items] /\ won' \in BOOLEAN
          /\ booked' \in [Kinds -> 0..MaxItems]
          /\ remote' \in [money : Nat, counted : [Kinds -> [Items -> Nat]]] /\ restarts' \in 0..MaxRestarts
      BY <1>1 DEF LedgerTypeOK
    <2> QED BY <1>4, <1>5, <1>6, <2>1, TypesAgain
  <1>8. /\ n \notin Transactions /\ Transactions' = Transactions \union {n}
        /\ \A r \in Transactions : requests'[r] = requests[r]
    <2>1. requests'[n].kind = "transactions"
      BY <1>4 DEF Request
    <2> QED BY <1>4, <2>1, OneMore
  <1>9. mishap' = {} => /\ ~won' /\ mem'.money = booked'["transactions"]
                        /\ mem'.transactions = {} => disk'.money = mem'.money
                        /\ remote.money + Cardinality(mem'.transactions) = booked'["transactions"]
    <2> SUFFICES ASSUME mishap' = {}
                 PROVE  /\ ~won /\ mem.money = booked["transactions"]
                        /\ mem.transactions = {} => disk.money = mem.money
                        /\ remote.money + Cardinality(mem.transactions) = booked["transactions"]
      BY <1>1
    <2>1. Reported /\ UnderWay("transactions") = {} /\ ~won
      BY <1>6 DEF LedgerInv, MoneyInv
    <2> QED BY <1>2, <2>1 DEF Reported
  <1>10. /\ mem.transactions \subseteq 1..booked["transactions"]
         /\ won => booked["transactions"] < MaxItems /\ booked["duels"] < MaxItems
    BY DEF LedgerInv, BookedInv
  <1>11. booked["transactions"] <= booked'["transactions"]
    BY <1>1, <1>2
  <1> QED BY <1>1, <1>4, <1>5, <1>6, <1>7, <1>8, <1>9, <1>10, <1>11, AsksKeeps

-----------------------------------------------------------------------------
\* The server counts what a request reports.
LEMMA ServeKeeps ==
  ASSUME LedgerAssumption, LedgerTypeOK, LedgerInv, NEW r \in DOMAIN requests, Serve(r)
  PROVE  LedgerTypeOK' /\ LedgerInv'
  <1> DEFINE k == requests[r].kind
             items == requests[r].items
             total == remote.money + IF k = "transactions" THEN Cardinality(items) ELSE 0
             one(i) == IF i \in items THEN 1 ELSE 0
             place == IF requests[r].place = "sent" THEN "served" ELSE "done"
             e == [requests[r] EXCEPT !.place = place, !.money = total]
  <1>1. /\ requests[r].place = "sent" \/ requests[r].place = "gone"
        /\ remote' = [money |-> total,
                      counted |-> [remote.counted EXCEPT ![k] = [i \in Items |-> remote.counted[k][i] + one(i)]]]
        /\ requests' = [requests EXCEPT ![r] = e]
        /\ mem' = mem /\ disk' = disk /\ booked' = booked /\ won' = won
        /\ buffer' = buffer /\ restarts' = restarts /\ mishap' = mishap
    BY DEF Serve, At
  <1>2. /\ requests[r] \in RequestType /\ k \in Kinds /\ items \subseteq Items /\ place \in Places
        /\ remote.money \in Nat /\ Items = 1..MaxItems /\ MaxItems \in Nat
        /\ \A q \in DOMAIN requests : requests[q].items \subseteq Items
    BY RequestFields, AccountFields DEF Places
  <1>3. IsFiniteSet(items) /\ Cardinality(items) \in Nat
    <2>1. IsFiniteSet(1..MaxItems)
      BY <1>2, FS_Interval
    <2> QED BY <1>2, <2>1, FS_Subset, FS_CardinalityType
  <1>4. total \in Nat
    BY <1>2, <1>3
  <1>5. /\ e \in RequestType /\ e.kind = k /\ e.items = items /\ e.place = place /\ e.money = total
    <2> HIDE DEF total, place
    <2> QED BY <1>2, <1>4 DEF RequestType
  <1>6. remote.counted \in [Kinds -> [Items -> Nat]]
    BY DEF LedgerTypeOK
  <1>7. /\ remote'.money = total /\ remote' \in [money : Nat, counted : [Kinds -> [Items -> Nat]]]
        /\ k # "transactions" => remote'.counted["transactions"] = remote.counted["transactions"]
        /\ k = "transactions" => \A i \in Items : Counted("transactions", i)' = Counted("transactions", i) + one(i)
    <2> DEFINE new == [i \in Items |-> remote.counted[k][i] + one(i)]
               all == [remote.counted EXCEPT ![k] = new]
    <2>1. new \in [Items -> Nat] /\ \A i \in Items : new[i] = remote.counted[k][i] + one(i)
      BY <1>2, <1>6
    <2>2. remote' = [money |-> total, counted |-> all]
      BY <1>1
    <2> HIDE DEF new, total, one, k
    <2>3. all \in [Kinds -> [Items -> Nat]] /\ all[k] = new
          /\ (k # "transactions" => all["transactions"] = remote.counted["transactions"])
      BY <1>2, <1>6, <2>1 DEF Kinds
    <2> HIDE DEF all
    <2>4. remote'.money = total /\ remote'.counted = all /\ remote' \in [money : Nat, counted : [Kinds -> [Items -> Nat]]]
      BY <1>4, <2>2, <2>3
    <2> QED BY <2>1, <2>3, <2>4 DEF Counted
  <1>8. /\ DOMAIN requests' = DOMAIN requests /\ requests' \in Seq(RequestType) /\ requests'[r] = e
        /\ \A q \in DOMAIN requests :
             /\ requests'[q].kind = requests[q].kind /\ requests'[q].items = requests[q].items
             /\ q # r => requests'[q] = requests[q]
    <2> HIDE DEF e
    <2> QED BY <1>1, <1>5, RequestBecomes
  <1>9. LedgerTypeOK'
    <2>1. /\ mem' \in [money : Nat, transactions : SUBSET Items, duels : SUBSET Items]
          /\ disk' \in [money : Nat, duels : SUBSET Items] /\ booked' \in [Kinds -> 0..MaxItems] /\ won' \in BOOLEAN
          /\ restarts' \in 0..MaxRestarts /\ mishap' \subseteq {"overlap", "added", "failed", "restart", "paid"}
      BY <1>1 DEF LedgerTypeOK
    <2>2. buffer' \in [Kinds -> [there : BOOLEAN, holds : Seq(DOMAIN requests')]]
      BY <1>1, <1>8 DEF LedgerTypeOK
    <2> QED BY <1>7, <1>8, <2>1, <2>2, TypesAgain
  <1>10. Transactions' = Transactions
    BY <1>8 DEF Transactions
  <1>11. CASE k # "transactions"
    <2>1. r \notin Transactions
      BY <1>11 DEF Transactions
    <2>2. remote'.money = remote.money
      BY <1>2, <1>7, <1>11
    <2>3. \A q \in Transactions : requests'[q] = requests[q]
      BY <1>8, <2>1 DEF Transactions
    <2> QED BY <1>1, <1>7, <1>9, <1>10, <1>11, <2>2, <2>3, Elsewhere
  <1>12. CASE k = "transactions"
    <2>1. r \in Transactions /\ \A q \in Transactions : q \in DOMAIN requests
      BY <1>12 DEF Transactions
    <2>2. /\ \A i \in items : Counted("transactions", i)' = Counted("transactions", i) + 1
          /\ \A i \in Items \ items : Counted("transactions", i)' = Counted("transactions", i)
          /\ \A i \in Items : Counted("transactions", i) \in Nat
          /\ \A i \in Items : Counted("transactions", i) > 0 => Counted("transactions", i)' > 0
      <3>1. \A i \in Items :
              /\ Counted("transactions", i)' = Counted("transactions", i) + one(i)
              /\ Counted("transactions", i) \in Nat
        BY <1>7, <1>12, AccountFields
      <3>2. \A i : one(i) \in {0, 1} /\ (i \in items => one(i) = 1) /\ (i \notin items => one(i) = 0)
        OBVIOUS
      <3>3. items \subseteq Items
        BY <1>2
      <3> HIDE DEF items, one, k
      <3>4. ASSUME NEW i \in Items
            PROVE  /\ i \in items => Counted("transactions", i)' = Counted("transactions", i) + 1
                   /\ i \notin items => Counted("transactions", i)' = Counted("transactions", i)
                   /\ Counted("transactions", i) > 0 => Counted("transactions", i)' > 0
        BY <3>1, <3>2
      <3> QED BY <3>1, <3>3, <3>4
    <2>3. UnderWay("transactions")' = UnderWay("transactions")
      <3>1. ASSUME NEW q
            PROVE  q \in UnderWay("transactions")' <=> q \in UnderWay("transactions")
        <4>1. CASE q = r
          BY <1>1, <1>5, <1>8, <1>9, <1>10, <4>1, UnderWayIs, UnderWayIsThen
        <4>2. CASE q # r
          BY <1>8, <1>9, <1>10, <2>1, <4>2, UnderWayIs, UnderWayIsThen
        <4> QED BY <4>1, <4>2
      <3> QED BY <3>1
    <2>4. /\ requests'[r].place = "served" \/ requests'[r].place = "done"
          /\ requests'[r].money = total
          /\ requests[r].place = "sent" => requests'[r].place = "served"
          /\ requests[r].place = "gone" => requests'[r].place = "done"
          /\ \A q \in Transactions : requests'[q].items = requests[q].items /\ (q # r => requests'[q] = requests[q])
      BY <1>1, <1>5, <1>8, <2>1
    <2> HIDE DEF items, total, e, place, one, k
    <2>5. BookedInv'
      <3>1. items \subseteq 1..booked["transactions"]
        BY <2>1 DEF LedgerInv, BookedInv, items
      <3>2. ASSUME NEW i \in Items, Counted("transactions", i)' > 0
            PROVE  i <= booked'["transactions"]
        <4>1. CASE i \in items
          BY <1>1, <3>1, <4>1, AccountFields
        <4>2. CASE i \notin items
          BY <1>1, <2>2, <3>2, <4>2 DEF LedgerInv, BookedInv
        <4> QED BY <4>1, <4>2
      <3> QED BY <1>1, <1>10, <2>4, <3>2 DEF LedgerInv, BookedInv
    <2>6. KeptInv'
      <3>1. ASSUME NEW q \in Transactions, Served(q)', NEW i \in requests'[q].items
            PROVE  Counted("transactions", i)' > 0
        <4>1. i \in requests[q].items /\ i \in Items
          BY <1>2, <2>1, <2>4
        <4>2. CASE q = r
          BY <1>2, <2>2, <4>1, <4>2 DEF items
        <4>3. CASE q # r
          BY <2>2, <2>4, <3>1, <4>1, <4>3 DEF LedgerInv, KeptInv, Served
        <4> QED BY <4>2, <4>3
      <3>2. 1..booked["transactions"] \subseteq Items
        BY <1>2, AccountFields
      <3>3. ASSUME mishap' \intersect {"restart", "added"} = {}
            PROVE  /\ \A t \in 1..booked'["transactions"] : t \in mem'.transactions \/ Counted("transactions", t)' > 0
                   /\ \A q \in UnderWay("transactions")' : mem'.transactions \subseteq requests'[q].items
        <4>1. /\ \A t \in 1..booked["transactions"] : t \in mem.transactions \/ Counted("transactions", t) > 0
              /\ \A q \in UnderWay("transactions") : mem.transactions \subseteq requests[q].items
          BY <1>1, <3>3 DEF LedgerInv, KeptInv
        <4> QED BY <1>1, <2>2, <2>3, <2>4, <3>2, <4>1, UnderWayIs
      <3> QED BY <1>10, <3>1, <3>3 DEF KeptInv
    <2>7. OnceInv'
      <3> SUFFICES ASSUME mishap' \intersect {"overlap", "failed"} = {}
                   PROVE  OneAnswer' /\ Fresh'
        BY DEF OnceInv
      <3>1. OneAnswer /\ Fresh
        BY <1>1 DEF LedgerInv, OnceInv
      <3>2. r \in UnderWay("transactions") => requests[r].place = "sent" /\ requests'[r].place # "received"
        BY <1>1, <2>4, UnderWayIs
      <3>3. OneAnswer'
        BY <1>1, <2>3, <2>4, <3>1, <3>2, UnderWayIs DEF OneAnswer
      <3>4. Unserved(r) /\ items \subseteq Items /\ \A i \in items : Counted("transactions", i) = 0
        BY <1>1, <1>2, <2>1, <3>1 DEF Fresh, Unserved, items
      <3>5. \A i \in Items : Counted("transactions", i)' <= 1
        BY <2>2, <3>1, <3>4 DEF Fresh
      <3>6. ASSUME NEW q \in Transactions, Unserved(q)'
            PROVE  q # r /\ Unserved(q) /\ requests'[q] = requests[q]
        BY <2>4, <3>6 DEF Unserved
      <3>7. ASSUME NEW q \in Transactions, Unserved(q)', NEW i \in requests'[q].items
            PROVE  Counted("transactions", i)' = 0
        <4>1. i \in requests[q].items /\ i \notin items /\ i \in Items
          BY <1>2, <2>1, <3>1, <3>4, <3>6, <3>7 DEF Fresh, items
        <4> QED BY <2>2, <3>1, <3>6, <3>7, <4>1 DEF Fresh
      <3>8. \A q, p \in Transactions :
              q # p /\ Unserved(q)' /\ Unserved(p)' => requests'[q].items \intersect requests'[p].items = {}
        BY <3>1, <3>6 DEF Fresh
      <3>9. \A q \in Transactions : requests'[q].place = "gone" => requests'[q].items \intersect mem'.transactions = {}
        BY <1>1, <2>4, <3>1 DEF Fresh
      <3>10. \/ \A i \in mem'.transactions : Counted("transactions", i)' = 0
             \/ \E q \in UnderWay("transactions")' : Served(q)'
        <4>1. CASE requests[r].place = "sent"
          <5>1. r \in UnderWay("transactions")' /\ Served(r)'
            BY <2>1, <2>3, <2>4, <4>1, UnderWayIs DEF Served
          <5> QED BY <5>1
        <4>2. CASE requests[r].place = "gone" /\ \E q \in UnderWay("transactions") : Served(q)
          <5>1. PICK q \in UnderWay("transactions") : Served(q)
            BY <4>2
          <5>2. q # r /\ q \in Transactions
            BY <4>2, <5>1, UnderWayIs
          <5>3. Served(q)'
            BY <2>4, <5>1, <5>2 DEF Served
          <5> QED BY <2>3, <5>1, <5>3
        <4>3. CASE requests[r].place = "gone" /\ \A i \in mem.transactions : Counted("transactions", i) = 0
          <5>1. items \intersect mem.transactions = {} /\ mem.transactions \subseteq Items
            BY <2>1, <3>1, <4>3, AccountFields DEF Fresh, items
          <5> QED BY <1>1, <2>2, <4>3, <5>1
        <4> QED BY <1>1, <3>1, <4>1, <4>2, <4>3 DEF Fresh
      <3> QED BY <1>10, <3>3, <3>5, <3>7, <3>8, <3>9, <3>10 DEF Fresh
    <2>8. MoneyInv'
      <3> SUFFICES ASSUME mishap' = {}
                   PROVE  Reported'
        BY DEF MoneyInv
      <3>1. Reported /\ OneAnswer
        BY <1>1 DEF LedgerInv, MoneyInv, OnceInv
      <3>2. /\ \A q \in Transactions : requests'[q].place = "gone" => requests'[q].items = {}
            /\ \A q \in UnderWay("transactions")' : requests'[q].items = mem'.transactions
            /\ UnderWay("transactions")' # {} => ~won'
            /\ mem'.money = booked'["transactions"] + IF won' THEN 1 ELSE 0
            /\ mem'.transactions = {} /\ ~won' => disk'.money = mem'.money
        BY <1>1, <2>3, <2>4, <3>1, UnderWayIs DEF Reported
      <3>3. total = remote.money + Cardinality(items)
        BY <1>12 DEF total
      <3>4. CASE requests[r].place = "sent"
        <4>1. r \in UnderWay("transactions") /\ ~Served(r) /\ \A q \in UnderWay("transactions") : q = r
          BY <2>1, <3>1, <3>4, UnderWayIs DEF OneAnswer, Served
        <4>2. items = mem.transactions /\ remote.money + Cardinality(mem.transactions) = booked["transactions"]
          BY <3>1, <4>1 DEF Reported, items
        <4>3. Served(r)' /\ remote'.money = booked'["transactions"] /\ requests'[r].money = remote'.money
          BY <1>1, <1>7, <2>4, <3>3, <3>4, <4>2 DEF Served
        <4> QED BY <1>10, <2>3, <3>2, <4>1, <4>3 DEF Reported
      <3>5. CASE requests[r].place = "gone"
        <4>1. r \notin UnderWay("transactions") /\ items = {}
          BY <2>1, <3>1, <3>5, UnderWayIs DEF Reported, items
        <4>2. remote'.money = remote.money
          BY <1>2, <1>7, <3>3, <4>1, FS_EmptySet
        <4>3. \A q \in UnderWay("transactions") : requests'[q] = requests[q]
          BY <2>4, <4>1, UnderWayIs
        <4> QED BY <1>1, <1>10, <2>3, <3>1, <3>2, <4>2, <4>3 DEF Reported, Served
      <3> QED BY <1>1, <3>4, <3>5
    <2> QED BY <1>9, <2>5, <2>6, <2>7, <2>8 DEF LedgerInv
  <1> QED BY <1>11, <1>12

\* An answer arrives: to the buffer of its address, if there is one.
LEMMA ReceiveDataKeeps ==
  ASSUME LedgerAssumption, LedgerTypeOK, LedgerInv, NEW r \in DOMAIN requests, ReceiveData(r)
  PROVE  LedgerTypeOK' /\ LedgerInv'
  <1> DEFINE k == requests[r].kind
             longer == Append(buffer[k].holds, r)
  <1>1. /\ requests[r].place = "served" /\ requests' = [requests EXCEPT ![r].place = "received"]
        /\ buffer' = IF buffer[k].there THEN [buffer EXCEPT ![k] = [@ EXCEPT !.holds = longer]] ELSE buffer
        /\ mem' = mem /\ disk' = disk /\ booked' = booked /\ won' = won
        /\ remote' = remote /\ restarts' = restarts /\ mishap' = mishap
    BY DEF ReceiveData, At
  <1>2. /\ DOMAIN requests' = DOMAIN requests /\ requests' \in Seq(RequestType)
        /\ requests'[r].place = "received"
        /\ \A q \in DOMAIN requests :
             /\ requests'[q].kind = requests[q].kind /\ requests'[q].items = requests[q].items
             /\ requests'[q].money = requests[q].money
             /\ q # r => requests'[q] = requests[q]
    <2>1. "received" \in Places
      BY DEF Places
    <2> QED BY <1>1, <2>1, PlaceMoves
  <1>3. /\ buffer \in [Kinds -> [there : BOOLEAN, holds : Seq(DOMAIN requests)]] /\ k \in Kinds
        /\ "transactions" \in Kinds
    BY RequestFields DEF LedgerTypeOK, Kinds
  <1>4. /\ buffer' \in [Kinds -> [there : BOOLEAN, holds : Seq(DOMAIN requests')]]
        /\ k # "transactions" => buffer'["transactions"] = buffer["transactions"]
        /\ k = "transactions" /\ buffer[k] = [there |-> TRUE, holds |-> <<>>] =>
             buffer'["transactions"].holds = <<r>>
    <2> DEFINE ids == DOMAIN requests
               held == Seq(ids)
               one == [buffer[k] EXCEPT !.holds = longer]
    <2>1. buffer[k] \in [there : BOOLEAN, holds : held] /\ buffer[k].holds \in Seq(ids)
      BY <1>3
    <2>2. longer \in Seq(ids)
      <3>1. r \in ids
        OBVIOUS
      <3> HIDE DEF ids, k
      <3> QED BY <2>1, <3>1
    <2>3. one \in [there : BOOLEAN, holds : held] /\ one.holds = longer
      <3> HIDE DEF longer, k
      <3> QED BY <2>1, <2>2
    <2>4. buffer' = IF buffer[k].there THEN [buffer EXCEPT ![k] = one] ELSE buffer
      BY <1>1
    <2>5. k = "transactions" /\ buffer[k] = [there |-> TRUE, holds |-> <<>>] => buffer[k].there /\ longer = <<r>>
      OBVIOUS
    <2>6. buffer \in [Kinds -> [there : BOOLEAN, holds : held]] /\ DOMAIN requests' = ids
      BY <1>2, <1>3
    <2> HIDE DEF one, longer, held, ids, k
    <2>7. /\ buffer' \in [Kinds -> [there : BOOLEAN, holds : held]]
          /\ k # "transactions" => buffer'["transactions"] = buffer["transactions"]
          /\ k = "transactions" /\ buffer[k].there => buffer'["transactions"] = one
      BY <1>3, <2>3, <2>4, <2>6
    <2>8. k = "transactions" /\ buffer[k] = [there |-> TRUE, holds |-> <<>>] =>
            buffer'["transactions"].holds = <<r>>
      BY <2>3, <2>5, <2>7
    <2> QED BY <2>6, <2>7, <2>8 DEF held
  <1>5. LedgerTypeOK'
    <2>1. /\ mem' \in [money : Nat, transactions : SUBSET Items, duels : SUBSET Items]
          /\ disk' \in [money : Nat, duels : SUBSET Items] /\ booked' \in [Kinds -> 0..MaxItems] /\ won' \in BOOLEAN
          /\ remote' \in [money : Nat, counted : [Kinds -> [Items -> Nat]]]
          /\ restarts' \in 0..MaxRestarts /\ mishap' \subseteq {"overlap", "added", "failed", "restart", "paid"}
      BY <1>1 DEF LedgerTypeOK
    <2> QED BY <1>2, <1>4, <2>1, TypesAgain
  <1>6. Transactions' = Transactions /\ \A q \in Transactions : q \in DOMAIN requests
    BY <1>2 DEF Transactions
  <1>7. CASE k # "transactions"
    <2>1. r \notin Transactions
      BY <1>7 DEF Transactions
    <2>2. \A q \in Transactions : requests'[q] = requests[q]
      BY <1>2, <1>6, <2>1
    <2> QED BY <1>1, <1>4, <1>5, <1>6, <1>7, <2>2, Elsewhere
  <1>8. CASE k = "transactions"
    <2>1. r \in Transactions
      BY <1>8 DEF Transactions
    <2>2. \A i : Counted("transactions", i)' = Counted("transactions", i)
      BY <1>1 DEF Counted
    <2>3. UnderWay("transactions")' = UnderWay("transactions") /\ r \in UnderWay("transactions")
      BY <1>1, <1>2, <1>5, <1>6, <2>1, UnderWayIs, UnderWayIsThen
    <2>4. /\ \A q \in Transactions : (Served(q)' <=> Served(q)) /\ (Unserved(q)' <=> Unserved(q))
          /\ \A q \in Transactions : requests'[q].items = requests[q].items /\ requests'[q].money = requests[q].money
          /\ \A q \in Transactions : requests'[q].place = "gone" <=> requests[q].place = "gone"
      BY <1>1, <1>2, <1>6 DEF Served, Unserved
    <2>5. \A q \in UnderWay("transactions") : q \in Transactions
      BY UnderWayIs
    <2>6. BookedInv'
      BY <1>1, <1>6, <2>2, <2>4 DEF LedgerInv, BookedInv
    <2>7. KeptInv'
      BY <1>1, <1>6, <2>2, <2>3, <2>4, <2>5 DEF LedgerInv, KeptInv
    <2>8. OnceInv'
      <3>1. ASSUME OneAnswer
            PROVE  OneAnswer'
        <4>1. \A q \in UnderWay("transactions") : q = r
          BY <2>3, <3>1 DEF OneAnswer
        <4>2. buffer["transactions"] = [there |-> TRUE, holds |-> <<>>]
          BY <1>1, <2>3, <3>1 DEF OneAnswer
        <4>3. buffer'["transactions"].holds = <<r>>
          BY <1>4, <1>8, <4>2
        <4> QED BY <1>2, <2>3, <4>1, <4>3 DEF OneAnswer
      <3>2. Fresh => Fresh'
        BY <1>1, <1>6, <2>2, <2>3, <2>4, <2>5 DEF Fresh
      <3> QED BY <1>1, <3>1, <3>2 DEF LedgerInv, OnceInv
    <2>9. MoneyInv'
      BY <1>1, <1>6, <2>3, <2>4, <2>5 DEF LedgerInv, MoneyInv, Reported
    <2> QED BY <1>5, <2>6, <2>7, <2>8, <2>9 DEF LedgerInv
  <1> QED BY <1>7, <1>8

\* A request fails, before or after the server has seen it.
LEMMA FailKeeps ==
  ASSUME LedgerAssumption, LedgerTypeOK, LedgerInv, NEW r \in DOMAIN requests, Fail(r)
  PROVE  LedgerTypeOK' /\ LedgerInv'
  <1> DEFINE p == Left(requests[r].place)
  <1>1. /\ requests[r].place \in {"sent", "served", "received"}
        /\ requests' = [requests EXCEPT ![r].place = p]
        /\ mishap' = mishap \union {"failed"}
        /\ mem' = mem /\ disk' = disk /\ booked' = booked /\ won' = won
        /\ buffer' = buffer /\ remote' = remote /\ restarts' = restarts
    BY DEF Fail, At
  <1>2. p \in Places /\ p \in {"gone", "done"}
    BY <1>1 DEF Left, Places
  <1> HIDE DEF p
  <1>3. /\ DOMAIN requests' = DOMAIN requests /\ requests' \in Seq(RequestType)
        /\ requests'[r].place = p
        /\ \A q \in DOMAIN requests :
             /\ requests'[q].kind = requests[q].kind /\ requests'[q].items = requests[q].items
             /\ requests'[q].money = requests[q].money
             /\ q # r => requests'[q] = requests[q]
    BY <1>1, <1>2, PlaceMoves
  <1>4. LedgerTypeOK'
    <2>1. /\ mem' \in [money : Nat, transactions : SUBSET Items, duels : SUBSET Items]
          /\ disk' \in [money : Nat, duels : SUBSET Items] /\ booked' \in [Kinds -> 0..MaxItems] /\ won' \in BOOLEAN
          /\ remote' \in [money : Nat, counted : [Kinds -> [Items -> Nat]]]
          /\ restarts' \in 0..MaxRestarts /\ mishap' \subseteq {"overlap", "added", "failed", "restart", "paid"}
      BY <1>1 DEF LedgerTypeOK
    <2>2. buffer' \in [Kinds -> [there : BOOLEAN, holds : Seq(DOMAIN requests')]]
      BY <1>1, <1>3 DEF LedgerTypeOK
    <2> QED BY <1>3, <2>1, <2>2, TypesAgain
  <1>5. Transactions' = Transactions /\ \A q \in Transactions : q \in DOMAIN requests
    BY <1>3 DEF Transactions
  <1>6. \A i : Counted("transactions", i)' = Counted("transactions", i)
    BY <1>1 DEF Counted
  <1>7. \A q \in UnderWay("transactions")' : q \in UnderWay("transactions") /\ q \in Transactions
    BY <1>2, <1>3, <1>4, <1>5, UnderWayIs, UnderWayIsThen
  <1>8. /\ \A q \in Transactions : Served(q)' => Served(q)
        /\ \A q \in Transactions : requests'[q].items = requests[q].items
    BY <1>2, <1>3, <1>5 DEF Served
  <1>9. BookedInv' /\ KeptInv'
    BY <1>1, <1>5, <1>6, <1>7, <1>8 DEF LedgerInv, BookedInv, KeptInv
  <1>10. OnceInv' /\ MoneyInv'
    BY <1>1 DEF OnceInv, MoneyInv
  <1> QED BY <1>4, <1>9, <1>10 DEF LedgerInv

\* An answer is read, if its buffer holds one: what is pending is cleared.
LEMMA FinishLoadingKeeps ==
  ASSUME LedgerAssumption, LedgerTypeOK, LedgerInv, NEW r \in DOMAIN requests, FinishLoading(r)
  PROVE  LedgerTypeOK' /\ LedgerInv'
  <1> DEFINE k == requests[r].kind
             first == buffer[k].holds[1]
             m == requests[first].money
  <1>1. /\ requests[r].place = "received" /\ requests' = [requests EXCEPT ![r].place = "done"]
        /\ buffer' = [buffer EXCEPT ![k] = NoBuffer]
        /\ ~Understood(k) => mem' = mem /\ disk' = disk
        /\ Understood(k) /\ k = "duels" => mem' = mem /\ disk' = [disk EXCEPT !.duels = {}]
        /\ Understood(k) /\ k # "duels" => /\ mem' = [mem EXCEPT !.money = m, !.transactions = {}]
                                           /\ disk' = [disk EXCEPT !.money = m]
        /\ booked' = booked /\ won' = won
        /\ remote' = remote /\ restarts' = restarts /\ mishap' = mishap
    BY DEF FinishLoading, At, ClearTransactions
  <1>2. /\ DOMAIN requests' = DOMAIN requests /\ requests' \in Seq(RequestType)
        /\ requests'[r].place = "done"
        /\ \A q \in DOMAIN requests :
             /\ requests'[q].kind = requests[q].kind /\ requests'[q].items = requests[q].items
             /\ requests'[q].money = requests[q].money
             /\ q # r => requests'[q] = requests[q]
    <2>1. "done" \in Places
      BY DEF Places
    <2> QED BY <1>1, <2>1, PlaceMoves
  <1>3. /\ buffer \in [Kinds -> [there : BOOLEAN, holds : Seq(DOMAIN requests)]] /\ k \in Kinds
        /\ "transactions" \in Kinds
    BY RequestFields DEF LedgerTypeOK, Kinds
  <1>4. /\ buffer' \in [Kinds -> [there : BOOLEAN, holds : Seq(DOMAIN requests')]]
        /\ k # "transactions" => buffer'["transactions"] = buffer["transactions"]
    <2> DEFINE buffers == [there : BOOLEAN, holds : Seq(DOMAIN requests)]
    <2>1. NoBuffer \in buffers /\ buffer \in [Kinds -> buffers]
      BY <1>3 DEF NoBuffer
    <2>2. buffers = [there : BOOLEAN, holds : Seq(DOMAIN requests')]
      BY <1>2
    <2>3. buffer' = [buffer EXCEPT ![k] = NoBuffer]
      BY <1>1
    <2> HIDE DEF buffers, k
    <2> QED BY <1>3, <2>1, <2>2, <2>3
  <1>5. Understood(k) => m \in Nat
    <2> SUFFICES ASSUME Understood(k)
                 PROVE  m \in Nat
      OBVIOUS
    <2> DEFINE held == buffer[k].holds
               ids == DOMAIN requests
    <2>1. held \in Seq(ids) /\ Len(held) = 1
      BY <1>3 DEF Understood
    <2>2. held[1] \in ids
      <3> HIDE DEF held, ids
      <3> QED BY SMTT(30), <2>1
    <2>3. first \in DOMAIN requests
      BY <2>2
    <2> HIDE DEF first
    <2> QED BY <2>3, RequestFields
  <1>6. /\ mem.money \in Nat /\ mem.transactions \subseteq Items /\ mem.duels \subseteq Items
        /\ disk.money \in Nat /\ disk.duels \subseteq Items
        /\ mem \in [money : Nat, transactions : SUBSET Items, duels : SUBSET Items]
        /\ disk \in [money : Nat, duels : SUBSET Items]
    BY AccountFields DEF LedgerTypeOK
  <1> HIDE DEF m
  <1>7. /\ mem' \in [money : Nat, transactions : SUBSET Items, duels : SUBSET Items]
        /\ disk' \in [money : Nat, duels : SUBSET Items]
        /\ ~Understood(k) \/ k = "duels" =>
             mem'.money = mem.money /\ mem'.transactions = mem.transactions /\ disk'.money = disk.money
        /\ Understood(k) /\ k # "duels" =>
             mem'.money = m /\ mem'.transactions = {} /\ disk'.money = m
    <2> HIDE DEF k
    <2>1. CASE ~Understood(k)
      BY <1>1, <1>6, <2>1
    <2>2. CASE Understood(k) /\ k = "duels"
      <3>1. mem' = mem /\ disk' = [disk EXCEPT !.duels = {}]
        BY <1>1, <2>2
      <3> QED BY <1>6, <2>2, <3>1
    <2>3. CASE Understood(k) /\ k # "duels"
      <3>1. /\ mem' = [mem EXCEPT !.money = m, !.transactions = {}] /\ disk' = [disk EXCEPT !.money = m] /\ m \in Nat
        BY <1>1, <1>5, <2>3
      <3> QED BY <1>6, <2>3, <3>1
    <2> QED BY <2>1, <2>2, <2>3
  <1>8. LedgerTypeOK'
    <2>1. /\ booked' \in [Kinds -> 0..MaxItems] /\ won' \in BOOLEAN
          /\ remote' \in [money : Nat, counted : [Kinds -> [Items -> Nat]]]
          /\ restarts' \in 0..MaxRestarts /\ mishap' \subseteq {"overlap", "added", "failed", "restart", "paid"}
      BY <1>1 DEF LedgerTypeOK
    <2> QED BY <1>2, <1>4, <1>7, <2>1, TypesAgain
  <1>9. Transactions' = Transactions /\ \A q \in Transactions : q \in DOMAIN requests
    BY <1>2 DEF Transactions
  <1>10. k = "transactions" \/ k = "duels"
    BY <1>3 DEF Kinds
  <1>11. CASE k = "duels"
    <2>1. r \notin Transactions
      BY <1>11 DEF Transactions
    <2>2. \A q \in Transactions : requests'[q] = requests[q]
      BY <1>2, <1>9, <2>1
    <2> QED BY <1>1, <1>4, <1>7, <1>8, <1>9, <1>11, <2>2, Elsewhere
  <1>12. CASE k = "transactions"
    <2>1. r \in Transactions
      BY <1>12 DEF Transactions
    <2>2. \A i : Counted("transactions", i)' = Counted("transactions", i)
      BY <1>1 DEF Counted
    <2>3. r \in UnderWay("transactions") /\ Served(r)
      BY <1>1, <2>1, UnderWayIs DEF Served
    <2>4. \A q : q \in UnderWay("transactions")' <=> q \in UnderWay("transactions") /\ q # r
      BY <1>2, <1>8, <1>9, <2>1, UnderWayIs, UnderWayIsThen
    <2>5. /\ \A q \in Transactions : Served(q)' => Served(q)
          /\ \A q \in Transactions : Unserved(q)' <=> Unserved(q)
          /\ \A q \in Transactions : requests'[q].items = requests[q].items
          /\ \A q \in Transactions : requests'[q].place = "gone" <=> requests[q].place = "gone"
      BY <1>1, <1>2, <1>9 DEF Served, Unserved
    <2>6. \A q \in UnderWay("transactions") : q \in Transactions
      BY UnderWayIs
    <2>7. mem'.transactions \subseteq mem.transactions
          /\ (mem'.transactions = mem.transactions \/ mem'.transactions = {})
      BY <1>7, <1>10
    <2>8. BookedInv'
      BY <1>1, <1>9, <2>2, <2>5, <2>7 DEF LedgerInv, BookedInv
    <2>9. KeptInv'
      <3>1. \A q \in Transactions' : Served(q)' => \A i \in requests'[q].items : Counted("transactions", i)' > 0
        BY <1>9, <2>2, <2>5 DEF LedgerInv, KeptInv
      <3>2. ASSUME mishap' \intersect {"restart", "added"} = {}
            PROVE  /\ \A t \in 1..booked'["transactions"] : t \in mem'.transactions \/ Counted("transactions", t)' > 0
                   /\ \A q \in UnderWay("transactions")' : mem'.transactions \subseteq requests'[q].items
        <4>1. /\ \A t \in 1..booked["transactions"] : t \in mem.transactions \/ Counted("transactions", t) > 0
              /\ \A q \in UnderWay("transactions") : mem.transactions \subseteq requests[q].items
          BY <1>1, <3>2 DEF LedgerInv, KeptInv
        <4>2. \A i \in requests[r].items : Counted("transactions", i) > 0
          BY <2>1, <2>3 DEF LedgerInv, KeptInv
        <4>3. \A i \in mem.transactions : Counted("transactions", i) > 0
          BY <2>3, <4>1, <4>2
        <4>4. \A t \in 1..booked'["transactions"] : t \in mem'.transactions \/ Counted("transactions", t)' > 0
          BY <1>1, <2>2, <4>1, <4>3
        <4>5. \A q \in UnderWay("transactions")' : mem'.transactions \subseteq requests'[q].items
          BY <2>4, <2>5, <2>6, <2>7, <4>1
        <4> QED BY <4>4, <4>5
      <3> QED BY <3>1, <3>2 DEF KeptInv
    <2>10. OneAnswer => UnderWay("transactions")' = {} /\ first = r /\ mem'.transactions = {}
                        /\ mem'.money = m /\ disk'.money = m
      <3> SUFFICES ASSUME OneAnswer
                   PROVE  UnderWay("transactions")' = {} /\ first = r /\ Understood(k)
        BY <1>7, <1>12
      <3>1. buffer["transactions"].holds = <<r>>
        BY <1>1, <2>3 DEF OneAnswer
      <3>2. \A q \in UnderWay("transactions") : q = r
        BY <2>3 DEF OneAnswer
      <3> QED BY <1>12, <2>4, <3>1, <3>2 DEF Understood
    <2>11. OnceInv'
      <3> SUFFICES ASSUME mishap' \intersect {"overlap", "failed"} = {}
                   PROVE  OneAnswer' /\ Fresh'
        BY DEF OnceInv
      <3>1. OneAnswer /\ Fresh
        BY <1>1 DEF LedgerInv, OnceInv
      <3>2. UnderWay("transactions")' = {} /\ mem'.transactions = {}
        BY <2>10, <3>1
      <3>3. Fresh'
        BY <1>9, <2>2, <2>5, <3>1, <3>2 DEF Fresh
      <3> QED BY <3>2, <3>3 DEF OneAnswer
    <2>12. MoneyInv'
      <3> SUFFICES ASSUME mishap' = {}
                   PROVE  Reported'
        BY DEF MoneyInv
      <3>1. Reported /\ OneAnswer
        BY <1>1 DEF LedgerInv, MoneyInv, OnceInv
      <3>2. /\ UnderWay("transactions")' = {} /\ mem'.transactions = {} /\ mem'.money = m /\ disk'.money = m
            /\ m = requests[r].money
        BY <2>10, <3>1 DEF m
      <3>3. ~won /\ remote.money = booked["transactions"] /\ m = booked["transactions"]
        BY <2>3, <3>1, <3>2 DEF Reported
      <3>4. booked["transactions"] \in Nat /\ Cardinality(mem'.transactions) = 0
        BY <3>2, AccountFields, FS_EmptySet
      <3>5. \A q \in Transactions' : requests'[q].place = "gone" => requests'[q].items = {}
        BY <1>9, <2>5, <3>1 DEF Reported
      <3> QED BY <1>1, <3>2, <3>3, <3>4, <3>5 DEF Reported
    <2> QED BY <1>8, <2>8, <2>9, <2>11, <2>12 DEF LedgerInv
  <1> QED BY <1>10, <1>11, <1>12

\* The process is gone and launched again.
LEMMA RelaunchKeeps ==
  ASSUME LedgerAssumption, LedgerTypeOK, LedgerInv, Relaunch
  PROVE  LedgerTypeOK' /\ LedgerInv'
  <1>1. /\ restarts < MaxRestarts /\ restarts' = restarts + 1
        /\ mem' = [money |-> disk.money, transactions |-> {}, duels |-> disk.duels]
        /\ won' = FALSE /\ disk' = disk /\ booked' = booked /\ remote' = remote
        /\ requests' = [r \in DOMAIN requests |-> [requests[r] EXCEPT !.place = Left(requests[r].place)]]
        /\ buffer' = [k \in Kinds |-> NoBuffer]
        /\ mishap' = mishap \union IF won \/ mem.transactions # {} THEN {"restart"} ELSE {}
    BY DEF Relaunch, SavedMoney
  <1>2. \A p \in Places : Left(p) \in {"gone", "done"} /\ (Left(p) = "gone" <=> p \in {"sent", "gone"})
    BY DEF Left, Places
  <1> DEFINE e(r) == [requests[r] EXCEPT !.place = Left(requests[r].place)]
  <1>3. ASSUME NEW r \in DOMAIN requests
        PROVE  /\ e(r) \in RequestType /\ e(r).kind = requests[r].kind /\ e(r).items = requests[r].items
               /\ e(r).place \in {"gone", "done"}
               /\ e(r).place = "gone" <=> requests[r].place \in {"sent", "gone"}
    <2> DEFINE p == Left(requests[r].place)
    <2>1. requests[r] \in RequestType /\ requests[r].place \in Places
      BY RequestFields
    <2>2. p \in {"gone", "done"} /\ (p = "gone" <=> requests[r].place \in {"sent", "gone"}) /\ p \in Places
      BY <1>2, <2>1 DEF Places
    <2> HIDE DEF p
    <2>3. [requests[r] EXCEPT !.place = p] \in RequestType
      BY <2>1, <2>2 DEF RequestType
    <2>4. /\ [requests[r] EXCEPT !.place = p].kind = requests[r].kind
          /\ [requests[r] EXCEPT !.place = p].items = requests[r].items
          /\ [requests[r] EXCEPT !.place = p].place = p
      BY <2>1 DEF RequestType
    <2> QED BY <2>2, <2>3, <2>4 DEF p
  <1>4. requests' = [r \in DOMAIN requests |-> e(r)]
    BY <1>1
  <1> HIDE DEF e
  <1>5. /\ DOMAIN requests' = DOMAIN requests
        /\ \A r \in DOMAIN requests :
             /\ requests'[r].kind = requests[r].kind /\ requests'[r].items = requests[r].items
             /\ requests'[r].place \in {"gone", "done"}
             /\ requests'[r].place = "gone" <=> requests[r].place \in {"sent", "gone"}
    BY <1>3, <1>4
  <1>6. requests' \in Seq(RequestType)
    <2>1. Len(requests) \in Nat /\ DOMAIN requests = 1..Len(requests)
      BY RequestFields
    <2> DEFINE n == Len(requests)
    <2>2. n \in Nat /\ requests' = [r \in 1..n |-> e(r)] /\ \A r \in 1..n : e(r) \in RequestType
      BY <1>3, <1>4, <2>1
    <2> HIDE DEF n, RequestType
    <2> QED BY <2>2
  <1>7. LedgerTypeOK'
    <2>1. /\ mem' \in [money : Nat, transactions : SUBSET Items, duels : SUBSET Items]
          /\ disk' \in [money : Nat, duels : SUBSET Items] /\ won' \in BOOLEAN
          /\ mishap' \subseteq {"overlap", "added", "failed", "restart", "paid"}
          /\ booked' \in [Kinds -> 0..MaxItems] /\ remote' \in [money : Nat, counted : [Kinds -> [Items -> Nat]]]
      BY <1>1, AccountFields DEF LedgerTypeOK
    <2>2. restarts' \in 0..MaxRestarts
      BY <1>1 DEF LedgerTypeOK, LedgerAssumption
    <2>3. NoBuffer \in [there : BOOLEAN, holds : Seq(DOMAIN requests')]
      BY DEF NoBuffer
    <2>4. buffer' \in [Kinds -> [there : BOOLEAN, holds : Seq(DOMAIN requests')]]
      BY <1>1, <2>3
    <2> QED BY <1>6, <2>1, <2>2, <2>4, TypesAgain
  <1>8. Transactions' = Transactions /\ \A q \in Transactions : q \in DOMAIN requests
    BY <1>5 DEF Transactions
  <1>9. /\ \A i : Counted("transactions", i)' = Counted("transactions", i)
        /\ mem'.transactions = {} /\ mem'.money = disk.money
    BY <1>1 DEF Counted
  <1>10. UnderWay("transactions")' = {}
    BY <1>5, <1>7, <1>8, UnderWayIsThen
  <1>11. \A q \in Transactions : ~Served(q)' /\ (Unserved(q)' => Unserved(q))
    BY <1>5, <1>8 DEF Served, Unserved
  <1>12. /\ mishap \subseteq mishap'
         /\ "restart" \notin mishap' => ~won /\ mem.transactions = {}
    BY <1>1
  <1>13. BookedInv'
    BY <1>1, <1>5, <1>8, <1>9 DEF LedgerInv, BookedInv
  <1>14. KeptInv'
    BY <1>1, <1>8, <1>9, <1>10, <1>11, <1>12 DEF LedgerInv, KeptInv
  <1>15. OnceInv'
    <2>1. OneAnswer'
      BY <1>10 DEF OneAnswer
    <2>2. Fresh => Fresh'
      BY <1>5, <1>8, <1>9, <1>11 DEF Fresh
    <2> QED BY <1>12, <2>1, <2>2 DEF LedgerInv, OnceInv
  <1>16. MoneyInv'
    <2> SUFFICES ASSUME mishap' = {}
                 PROVE  Reported'
      BY DEF MoneyInv
    <2>1. Reported /\ ~won /\ mem.transactions = {}
      BY <1>12 DEF LedgerInv, MoneyInv
    <2>2. disk.money = booked["transactions"] /\ booked["transactions"] \in Nat /\ remote.money \in Nat
      BY <2>1, AccountFields DEF Reported
    <2>3. remote.money = booked["transactions"]
      BY <2>1, <2>2, FS_EmptySet DEF Reported
    <2>4. \A q \in Transactions : requests[q].place \in {"sent", "gone"} => requests[q].items = {}
      BY <2>1, UnderWayIs DEF Reported
    <2>5. \A q \in Transactions' : requests'[q].place = "gone" => requests'[q].items = {}
      BY <1>5, <1>8, <2>4
    <2>6. Cardinality(mem'.transactions) = 0
      BY <1>9, FS_EmptySet
    <2>7. mem'.money = booked'["transactions"] + IF won' THEN 1 ELSE 0
      BY <1>1, <1>9, <2>2
    <2>8. remote'.money + Cardinality(mem'.transactions) = booked'["transactions"]
      BY <1>1, <2>2, <2>3, <2>6
    <2>9. disk'.money = mem'.money
      BY <1>1, <1>9
    <2> QED BY <1>10, <2>5, <2>7, <2>8, <2>9 DEF Reported
  <1> QED BY <1>7, <1>13, <1>14, <1>15, <1>16 DEF LedgerInv

\* A step that changes nothing.
LEMMA LedgerStutters ==
  ASSUME LedgerTypeOK, LedgerInv, UNCHANGED ledger
  PROVE  LedgerTypeOK' /\ LedgerInv'
  <1>1. /\ mem' = mem /\ disk' = disk /\ booked' = booked /\ won' = won /\ requests' = requests
        /\ buffer' = buffer /\ remote' = remote /\ restarts' = restarts /\ mishap' = mishap
    BY DEF ledger
  <1>2. LedgerTypeOK'
    BY <1>1 DEF LedgerTypeOK
  <1>3. Transactions' = Transactions /\ \A r \in Transactions : requests'[r] = requests[r]
    BY <1>1 DEF Transactions
  <1> QED BY <1>1, <1>2, <1>3, Elsewhere

(***************************************************************************)
(* The account is what LedgerInv says in every state, for any number of    *)
(* transactions, requests and restarts.                                    *)
(***************************************************************************)
THEOREM LedgerInvariant ==
  ASSUME LedgerAssumption
  PROVE  LedgerSpec => [](LedgerTypeOK /\ LedgerInv)
  <1>1. LedgerInit => LedgerTypeOK /\ LedgerInv
    BY LedgerStarts
  <1>2. LedgerTypeOK /\ LedgerInv /\ [LedgerNext]_ledger => (LedgerTypeOK /\ LedgerInv)'
    <2> SUFFICES ASSUME LedgerTypeOK, LedgerInv, [LedgerNext]_ledger
                 PROVE  LedgerTypeOK' /\ LedgerInv'
      OBVIOUS
    <2>1. CASE PayDuel
      BY <2>1, PayDuelKeeps
    <2>2. CASE BookDuel
      BY <2>2, BookDuelKeeps
    <2>3. CASE DailyMoney
      BY <2>3, DailyMoneyKeeps
    <2>4. CASE Authorized
      BY <2>4, AuthorizedKeeps
    <2>5. CASE Relaunch
      BY <2>5, RelaunchKeeps
    <2>6. ASSUME NEW r \in DOMAIN requests, Answering(r)
          PROVE  LedgerTypeOK' /\ LedgerInv'
      BY <2>6, ServeKeeps, ReceiveDataKeeps, FinishLoadingKeeps, FailKeeps DEF Answering
    <2>7. CASE UNCHANGED ledger
      BY <2>7, LedgerStutters
    <2> QED BY <2>1, <2>2, <2>3, <2>4, <2>5, <2>6, <2>7 DEF LedgerNext
  <1> QED BY <1>1, <1>2, PTL DEF LedgerSpec

(***************************************************************************)
(* No transaction is lost but by a restart or by booking during a request, *)
(* and none is counted twice but by a failure or an overlap.               *)
(***************************************************************************)
THEOREM TransactionsKeptHolds ==
  ASSUME LedgerAssumption
  PROVE  LedgerSpec => []TransactionsKept
  <1>1. LedgerTypeOK /\ LedgerInv => TransactionsKept
    BY DEF LedgerInv, KeptInv, OnceInv, Fresh, TransactionsKept, NothingForgotten, CountedOnce
  <1> QED BY <1>1, LedgerInvariant, PTL

(***************************************************************************)
(* Without a mishap the player has what was earned, and with nothing       *)
(* pending memory, disk and server agree.                                  *)
(***************************************************************************)
THEOREM MoneyAgreesHolds ==
  ASSUME LedgerAssumption
  PROVE  LedgerSpec => []MoneyAgrees
  <1>1. LedgerTypeOK /\ LedgerInv => MoneyAgrees
    <2> SUFFICES ASSUME LedgerTypeOK, Reported
                 PROVE  /\ mem.money = booked.transactions + IF won THEN 1 ELSE 0
                        /\ (mem.transactions = {} /\ UnderWay("transactions") = {} /\ ~won) =>
                             mem.money = remote.money /\ disk.money = remote.money
      BY DEF LedgerInv, MoneyInv, MoneyAgrees
    <2>1. booked["transactions"] \in Nat /\ remote.money \in Nat
      BY DEF LedgerTypeOK, Kinds
    <2> QED BY <2>1, FS_EmptySet DEF Reported
  <1> QED BY <1>1, LedgerInvariant, PTL

-----------------------------------------------------------------------------
(***************************************************************************)
(* The two side by side, as MCServices has them: neither disturbs what the *)
(* other keeps.                                                            *)
(***************************************************************************)
THEOREM ServicesHoldAlways ==
  ASSUME LifecycleAssumption, LedgerAssumption
  PROVE  Services => []ServicesHold
  <1>1. [Moves]_services => [Next]_vars /\ [LedgerNext]_ledger
    BY DEF Moves, OfServer, OfAccount, services
  <1>2. Services => Spec
    BY <1>1, PTL DEF Services, Begins, Spec
  <1>3. Services => LedgerSpec
    BY <1>1, PTL DEF Services, Begins, LedgerSpec
  <1>4. TypeOK /\ LifecycleInv /\ CallerNotListed /\ LedgerTypeOK /\ LedgerInv => ServicesHold
    BY DEF ServicesHold
  <1> QED BY <1>2, <1>3, <1>4, LifecycleInvariant, CallerNotListedHolds, LedgerInvariant, PTL
==============================================================================
