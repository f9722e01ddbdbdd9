---------------------------- MODULE TcpServerProofs ----------------------------
(***************************************************************************)
(* Proofs about TcpServer and its connections, for any number of threads   *)
(* and connections.                                                        *)
(***************************************************************************)
EXTENDS TcpServer, TcpConnectionProofs
-----------------------------------------------------------------------------
(* The functors that move a connection from one phase of its life to the   *)
(* next, and those that only use it.                                       *)
LifeFns == {"connectEstablished", "removeConnectionInLoop", "connectDestroyed"}
UseFns == {"forceCloseInLoop", "sendInLoop"}
FunctorType == [fn : LifeFns \cup UseFns, c : Conns]

Queued(l) == Entries(pending[l]) \cup Entries(batch[l])
Life(c) == {fn \in LifeFns : \E l \in Loops : Functor(fn, c) \in Queued(l)}

ServerTypeOK ==
    /\ nextConnId_ \in 1..(MaxConns + 1)
    /\ next_ \in Nat /\ (NumThreads # 0 => next_ < NumThreads)
    /\ connections_ \subseteq Created
    /\ con \in [Conns -> Conn]
    /\ loopOf \in [Conns -> Loops]
    /\ pending \in [Loops -> Seq(FunctorType)]
    /\ batch \in [Loops -> Seq(FunctorType)]
    /\ active \in [Loops -> SUBSET (Conns \cup {Acceptor})]
    /\ lpc \in [Loops -> {"poll", "handle", "run", "done"}]

(* The server is not destroyed, and the only call of another thread is a   *)
(* send on a connection that has come up.                                  *)
Undisturbed ==
    /\ server = "running"
    /\ \A l \in Loops : quit_[l] = FALSE
    /\ ucall # NoCall =>
           ucall.op = "send" /\ ucall.c \in Created /\ con[ucall.c].ups = 1

(* Functors of a connection are in its own loop's queue, but for the one   *)
(* that asks loop 0 to remove it.                                          *)
Placed ==
    \A l \in Loops : \A f \in Queued(l) :
        /\ f.c \in Created
        /\ f.fn = "removeConnectionInLoop" => l = Base
        /\ f.fn # "removeConnectionInLoop" => loopOf[f.c] = l
        /\ f.fn \in UseFns => con[f.c].ups = 1

(* No functor of a connection's life is queued twice.                      *)
OnceInBoth(p, b) ==
    /\ Once(p, LifeFns) /\ Once(b, LifeFns)
    /\ \A f \in Entries(p) \cap Entries(b) : f.fn \notin LifeFns
QueuedOnce == \A l \in Loops : OnceInBoth(pending[l], batch[l])

(* Where the loops are.                                                    *)
LoopPhases ==
    \A l \in Loops :
        /\ lpc[l] # "run" => batch[l] = <<>>
        /\ lpc[l] # "handle" => active[l] = {}
        /\ Acceptor \in active[l] => l = Base /\ nextConnId_ <= MaxConns
        /\ \A c \in active[l] \ {Acceptor} :
               c \in Created /\ loopOf[c] = l /\ Open(con[c])

(* The phases of a connection's life.                                      *)
Born(c) == con[c] = NewConn /\ c \in connections_ /\ Life(c) = {"connectEstablished"}
Living(c) ==
    /\ Open(con[c]) /\ c \in connections_ /\ Life(c) = {}
    /\ Stuck(con[c]) => Functor("forceCloseInLoop", c) \in Queued(loopOf[c])
Closing(c) == Down(con[c]) /\ c \in connections_ /\ Life(c) = {"removeConnectionInLoop"}
Closed(c) == Down(con[c]) /\ c \notin connections_ /\ Life(c) = {"connectDestroyed"}
Gone(c) == Dead(con[c]) /\ c \notin connections_ /\ Life(c) = {}

Phases ==
    \A c \in Conns :
        /\ con[c].post = "none"
        /\ c \notin Created => con[c] = NewConn
        /\ c \in Created => Born(c) \/ Living(c) \/ Closing(c) \/ Closed(c) \/ Gone(c)

LifeInv ==
    ServerTypeOK /\ Undisturbed /\ Placed /\ QueuedOnce /\ LoopPhases /\ Phases
-----------------------------------------------------------------------------
(* Queues.                                                                 *)

(* What is queued while loop l runs its next functor, before anything is   *)
(* posted.                                                                 *)
Left(l) == Entries(pending[l]) \cup Entries(batch'[l])

LEMMA FunctorTaken ==
    ASSUME ServerTypeOK, QueuedOnce, NEW l \in Loops, batch[l] # <<>>,
           batch' = [batch EXCEPT ![l] = Tail(@)]
    PROVE  /\ batch' \in [Loops -> Seq(FunctorType)]
           /\ Head(batch[l]) \in FunctorType /\ Head(batch[l]) \in Queued(l)
           /\ \A k \in Loops : OnceInBoth(pending[k], batch'[k])
           /\ \A k \in Loops \ {l} : Left(k) = Queued(k) /\ batch'[k] = batch[k]
           /\ Left(l) \subseteq Queued(l)
           /\ \A f : f # Head(batch[l]) => (f \in Left(l) <=> f \in Queued(l))
           /\ Head(batch[l]).fn \in LifeFns => Head(batch[l]) \notin Left(l)
  <1> DEFINE h == Head(batch[l])
  <1>1. batch[l] \in Seq(FunctorType)
    BY DEF ServerTypeOK
  <1>2. /\ Tail(batch[l]) \in Seq(FunctorType) /\ h \in FunctorType
        /\ Entries(batch[l]) = Entries(Tail(batch[l])) \cup {h}
        /\ Once(batch[l], LifeFns) =>
              /\ Once(Tail(batch[l]), LifeFns)
              /\ h.fn \in LifeFns => h \notin Entries(Tail(batch[l]))
    BY <1>1, TailEntries
  <1>3. /\ batch' \in [Loops -> Seq(FunctorType)]
        /\ batch'[l] = Tail(batch[l]) /\ \A k \in Loops \ {l} : batch'[k] = batch[k]
    BY <1>2 DEF ServerTypeOK
  <1> HIDE DEF h
  <1>4. OnceInBoth(pending[l], batch[l])
    BY DEF QueuedOnce
  <1>5. OnceInBoth(pending[l], batch'[l])
    BY <1>2, <1>3, <1>4 DEF OnceInBoth
  <1>6. \A k \in Loops : OnceInBoth(pending[k], batch'[k])
    BY <1>3, <1>5 DEF QueuedOnce
  <1>7. h.fn \in LifeFns => h \notin Left(l)
    BY <1>2, <1>3, <1>4 DEF OnceInBoth, Left
  <1>8. /\ h \in Queued(l) /\ Left(l) \subseteq Queued(l)
        /\ \A f : f # h => (f \in Left(l) <=> f \in Queued(l))
    BY <1>2, <1>3 DEF Left, Queued
  <1>9. \A k \in Loops \ {l} : Left(k) = Queued(k)
    BY <1>3 DEF Left, Queued
  <1> QED
    BY <1>2, <1>3, <1>6, <1>7, <1>8, <1>9 DEF h

LEMMA NothingTaken ==
    ASSUME QueuedOnce, batch' = batch
    PROVE  \A k \in Loops : Left(k) = Queued(k) /\ OnceInBoth(pending[k], batch'[k])
  BY DEF Left, Queued, QueuedOnce

LEMMA FunctorPosted ==
    ASSUME pending \in [Loops -> Seq(FunctorType)],
           \A k \in Loops : OnceInBoth(pending[k], batch'[k]),
           NEW m \in Loops, NEW g \in FunctorType, QueueInLoop(m, g),
           g \notin Left(m) \/ g.fn \notin LifeFns
    PROVE  /\ pending' \in [Loops -> Seq(FunctorType)]
           /\ QueuedOnce'
           /\ \A k \in Loops \ {m} : Queued(k)' = Left(k)
           /\ Queued(m)' = Left(m) \cup {g}
  <1>1. pending[m] \in Seq(FunctorType) /\ OnceInBoth(pending[m], batch'[m])
    OBVIOUS
  <1>2. /\ Append(pending[m], g) \in Seq(FunctorType)
        /\ Entries(Append(pending[m], g)) = Entries(pending[m]) \cup {g}
        /\ Once(pending[m], LifeFns) /\ (g \notin Entries(pending[m]) \/ g.fn \notin LifeFns)
              => Once(Append(pending[m], g), LifeFns)
    BY <1>1, AppendEntries
  <1>3. /\ pending' \in [Loops -> Seq(FunctorType)]
        /\ pending'[m] = Append(pending[m], g)
        /\ \A k \in Loops \ {m} : pending'[k] = pending[k]
    BY <1>2 DEF QueueInLoop
  <1>4. OnceInBoth(pending'[m], batch'[m])
    BY <1>1, <1>2, <1>3 DEF OnceInBoth, Left
  <1>5. QueuedOnce'
    BY <1>3, <1>4 DEF QueuedOnce
  <1>6. /\ \A k \in Loops \ {m} : Queued(k)' = Left(k)
        /\ Queued(m)' = Left(m) \cup {g}
    BY <1>2, <1>3 DEF Queued, Left
  <1> QED
    BY <1>3, <1>5, <1>6

LEMMA NothingPosted ==
    ASSUME \A k \in Loops : OnceInBoth(pending[k], batch'[k]), pending' = pending
    PROVE  QueuedOnce' /\ \A k \in Loops : Queued(k)' = Left(k)
  BY DEF QueuedOnce, Queued, Left
-----------------------------------------------------------------------------
(* Commit: the connection's new value, and what becomes of its posting.    *)
LEMMA CommitCases ==
    ASSUME NEW c \in Conns, NEW k \in Conn, Commit(c, k),
           k.post = "removeConnection" /\ loopOf[c] = Base => c \in connections_
    PROVE  /\ con' = [con EXCEPT ![c] = Cleared(k)]
           /\ k.post = "none" => UNCHANGED <<connections_, pending>>
           /\ k.post = "forceCloseInLoop" =>
                 /\ UNCHANGED connections_
                 /\ QueueInLoop(loopOf[c], Functor("forceCloseInLoop", c))
           /\ k.post = "removeConnection" /\ loopOf[c] = Base =>
                 /\ connections_' = connections_ \ {c}
                 /\ QueueInLoop(Base, Functor("connectDestroyed", c))
           /\ k.post = "removeConnection" /\ loopOf[c] # Base =>
                 /\ UNCHANGED connections_
                 /\ QueueInLoop(Base, Functor("removeConnectionInLoop", c))
  <1>1. k.post \in {"none", "removeConnection", "forceCloseInLoop"}
    BY DEF Conn
  <1>2. Assert(k, k.post = "removeConnection" /\ loopOf[c] = Base => c \in connections_,
               "removeConnectionInLoop") = k
    BY DEF Assert
  <1>3. con' = [con EXCEPT ![c] = Cleared(k)]
    BY <1>2 DEF Commit, Cleared
  <1>4. CASE k.post = "none"
    BY <1>3, <1>4 DEF Commit
  <1>5. CASE k.post = "forceCloseInLoop"
    BY <1>3, <1>5 DEF Commit
  <1>6. CASE k.post = "removeConnection"
    BY <1>3, <1>6 DEF Commit
  <1> QED
    BY <1>1, <1>4, <1>5, <1>6

(* A step that concerns connection c alone.                                *)
OnlyTouches(c) ==
    /\ \A d \in Conns \ {c} : /\ con'[d] = con[d] /\ loopOf'[d] = loopOf[d]
                              /\ d \in connections_' <=> d \in connections_
                              /\ d \in Created' <=> d \in Created
    /\ \A l \in Loops : \A f \in FunctorType :
           f.c # c => (f \in Queued(l)' <=> f \in Queued(l))

InPhase(c) == Born(c) \/ Living(c) \/ Closing(c) \/ Closed(c) \/ Gone(c)

LEMMA FunctorFields ==
    ASSUME NEW fn \in LifeFns \cup UseFns, NEW c \in Conns
    PROVE  /\ Functor(fn, c) \in FunctorType
           /\ Functor(fn, c).fn = fn /\ Functor(fn, c).c = c
  BY DEF Functor, FunctorType

LEMMA FunctorIsItself ==
    ASSUME NEW f \in FunctorType
    PROVE  f = Functor(f.fn, f.c) /\ f.fn \in LifeFns \cup UseFns /\ f.c \in Conns
  BY DEF Functor, FunctorType

(* ... leaves every other connection in its phase.                         *)
LEMMA OthersKeepPhase ==
    ASSUME ServerTypeOK, Phases, NEW c \in Conns, OnlyTouches(c), NEW d \in Conns \ {c}
    PROVE  /\ con'[d].post = "none"
           /\ d \notin Created' => con'[d] = NewConn
           /\ d \in Created' => InPhase(d)'
  <1>1. /\ con'[d] = con[d] /\ loopOf'[d] = loopOf[d]
        /\ d \in connections_' <=> d \in connections_
        /\ d \in Created' <=> d \in Created
    BY DEF OnlyTouches
  <1>2. \A fn \in LifeFns \cup UseFns : \A l \in Loops :
           Functor(fn, d) \in Queued(l)' <=> Functor(fn, d) \in Queued(l)
    BY FunctorFields DEF OnlyTouches
  <1>3. Life(d)' = Life(d)
    BY <1>2 DEF Life
  <1>4. \A l \in Loops : Functor("forceCloseInLoop", d) \in Queued(l)'
                            <=> Functor("forceCloseInLoop", d) \in Queued(l)
    BY <1>2 DEF UseFns
  <1>5. CASE d \notin Created
    BY <1>1, <1>5 DEF Phases
  <1>6. CASE d \in Created
    <2>1. con[d].post = "none" /\ InPhase(d)
      BY <1>6 DEF Phases, InPhase
    <2>2. CASE Born(d) \/ Closing(d) \/ Closed(d) \/ Gone(d)
      BY <2>1, <2>2, <1>1, <1>3, <1>6 DEF InPhase, Born, Closing, Closed, Gone
    <2>3. CASE Living(d)
      <3>1. PICK m \in Loops : m = loopOf[d]
        BY DEF ServerTypeOK
      <3>2. Stuck(con[d]) => Functor("forceCloseInLoop", d) \in Queued(m)'
        BY <2>3, <3>1, <1>4 DEF Living
      <3>3. Queued(loopOf[d])' = Queued(m)'
        BY <3>1, <1>1 DEF Queued
      <3> QED
        BY <2>1, <2>3, <3>2, <3>3, <1>1, <1>3, <1>6 DEF InPhase, Living
    <2> QED
      BY <2>1, <2>2, <2>3 DEF InPhase
  <1> QED
    BY <1>5, <1>6

LEMMA CreatedTyped ==
    ASSUME ServerTypeOK
    PROVE  Created \subseteq Conns /\ MaxConns \in Nat /\ NumThreads \in Nat /\ Base \in Loops
  BY BoundsAssumption DEF ServerTypeOK, Created, Conns, Loops, Base

(* The functors left of the queues, and what is posted, keep their places. *)
LEMMA StillPlaced ==
    ASSUME Placed, UNCHANGED <<loopOf, nextConnId_>>,
           \A d \in Conns : con[d].ups = 1 => con'[d].ups = 1,
           Created \subseteq Conns, NEW m \in Loops, NEW g,
           \A l \in Loops : Left(l) \subseteq Queued(l),
           \A l \in Loops \ {m} : Queued(l)' \subseteq Left(l),
           Queued(m)' \subseteq Left(m) \cup {g},
           g \in Queued(m)' =>
              /\ g.c \in Created
              /\ g.fn = "removeConnectionInLoop" => m = Base
              /\ g.fn # "removeConnectionInLoop" => loopOf[g.c] = m
              /\ g.fn \in UseFns => con'[g.c].ups = 1
    PROVE  Placed'
  <1> SUFFICES ASSUME NEW l \in Loops, NEW f \in Queued(l)'
               PROVE  /\ f.c \in Created'
                      /\ f.fn = "removeConnectionInLoop" => l = Base
                      /\ f.fn # "removeConnectionInLoop" => loopOf'[f.c] = l
                      /\ f.fn \in UseFns => con'[f.c].ups = 1
    BY DEF Placed
  <1>1. Created' = Created
    BY DEF Created
  <1>2. CASE f \in Left(l)
    BY <1>1, <1>2 DEF Placed
  <1>3. CASE l = m /\ f = g
    BY <1>1, <1>3
  <1> QED
    BY <1>2, <1>3

(* A connection in the map with no functor of its life left in the queues: *)
(* its new value is committed, and it lives on or begins to close.         *)
LEMMA CommitLiving ==
    ASSUME LifeInv, NEW c \in Created, c \in connections_, UNCHANGED <<loopOf, nextConnId_>>,
           \A l \in Loops : OnceInBoth(pending[l], batch'[l]) /\ Left(l) \subseteq Queued(l),
           \A l \in Loops : \A f \in FunctorType : f.c # c => (f \in Left(l) <=> f \in Queued(l)),
           \A l \in Loops : \A fn \in LifeFns : Functor(fn, c) \notin Left(l),
           NEW k \in Conn, Commit(c, k),
           \/ /\ Open(k) /\ k.post \in {"none", "forceCloseInLoop"}
              /\ Stuck(k) => \/ k.post = "forceCloseInLoop"
                             \/ Functor("forceCloseInLoop", c) \in Left(loopOf[c])
           \/ Down(k) /\ k.post = "removeConnection"
    PROVE  /\ con' \in [Conns -> Conn] /\ pending' \in [Loops -> Seq(FunctorType)]
           /\ connections_' \subseteq Created' /\ QueuedOnce' /\ Placed' /\ Phases'
           /\ con'[c].ups = 1 /\ \A d \in Conns \ {c} : con'[d] = con[d]
  <1> USE DEF LifeInv
  <1>1. /\ c \in Conns /\ Created' = Created /\ loopOf[c] \in Loops /\ Base \in Loops
        /\ pending \in [Loops -> Seq(FunctorType)] /\ Created \subseteq Conns
    BY CreatedTyped DEF ServerTypeOK, Created
  <1>2. PICK m \in Loops : m = loopOf[c]
    BY <1>1
  <1>3. /\ con' = [con EXCEPT ![c] = Cleared(k)]
        /\ k.post = "none" => UNCHANGED <<connections_, pending>>
        /\ k.post = "forceCloseInLoop" =>
              /\ UNCHANGED connections_
              /\ QueueInLoop(m, Functor("forceCloseInLoop", c))
        /\ k.post = "removeConnection" /\ m = Base =>
              /\ connections_' = connections_ \ {c}
              /\ QueueInLoop(Base, Functor("connectDestroyed", c))
        /\ k.post = "removeConnection" /\ m # Base =>
              /\ UNCHANGED connections_
              /\ QueueInLoop(Base, Functor("removeConnectionInLoop", c))
    BY <1>1, <1>2, CommitCases
  <1>4. /\ con' \in [Conns -> Conn] /\ con'[c] = Cleared(k)
        /\ \A d \in Conns \ {c} : con'[d] = con[d]
        /\ con'[c].ups = 1 /\ con'[c].post = "none"
        /\ Stuck(con'[c]) <=> Stuck(k)
        /\ Open(k) => Open(con'[c])
        /\ Down(k) => Down(con'[c])
    <2>1. con \in [Conns -> Conn]
      BY DEF ServerTypeOK
    <2>2. /\ Cleared(k) \in Conn /\ Cleared(k).post = "none" /\ Cleared(k).ups = k.ups
          /\ Open(k) => Open(Cleared(k))
          /\ Down(k) => Down(Cleared(k))
          /\ Stuck(Cleared(k)) <=> Stuck(k)
      BY ClearedSame
    <2>3. k.ups = 1
      BY DEF Open, Down, Shut
    <2>4. /\ con' \in [Conns -> Conn] /\ con'[c] = Cleared(k)
          /\ \A d \in Conns \ {c} : con'[d] = con[d]
      BY <1>1, <1>3, <2>1, <2>2
    <2> QED
      BY <2>2, <2>3, <2>4
  <1>5. connections_' \subseteq Created' /\ \A d \in Conns \ {c} : d \in connections_' <=> d \in connections_
    BY <1>1, <1>3 DEF ServerTypeOK, Conn
  <1>6. \A d \in Conns : con[d].ups = 1 => con'[d].ups = 1
    BY <1>4
  <1>7. ASSUME pending' \in [Loops -> Seq(FunctorType)], QueuedOnce', Placed', OnlyTouches(c),
               Living(c)' \/ Closing(c)' \/ Closed(c)'
        PROVE  pending' \in [Loops -> Seq(FunctorType)] /\ QueuedOnce' /\ Placed' /\ Phases'
    <2>1. \A d \in Conns \ {c} : /\ con'[d].post = "none"
                                 /\ d \notin Created' => con'[d] = NewConn
                                 /\ d \in Created' => InPhase(d)'
      BY <1>1, <1>7, OthersKeepPhase
    <2>2. con'[c].post = "none" /\ c \in Created' /\ InPhase(c)'
      BY <1>1, <1>4, <1>7 DEF InPhase
    <2> QED
      BY <1>7, <2>1, <2>2 DEF Phases, InPhase
  <1>8. ASSUME NEW n \in Loops, NEW g \in FunctorType, g.c = c,
               \A l \in Loops \ {n} : Queued(l)' = Left(l),
               Queued(n)' = Left(n) \/ Queued(n)' = Left(n) \cup {g}
        PROVE  OnlyTouches(c)
    <2>1. \A d \in Conns \ {c} : /\ con'[d] = con[d] /\ loopOf'[d] = loopOf[d]
                                 /\ d \in connections_' <=> d \in connections_
                                 /\ d \in Created' <=> d \in Created
      BY <1>1, <1>4, <1>5
    <2>2. ASSUME NEW l \in Loops, NEW f \in FunctorType, f.c # c
          PROVE  f \in Queued(l)' <=> f \in Queued(l)
      <3>1. f \in Left(l) <=> f \in Queued(l)
        BY <2>2
      <3>2. f # g
        BY <2>2, <1>8
      <3>3. f \in Queued(l)' <=> f \in Left(l)
        BY <3>2, <1>8
      <3> QED
        BY <3>1, <3>3
    <2> QED
      BY <2>1, <2>2 DEF OnlyTouches
  <1>9. Queued(loopOf[c])' = Queued(m)'
    BY <1>2 DEF Queued
  <1>10. CASE k.post = "none"
    <2>1. QueuedOnce' /\ \A l \in Loops : Queued(l)' = Left(l)
      BY <1>3, <1>10, NothingPosted
    <2>2. Functor("forceCloseInLoop", c) \in FunctorType /\ Functor("forceCloseInLoop", c).c = c
      BY <1>1, FunctorFields DEF UseFns
    <2>3. Life(c)' = {}
      BY <2>1 DEF Life
    <2>4. Living(c)'
      BY <1>2, <1>3, <1>4, <1>9, <1>10, <2>1, <2>3 DEF Living
    <2>5. Placed'
      <3>1. \A l \in Loops : \A f \in Queued(l)' :
               /\ f.c \in Created
               /\ f.fn = "removeConnectionInLoop" => l = Base
               /\ f.fn # "removeConnectionInLoop" => loopOf'[f.c] = l
               /\ f.fn \in UseFns => con[f.c].ups = 1
        BY <2>1 DEF Placed
      <3> QED
        BY <3>1, <1>1, <1>6 DEF Placed
    <2>6. OnlyTouches(c)
      BY <2>1, <2>2, <1>8, <1>2
    <2> QED
      BY <1>1, <1>3, <1>4, <1>5, <1>7, <1>10, <2>1, <2>4, <2>5, <2>6
  <1>11. CASE k.post = "forceCloseInLoop"
    <2> DEFINE g == Functor("forceCloseInLoop", c)
    <2>1. /\ g \in FunctorType /\ g.c = c /\ g.fn = "forceCloseInLoop"
          /\ g.fn \in UseFns /\ g.fn \notin LifeFns
      BY <1>1, FunctorFields DEF UseFns, LifeFns
    <2>2. /\ pending' \in [Loops -> Seq(FunctorType)] /\ QueuedOnce'
          /\ \A l \in Loops \ {m} : Queued(l)' = Left(l)
          /\ Queued(m)' = Left(m) \cup {g}
      BY <1>1, <1>3, <1>11, <2>1, FunctorPosted
    <2>3. Life(c)' = {}
      <3>1. \A fn \in LifeFns : Functor(fn, c) # g
        BY <1>1, <2>1, FunctorFields
      <3> HIDE DEF g
      <3> QED
        BY <2>2, <3>1 DEF Life
    <2>4. Living(c)'
      BY <1>3, <1>4, <1>9, <1>11, <2>2, <2>3 DEF Living
    <2> HIDE DEF g
    <2>5. Placed'
      <3>1. /\ \A l \in Loops \ {m} : Queued(l)' \subseteq Left(l)
            /\ Queued(m)' \subseteq Left(m) \cup {g}
            /\ \A l \in Loops : Left(l) \subseteq Queued(l)
        BY <2>2
      <3>2. /\ g.c \in Created
            /\ g.fn = "removeConnectionInLoop" => m = Base
            /\ g.fn # "removeConnectionInLoop" => loopOf[g.c] = m
            /\ g.fn \in UseFns => con'[g.c].ups = 1
        BY <2>1, <1>2, <1>4
      <3> QED
        BY <3>1, <3>2, <1>1, <1>6, StillPlaced
    <2>6. OnlyTouches(c)
      BY <2>1, <2>2, <1>8
    <2> QED
      BY <1>4, <1>5, <1>7, <2>2, <2>4, <2>5, <2>6
  <1>12. CASE k.post = "removeConnection"
    <2> DEFINE fn0 == IF m = Base THEN "connectDestroyed" ELSE "removeConnectionInLoop"
               g == Functor(fn0, c)
    <2>1. fn0 \in LifeFns
      BY DEF LifeFns
    <2>2. /\ g \in FunctorType /\ g.c = c /\ g.fn = fn0 /\ g \notin Left(Base)
      BY <1>1, <2>1, FunctorFields
    <2>3. QueueInLoop(Base, g)
      BY <1>3, <1>12
    <2>4. /\ pending' \in [Loops -> Seq(FunctorType)] /\ QueuedOnce'
          /\ \A l \in Loops \ {Base} : Queued(l)' = Left(l)
          /\ Queued(Base)' = Left(Base) \cup {g}
      BY <1>1, <2>2, <2>3, FunctorPosted
    <2>5. Life(c)' = {fn0}
      <3>1. \A fn \in LifeFns : Functor(fn, c) = g => fn = fn0
        BY <1>1, <2>2, FunctorFields
      <3>2. g = Functor(fn0, c)
        OBVIOUS
      <3> HIDE DEF g, fn0
      <3> QED
        <4>1. ASSUME NEW fn \in LifeFns, NEW l \in Loops, Functor(fn, c) \in Queued(l)'
              PROVE  fn = fn0
          BY <4>1, <2>4, <3>1
        <4>2. g \in Queued(Base)'
          BY <2>4
        <4>3. Life(c)' \subseteq {fn0}
          BY <4>1 DEF Life
        <4>4. fn0 \in Life(c)'
          BY <1>1, <2>1, <3>2, <4>2 DEF Life
        <4> QED
          BY <4>3, <4>4
    <2>6. Closing(c)' \/ Closed(c)'
      BY <1>3, <1>4, <1>12, <2>5 DEF Closing, Closed, Open
    <2>7. g.fn # "removeConnectionInLoop" => m = Base
      BY <2>2
    <2>8. g.fn \notin UseFns
      BY <2>1, <2>2 DEF LifeFns, UseFns
    <2> HIDE DEF g, fn0
    <2>9. Placed'
      <3>1. /\ \A l \in Loops \ {Base} : Queued(l)' \subseteq Left(l)
            /\ Queued(Base)' \subseteq Left(Base) \cup {g}
            /\ \A l \in Loops : Left(l) \subseteq Queued(l)
        BY <2>4
      <3>2. /\ g.c \in Created
            /\ g.fn = "removeConnectionInLoop" => Base = Base
            /\ g.fn # "removeConnectionInLoop" => loopOf[g.c] = Base
            /\ g.fn \in UseFns => con'[g.c].ups = 1
        BY <2>2, <2>7, <2>8, <1>2
      <3> QED
        BY <3>1, <3>2, <1>1, <1>6, StillPlaced
    <2>10. OnlyTouches(c)
      BY <1>1, <2>2, <2>4, <1>8
    <2> QED
      BY <1>4, <1>5, <1>7, <2>4, <2>6, <2>9, <2>10
  <1> QED
    BY <1>10, <1>11, <1>12 DEF Conn
-----------------------------------------------------------------------------
(* A step of loop l's thread on connection c: what remains to show is what *)
(* became of the connection and of the queues.                             *)
LEMMA LoopStepKeeps ==
    ASSUME LifeInv, NEW l \in Loops, NEW c \in Created, loopOf[c] = l \/ con' = con,
           UNCHANGED <<nextConnId_, next_, server, loopOf, lpc, quit_, ucall>>,
           con' \in [Conns -> Conn], con[c].ups = 1 => con'[c].ups = 1,
           \A d \in Conns \ {c} : con'[d] = con[d],
           pending' \in [Loops -> Seq(FunctorType)], batch' \in [Loops -> Seq(FunctorType)],
           lpc[l] # "run" => batch'[l] = batch[l],
           active' \in [Loops -> SUBSET (Conns \cup {Acceptor})],
           active'[l] \subseteq active[l] \ {c},
           \A m \in Loops \ {l} : active'[m] = active[m] /\ batch'[m] = batch[m],
           connections_' \subseteq Created', QueuedOnce', Placed', Phases'
    PROVE  LifeInv'
  <1>1. /\ ServerTypeOK /\ Undisturbed /\ LoopPhases
        /\ Created \subseteq Conns /\ Created' = Created
    BY CreatedTyped DEF LifeInv, Created
  <1>2. ServerTypeOK'
    BY <1>1 DEF ServerTypeOK
  <1>3. Undisturbed'
    <2>1. server' = "running" /\ \A m \in Loops : quit_'[m] = FALSE
      BY <1>1 DEF Undisturbed
    <2>2. ASSUME ucall # NoCall
          PROVE  ucall.op = "send" /\ ucall.c \in Created /\ con'[ucall.c].ups = 1
      <3>1. ucall.op = "send" /\ ucall.c \in Created /\ con[ucall.c].ups = 1
        BY <1>1, <2>2 DEF Undisturbed
      <3> QED
        BY <1>1, <3>1
    <2>3. ucall' # NoCall' => ucall' # NoCall
      BY DEF NoCall
    <2> QED
      BY <1>1, <2>1, <2>2, <2>3 DEF Undisturbed
  <1>4. LoopPhases'
    <2> SUFFICES ASSUME NEW m \in Loops
                 PROVE  /\ lpc'[m] # "run" => batch'[m] = <<>>
                        /\ lpc'[m] # "handle" => active'[m] = {}
                        /\ Acceptor \in active'[m] => m = Base /\ nextConnId_' <= MaxConns
                        /\ \A d \in active'[m] \ {Acceptor} :
                              d \in Created' /\ loopOf'[d] = m /\ Open(con'[d])
      BY DEF LoopPhases, Acceptor
    <2>1. /\ lpc[m] # "run" => batch[m] = <<>>
          /\ lpc[m] # "handle" => active[m] = {}
          /\ Acceptor \in active[m] => m = Base /\ nextConnId_ <= MaxConns
          /\ \A d \in active[m] \ {Acceptor} :
                 d \in Created /\ loopOf[d] = m /\ Open(con[d])
      BY <1>1 DEF LoopPhases
    <2>2. active'[m] \subseteq active[m] /\ (lpc[m] # "run" => batch'[m] = batch[m])
      OBVIOUS
    <2>3. ASSUME NEW d \in active'[m] \ {Acceptor} PROVE con'[d] = con[d]
      BY <1>1, <2>1, <2>2
    <2> QED
      BY <1>1, <2>1, <2>2, <2>3
  <1> QED
    BY <1>2, <1>3, <1>4 DEF LifeInv

(* A step on c alone, after which it is in a phase of its life.            *)
LEMMA PhaseStep ==
    ASSUME ServerTypeOK, Phases, NEW c \in Conns, OnlyTouches(c),
           con'[c].post = "none", c \in Created', InPhase(c)'
    PROVE  Phases'
  <1>1. \A d \in Conns \ {c} : /\ con'[d].post = "none"
                               /\ d \notin Created' => con'[d] = NewConn
                               /\ d \in Created' => InPhase(d)'
    BY OthersKeepPhase
  <1> QED
    BY <1>1 DEF Phases, InPhase
-----------------------------------------------------------------------------
(* Running a functor of connection c in loop l.                            *)
Running(l, c, fn) ==
    /\ lpc[l] = "run" /\ batch[l] # <<>>
    /\ Head(batch[l]).fn = fn /\ Head(batch[l]).c = c
    /\ batch' = [batch EXCEPT ![l] = Tail(@)]
    /\ UNCHANGED <<nextConnId_, next_, server, loopOf, active, lpc, quit_, ucall>>

LEMMA RunningFacts ==
    ASSUME LifeInv, NEW l \in Loops, NEW c, NEW fn, Running(l, c, fn)
    PROVE  /\ c \in Created /\ c \in Conns /\ fn \in LifeFns \cup UseFns
           /\ Created' = Created
           /\ Functor(fn, c) \in Queued(l) /\ Functor(fn, c) \in FunctorType
           /\ batch' \in [Loops -> Seq(FunctorType)]
           /\ \A m \in Loops : OnceInBoth(pending[m], batch'[m]) /\ Left(m) \subseteq Queued(m)
           /\ \A m \in Loops \ {l} : Left(m) = Queued(m) /\ batch'[m] = batch[m]
           /\ \A m \in Loops : \A f : f # Functor(fn, c) => (f \in Left(m) <=> f \in Queued(m))
           /\ fn \in LifeFns => Functor(fn, c) \notin Left(l)
           /\ fn # "removeConnectionInLoop" => loopOf[c] = l
           /\ fn = "removeConnectionInLoop" => l = Base
           /\ fn \in UseFns => con[c].ups = 1
           /\ fn \in LifeFns => fn \in Life(c)
           /\ con[c].post = "none" /\ InPhase(c)
           /\ active[l] = {}
  <1>1. ServerTypeOK /\ QueuedOnce /\ Placed /\ Phases /\ LoopPhases
    BY DEF LifeInv
  <1> DEFINE h == Head(batch[l])
  <1>2. /\ batch' \in [Loops -> Seq(FunctorType)]
        /\ h \in FunctorType /\ h \in Queued(l)
        /\ \A k \in Loops : OnceInBoth(pending[k], batch'[k])
        /\ \A k \in Loops \ {l} : Left(k) = Queued(k) /\ batch'[k] = batch[k]
        /\ Left(l) \subseteq Queued(l)
        /\ \A f : f # h => (f \in Left(l) <=> f \in Queued(l))
        /\ h.fn \in LifeFns => h \notin Left(l)
    BY <1>1, FunctorTaken DEF Running
  <1>3. h = Functor(fn, c) /\ fn \in LifeFns \cup UseFns /\ h.fn = fn /\ h.c = c
    BY <1>2, FunctorIsItself DEF Running
  <1> HIDE DEF h
  <1>4. /\ c \in Created
        /\ fn = "removeConnectionInLoop" => l = Base
        /\ fn # "removeConnectionInLoop" => loopOf[c] = l
        /\ fn \in UseFns => con[c].ups = 1
    BY <1>1, <1>2, <1>3 DEF Placed
  <1>5. c \in Conns /\ Created' = Created /\ con[c].post = "none" /\ InPhase(c)
    BY <1>1, <1>4, CreatedTyped DEF Phases, InPhase, Created, Running
  <1>6. fn \in LifeFns => fn \in Life(c)
    BY <1>2, <1>3 DEF Life
  <1>7. active[l] = {}
    BY <1>1 DEF LoopPhases, Running
  <1>8. \A m \in Loops : \A f : f # h => (f \in Left(m) <=> f \in Queued(m))
    BY <1>2
  <1>9. \A m \in Loops : OnceInBoth(pending[m], batch'[m]) /\ Left(m) \subseteq Queued(m)
    BY <1>2
  <1> QED
    BY <1>2, <1>3, <1>4, <1>5, <1>6, <1>7, <1>8, <1>9

(* connectEstablished: the connection comes up.                            *)
LEMMA RunEstablished ==
    ASSUME LifeInv, NEW l \in Loops, NEW c, Running(l, c, "connectEstablished"),
           Commit(c, ConnectEstablished(con[c]))
    PROVE  LifeInv'
  <1> DEFINE fn == "connectEstablished"
             k == ConnectEstablished(NewConn)
  <1>1. /\ c \in Created /\ c \in Conns /\ fn \in LifeFns
        /\ batch' \in [Loops -> Seq(FunctorType)]
        /\ \A m \in Loops : OnceInBoth(pending[m], batch'[m]) /\ Left(m) \subseteq Queued(m)
        /\ \A m \in Loops \ {l} : Left(m) = Queued(m) /\ batch'[m] = batch[m]
        /\ \A m \in Loops : \A f : f # Functor(fn, c) => (f \in Left(m) <=> f \in Queued(m))
        /\ Functor(fn, c) \notin Left(l) /\ Functor(fn, c) \in FunctorType
        /\ loopOf[c] = l /\ fn \in Life(c) /\ InPhase(c) /\ active[l] = {}
    BY RunningFacts DEF LifeFns
  <1>2. Born(c)
    BY <1>1 DEF InPhase, Born, Living, Closing, Closed, Gone
  <1>3. con[c] = NewConn /\ c \in connections_ /\ Life(c) = {fn}
    BY <1>2 DEF Born
  <1>4. /\ k \in Conn /\ Open(k) /\ k.post = "none" /\ ~Stuck(k) /\ Commit(c, k)
    BY <1>3, EstablishedOpens DEF Open, Stuck
  <1> HIDE DEF k, fn
  <1>5. ASSUME NEW m \in Loops, NEW x \in LifeFns PROVE Functor(x, c) \notin Left(m)
    <2>1. CASE x # fn
      BY <2>1, <1>1, <1>3 DEF Life
    <2>2. CASE x = fn /\ m = l
      BY <2>2, <1>1
    <2>3. CASE x = fn /\ m # l
      <3>1. Functor(fn, c).fn = fn /\ Functor(fn, c).c = c
        BY <1>1, FunctorFields
      <3>2. Functor(fn, c) \notin Queued(m)
        BY <2>3, <3>1, <1>1 DEF LifeInv, Placed, fn
      <3> QED
        BY <3>2, <2>3, <1>1
    <2> QED
      BY <2>1, <2>2, <2>3
  <1>6. \A m \in Loops : \A f \in FunctorType : f.c # c => (f \in Left(m) <=> f \in Queued(m))
    <2>1. Functor(fn, c).c = c
      BY <1>1, FunctorFields
    <2> QED
      BY <1>1, <2>1
  <1>7. UNCHANGED <<loopOf, nextConnId_>>
    BY DEF Running
  <1>8. /\ con' \in [Conns -> Conn] /\ pending' \in [Loops -> Seq(FunctorType)]
        /\ connections_' \subseteq Created' /\ QueuedOnce' /\ Placed' /\ Phases'
        /\ con'[c].ups = 1 /\ \A d \in Conns \ {c} : con'[d] = con[d]
    BY <1>1, <1>3, <1>4, <1>5, <1>6, <1>7, CommitLiving
  <1>9. /\ UNCHANGED <<nextConnId_, next_, server, loopOf, lpc, quit_, ucall>>
        /\ lpc[l] = "run" /\ active' = active
        /\ active \in [Loops -> SUBSET (Conns \cup {Acceptor})]
    BY DEF Running, LifeInv, ServerTypeOK
  <1> QED
    BY <1>1, <1>8, <1>9, LoopStepKeeps

(* connectDestroyed: the connection leaves its loop.                       *)
LEMMA RunDestroyed ==
    ASSUME LifeInv, NEW l \in Loops, NEW c, Running(l, c, "connectDestroyed"),
           Commit(c, ConnectDestroyed(con[c]))
    PROVE  LifeInv'
  <1> DEFINE fn == "connectDestroyed"
             k == ConnectDestroyed(con[c])
  <1>1. /\ c \in Created /\ c \in Conns /\ fn \in LifeFns /\ Created' = Created
        /\ batch' \in [Loops -> Seq(FunctorType)]
        /\ \A m \in Loops : OnceInBoth(pending[m], batch'[m]) /\ Left(m) \subseteq Queued(m)
        /\ \A m \in Loops \ {l} : Left(m) = Queued(m) /\ batch'[m] = batch[m]
        /\ \A m \in Loops : \A f : f # Functor(fn, c) => (f \in Left(m) <=> f \in Queued(m))
        /\ Functor(fn, c) \notin Left(l) /\ Functor(fn, c) \in FunctorType
        /\ loopOf[c] = l /\ fn \in Life(c) /\ InPhase(c) /\ active[l] = {}
        /\ con[c].post = "none"
    BY RunningFacts DEF LifeFns
  <1>2. Closed(c)
    BY <1>1 DEF InPhase, Born, Living, Closing, Closed, Gone
  <1>3. Down(con[c]) /\ c \notin connections_ /\ Life(c) = {fn}
    BY <1>2 DEF Closed
  <1>4. Dead(k) /\ k.post = "none" /\ k \in Conn /\ Commit(c, k)
    BY <1>1, <1>3, DestroyRemoves DEF Dead, Shut
  <1> HIDE DEF k, fn
  <1>5. con' = [con EXCEPT ![c] = k] /\ UNCHANGED <<connections_, pending>>
    BY <1>1, <1>4, CommitCases, ClearedSame
  <1>6. ServerTypeOK /\ Undisturbed /\ Placed /\ Phases /\ con \in [Conns -> Conn]
    BY DEF LifeInv, ServerTypeOK
  <1>7. /\ con' \in [Conns -> Conn] /\ con'[c] = k
        /\ \A d \in Conns \ {c} : con'[d] = con[d]
    BY <1>1, <1>4, <1>5, <1>6
  <1>8. QueuedOnce' /\ \A m \in Loops : Queued(m)' = Left(m)
    BY <1>1, <1>5, NothingPosted
  <1>9. UNCHANGED <<loopOf, nextConnId_>>
    BY DEF Running
  <1>10. Life(c)' = {}
    <2>1. ASSUME NEW m \in Loops, NEW x \in LifeFns PROVE Functor(x, c) \notin Left(m)
      <3>1. CASE x # fn
        BY <3>1, <1>1, <1>3 DEF Life
      <3>2. CASE x = fn /\ m = l
        BY <3>2, <1>1
      <3>3. CASE x = fn /\ m # l
        <4>1. Functor(fn, c).fn = fn /\ Functor(fn, c).c = c
          BY <1>1, FunctorFields
        <4>2. Functor(fn, c) \notin Queued(m)
          BY <3>3, <4>1, <1>1, <1>6 DEF Placed, fn
        <4> QED
          BY <4>2, <3>3, <1>1
      <3> QED
        BY <3>1, <3>2, <3>3
    <2> QED
      BY <2>1, <1>8 DEF Life
  <1>11. InPhase(c)'
    BY <1>3, <1>4, <1>5, <1>7, <1>10 DEF InPhase, Gone
  <1>12. OnlyTouches(c)
    <2>1. Functor(fn, c).c = c
      BY <1>1, FunctorFields
    <2>2. \A m \in Loops : \A f \in FunctorType :
             f.c # c => (f \in Queued(m)' <=> f \in Queued(m))
      BY <1>1, <1>8, <2>1
    <2> QED
      BY <2>2, <1>1, <1>5, <1>7, <1>9 DEF OnlyTouches
  <1>13. Phases'
    BY <1>1, <1>4, <1>6, <1>7, <1>11, <1>12, PhaseStep
  <1>14. con'[c].ups = 1
    BY <1>4, <1>7 DEF Dead, Shut
  <1>15. Placed'
    <2>1. ASSUME NEW m \in Loops, NEW f \in Queued(m)'
          PROVE  /\ f.c \in Created
                 /\ f.fn = "removeConnectionInLoop" => m = Base
                 /\ f.fn # "removeConnectionInLoop" => loopOf[f.c] = m
                 /\ f.fn \in UseFns => con[f.c].ups = 1
      BY <1>1, <1>6, <1>8 DEF Placed
    <2>2. Created \subseteq Conns
      BY <1>6, CreatedTyped
    <2> QED
      BY <2>1, <2>2, <1>1, <1>7, <1>9, <1>14 DEF Placed
  <1>16. connections_' \subseteq Created'
    BY <1>1, <1>5, <1>6 DEF ServerTypeOK
  <1>17. /\ UNCHANGED <<nextConnId_, next_, server, loopOf, lpc, quit_, ucall>>
         /\ lpc[l] = "run" /\ active' = active
         /\ active \in [Loops -> SUBSET (Conns \cup {Acceptor})]
         /\ pending' \in [Loops -> Seq(FunctorType)]
    BY <1>5 DEF Running, LifeInv, ServerTypeOK
  <1> QED
    BY <1>1, <1>7, <1>8, <1>13, <1>14, <1>15, <1>16, <1>17, LoopStepKeeps

(* A functor that uses the connection finds it up, or closed: in the first *)
(* case what it does is committed ...                                      *)
LEMMA RunUse ==
    ASSUME LifeInv, NEW l \in Loops, NEW c, NEW fn \in UseFns, Running(l, c, fn), Living(c),
           NEW k \in Conn, Commit(c, k),
           \/ /\ Open(k) /\ k.post = "none" /\ fn # "forceCloseInLoop"
              /\ Stuck(k) => Stuck(con[c])
           \/ Down(k) /\ k.post = "removeConnection"
    PROVE  LifeInv'
  <1>1. /\ c \in Created /\ c \in Conns /\ Functor(fn, c) \in FunctorType
        /\ batch' \in [Loops -> Seq(FunctorType)]
        /\ \A m \in Loops : OnceInBoth(pending[m], batch'[m]) /\ Left(m) \subseteq Queued(m)
        /\ \A m \in Loops \ {l} : Left(m) = Queued(m) /\ batch'[m] = batch[m]
        /\ \A m \in Loops : \A f : f # Functor(fn, c) => (f \in Left(m) <=> f \in Queued(m))
        /\ fn # "removeConnectionInLoop" => loopOf[c] = l
        /\ active[l] = {}
    BY RunningFacts
  <1>2. loopOf[c] = l /\ Functor(fn, c).c = c /\ Functor(fn, c).fn = fn
    BY <1>1, FunctorFields DEF UseFns
  <1>3. c \in connections_ /\ Life(c) = {}
        /\ (Stuck(con[c]) => Functor("forceCloseInLoop", c) \in Queued(l))
    BY <1>2 DEF Living
  <1>4. \A m \in Loops : \A x \in LifeFns : Functor(x, c) \notin Left(m)
    BY <1>1, <1>3 DEF Life
  <1>5. \A m \in Loops : \A f \in FunctorType : f.c # c => (f \in Left(m) <=> f \in Queued(m))
    BY <1>1, <1>2
  <1>6. \/ /\ Open(k) /\ k.post \in {"none", "forceCloseInLoop"}
           /\ Stuck(k) => \/ k.post = "forceCloseInLoop"
                          \/ Functor("forceCloseInLoop", c) \in Left(loopOf[c])
        \/ Down(k) /\ k.post = "removeConnection"
    <2>1. fn # "forceCloseInLoop" => Functor("forceCloseInLoop", c) # Functor(fn, c)
      <3>1. Functor("forceCloseInLoop", c).fn = "forceCloseInLoop"
        BY DEF Functor
      <3> QED
        BY <1>2, <3>1
    <2> QED
      BY <1>1, <1>2, <1>3, <2>1
  <1>7. UNCHANGED <<loopOf, nextConnId_>>
    BY DEF Running
  <1>8. /\ con' \in [Conns -> Conn] /\ pending' \in [Loops -> Seq(FunctorType)]
        /\ connections_' \subseteq Created' /\ QueuedOnce' /\ Placed' /\ Phases'
        /\ con'[c].ups = 1 /\ \A d \in Conns \ {c} : con'[d] = con[d]
    BY <1>1, <1>3, <1>4, <1>5, <1>6, <1>7, CommitLiving
  <1>9. /\ UNCHANGED <<nextConnId_, next_, server, loopOf, lpc, quit_, ucall>>
        /\ lpc[l] = "run" /\ active' = active
        /\ active \in [Loops -> SUBSET (Conns \cup {Acceptor})]
    BY DEF Running, LifeInv, ServerTypeOK
  <1> QED
    BY <1>1, <1>2, <1>8, <1>9, LoopStepKeeps

(* ... and in the second it is ignored.                                    *)
LEMMA RunLate ==
    ASSUME LifeInv, NEW l \in Loops, NEW c, NEW fn \in UseFns, Running(l, c, fn),
           Shut(con[c]), UNCHANGED <<con, connections_, pending>>
    PROVE  LifeInv'
  <1>1. /\ c \in Created /\ c \in Conns /\ Functor(fn, c) \in FunctorType
        /\ Created' = Created
        /\ batch' \in [Loops -> Seq(FunctorType)]
        /\ \A m \in Loops : OnceInBoth(pending[m], batch'[m]) /\ Left(m) \subseteq Queued(m)
        /\ \A m \in Loops \ {l} : Left(m) = Queued(m) /\ batch'[m] = batch[m]
        /\ \A m \in Loops : \A f : f # Functor(fn, c) => (f \in Left(m) <=> f \in Queued(m))
        /\ active[l] = {} /\ InPhase(c) /\ con[c].post = "none"
    BY RunningFacts
  <1>2. Functor(fn, c).c = c /\ Functor(fn, c).fn = fn
    BY <1>1, FunctorFields DEF UseFns
  <1>3. QueuedOnce' /\ \A m \in Loops : Queued(m)' = Left(m)
    BY <1>1, NothingPosted
  <1>4. ServerTypeOK /\ Placed /\ Phases /\ UNCHANGED <<loopOf, nextConnId_>>
    BY DEF LifeInv, Running
  <1>5. Life(c)' = Life(c)
    <2>1. \A x \in LifeFns : Functor(x, c) # Functor(fn, c)
      BY <1>1, <1>2, FunctorFields DEF LifeFns, UseFns
    <2> QED
      BY <1>1, <1>3, <2>1 DEF Life
  <1>6. InPhase(c)'
    BY <1>1, <1>5 DEF InPhase, Born, Living, Closing, Closed, Gone, Open, Shut
  <1>7. OnlyTouches(c)
    <2>1. \A m \in Loops : \A f \in FunctorType :
             f.c # c => (f \in Queued(m)' <=> f \in Queued(m))
      BY <1>1, <1>2, <1>3
    <2> QED
      BY <2>1, <1>1, <1>4 DEF OnlyTouches
  <1>8. Phases'
    BY <1>1, <1>4, <1>6, <1>7, PhaseStep
  <1>9. Placed'
    BY <1>1, <1>3, <1>4 DEF Placed
  <1>10. /\ UNCHANGED <<nextConnId_, next_, server, loopOf, lpc, quit_, ucall>>
         /\ lpc[l] = "run" /\ active' = active
         /\ active \in [Loops -> SUBSET (Conns \cup {Acceptor})]
         /\ pending' \in [Loops -> Seq(FunctorType)] /\ con' \in [Conns -> Conn]
         /\ connections_' \subseteq Created'
    BY <1>1 DEF Running, LifeInv, ServerTypeOK
  <1> QED
    BY <1>1, <1>3, <1>8, <1>9, <1>10, LoopStepKeeps

(* removeConnectionInLoop: the map gives the connection up, and its loop   *)
(* is told.                                                                *)
LEMMA RunRemove ==
    ASSUME LifeInv, NEW l \in Loops, NEW c, Running(l, c, "removeConnectionInLoop"),
           RemoveConnectionInLoop(c)
    PROVE  LifeInv'
  <1> DEFINE fn == "removeConnectionInLoop"
             g == Functor("connectDestroyed", c)
  <1>1. /\ c \in Created /\ c \in Conns /\ fn \in LifeFns /\ Created' = Created
        /\ batch' \in [Loops -> Seq(FunctorType)]
        /\ \A m \in Loops : OnceInBoth(pending[m], batch'[m]) /\ Left(m) \subseteq Queued(m)
        /\ \A m \in Loops \ {l} : Left(m) = Queued(m) /\ batch'[m] = batch[m]
        /\ \A m \in Loops : \A f : f # Functor(fn, c) => (f \in Left(m) <=> f \in Queued(m))
        /\ Functor(fn, c) \notin Left(l) /\ Functor(fn, c) \in FunctorType
        /\ l = Base /\ fn \in Life(c) /\ InPhase(c) /\ active[l] = {}
        /\ con[c].post = "none"
    BY RunningFacts DEF LifeFns
  <1>2. Closing(c)
    BY <1>1 DEF InPhase, Born, Living, Closing, Closed, Gone
  <1>3. Down(con[c]) /\ c \in connections_ /\ Life(c) = {fn}
    BY <1>2 DEF Closing
  <1>4. ServerTypeOK /\ Undisturbed /\ Placed /\ Phases /\ con \in [Conns -> Conn]
        /\ UNCHANGED <<loopOf, nextConnId_>>
    BY DEF LifeInv, ServerTypeOK, Running
  <1>5. con' = con
    BY <1>1, <1>3, <1>4 DEF RemoveConnectionInLoop, Assert, Undisturbed
  <1>6. connections_' = connections_ \ {c} /\ QueueInLoop(loopOf[c], g)
    BY DEF RemoveConnectionInLoop
  <1>7. PICK m \in Loops : m = loopOf[c]
    BY <1>1, <1>4 DEF ServerTypeOK
  <1>8. /\ g \in FunctorType /\ g.c = c /\ g.fn = "connectDestroyed" /\ g.fn \in LifeFns
        /\ g.fn \notin UseFns
    BY <1>1, FunctorFields DEF LifeFns, UseFns
  <1>9. \A n \in Loops : \A x \in LifeFns : Functor(x, c) \notin Left(n)
    <2> SUFFICES ASSUME NEW n \in Loops, NEW x \in LifeFns PROVE Functor(x, c) \notin Left(n)
      OBVIOUS
    <2>1. CASE x # fn
      BY <2>1, <1>1, <1>3 DEF Life
    <2>2. CASE x = fn /\ n = l
      BY <2>2, <1>1
    <2>3. CASE x = fn /\ n # l
      <3>1. Functor(fn, c).fn = fn /\ Functor(fn, c).c = c
        BY <1>1, FunctorFields
      <3>2. Functor(fn, c) \notin Queued(n)
        BY <2>3, <3>1, <1>1, <1>4 DEF Placed
      <3> QED
        BY <3>2, <2>3, <1>1
    <2> QED
      BY <2>1, <2>2, <2>3
  <1> HIDE DEF fn
  <1>10. g \notin Left(m)
    BY <1>9 DEF LifeFns
  <1>11. pending \in [Loops -> Seq(FunctorType)] /\ QueueInLoop(m, g)
    BY <1>4, <1>6, <1>7 DEF ServerTypeOK
  <1>12. g = Functor("connectDestroyed", c)
    OBVIOUS
  <1> HIDE DEF g
  <1>13. /\ pending' \in [Loops -> Seq(FunctorType)]
         /\ QueuedOnce'
         /\ \A k \in Loops \ {m} : Queued(k)' = Left(k)
         /\ Queued(m)' = Left(m) \cup {g}
    BY <1>1, <1>8, <1>10, <1>11, FunctorPosted
  <1>14. Life(c)' = {"connectDestroyed"}
    <2>1. ASSUME NEW x \in LifeFns, NEW n \in Loops, Functor(x, c) \in Queued(n)'
          PROVE  x = "connectDestroyed"
      <3>1. Functor(x, c) = g
        BY <2>1, <1>9, <1>13
      <3> QED
        BY <3>1, <1>1, <1>8, FunctorFields
    <2>2. g \in Queued(m)'
      BY <1>13
    <2>3. "connectDestroyed" \in LifeFns
      BY DEF LifeFns
    <2>4. "connectDestroyed" \in Life(c)'
      BY <1>12, <2>2, <2>3 DEF Life
    <2>5. Life(c)' \subseteq {"connectDestroyed"}
      BY <2>1 DEF Life
    <2> QED
      BY <2>4, <2>5
  <1>15. InPhase(c)'
    BY <1>3, <1>5, <1>6, <1>14 DEF InPhase, Closed
  <1>16. OnlyTouches(c)
    <2>1. Functor(fn, c).c = c
      BY <1>1, FunctorFields
    <2>2. ASSUME NEW n \in Loops, NEW f \in FunctorType, f.c # c
          PROVE  f \in Queued(n)' <=> f \in Queued(n)
      <3>1. f # g /\ f # Functor(fn, c)
        BY <2>1, <2>2, <1>8
      <3>2. f \in Left(n) <=> f \in Queued(n)
        BY <3>1, <1>1
      <3>3. f \in Queued(n)' <=> f \in Left(n)
        BY <3>1, <1>13
      <3> QED
        BY <3>2, <3>3
    <2>3. \A d \in Conns \ {c} : d \in connections_' <=> d \in connections_
      BY <1>6
    <2> QED
      BY <2>2, <2>3, <1>1, <1>4, <1>5 DEF OnlyTouches
  <1>17. Phases'
    BY <1>1, <1>4, <1>5, <1>15, <1>16, PhaseStep
  <1>18. Placed'
    <2>1. /\ \A n \in Loops \ {m} : Queued(n)' \subseteq Left(n)
          /\ Queued(m)' \subseteq Left(m) \cup {g}
          /\ \A n \in Loops : Left(n) \subseteq Queued(n)
      BY <1>1, <1>13
    <2>2. /\ g.c \in Created
          /\ g.fn = "removeConnectionInLoop" => m = Base
          /\ g.fn # "removeConnectionInLoop" => loopOf[g.c] = m
          /\ g.fn \in UseFns => con'[g.c].ups = 1
      BY <1>1, <1>7, <1>8
    <2>3. Created \subseteq Conns
      BY <1>4, CreatedTyped
    <2> QED
      BY <2>1, <2>2, <2>3, <1>4, <1>5, StillPlaced
  <1>19. /\ UNCHANGED <<nextConnId_, next_, server, loopOf, lpc, quit_, ucall>>
         /\ lpc[l] = "run" /\ active' = active
         /\ active \in [Loops -> SUBSET (Conns \cup {Acceptor})]
         /\ con' \in [Conns -> Conn]
         /\ connections_' \subseteq Created'
    BY <1>1, <1>4, <1>5, <1>6 DEF Running, LifeInv, ServerTypeOK
  <1> QED
    BY <1>1, <1>5, <1>13, <1>17, <1>18, <1>19, LoopStepKeeps

(* Every functor the queues hold.                                          *)
LEMMA RunKeepsLife ==
    ASSUME LifeInv, NEW l \in Loops, RunFunctor(l)
    PROVE  LifeInv'
  <1> DEFINE f == Head(batch[l])
  <1>1. Running(l, f.c, f.fn)
    BY DEF RunFunctor, Running, serverVars, userVars
  <1>2. PICK c, fn : c = f.c /\ fn = f.fn
    OBVIOUS
  <1>3. Running(l, c, fn)
    BY <1>1, <1>2
  <1>4. /\ fn = "connectEstablished" => Commit(c, ConnectEstablished(con[c]))
        /\ fn = "connectDestroyed" => Commit(c, ConnectDestroyed(con[c]))
        /\ fn = "forceCloseInLoop" => Commit(c, ForceCloseInLoop(con[c]))
        /\ fn = "sendInLoop" => \E partial \in BOOLEAN : Commit(c, SendInLoop(con[c], partial))
        /\ fn = "removeConnectionInLoop" => RemoveConnectionInLoop(c)
    BY <1>2 DEF RunFunctor
  <1> HIDE DEF f
  <1>5. /\ fn \in LifeFns \cup UseFns /\ InPhase(c) /\ con[c].post = "none" /\ c \in Conns
        /\ fn \in UseFns => con[c].ups = 1
    BY <1>3, RunningFacts
  <1>6. CASE fn = "connectEstablished"
    BY <1>3, <1>4, <1>6, RunEstablished
  <1>7. CASE fn = "connectDestroyed"
    BY <1>3, <1>4, <1>7, RunDestroyed
  <1>8. CASE fn = "removeConnectionInLoop"
    BY <1>3, <1>4, <1>8, RunRemove
  <1>9. fn \in UseFns => Living(c) \/ Shut(con[c])
    <2>1. Born(c) => con[c].ups = 0
      BY NewConnFields DEF Born
    <2> QED
      BY <2>1, <1>5 DEF InPhase, Closing, Closed, Gone, Down, Dead
  <1>10. ASSUME fn \in UseFns, Shut(con[c]), Commit(c, con[c]) PROVE LifeInv'
    <2>1. con[c] \in Conn /\ con \in [Conns -> Conn]
      BY <1>5 DEF LifeInv, ServerTypeOK
    <2>2. con' = [con EXCEPT ![c] = con[c]] /\ UNCHANGED <<connections_, pending>>
      BY <1>5, <1>10, <2>1, CommitCases, ClearedSame
    <2>3. con' = con
      BY <2>1, <2>2
    <2> QED
      BY <1>3, <1>10, <2>2, <2>3, RunLate
  <1>11. CASE fn = "forceCloseInLoop"
    <2>1. fn \in UseFns
      BY <1>11 DEF UseFns
    <2>2. CASE Living(c)
      <3>1. Open(con[c])
        BY <2>2 DEF Living
      <3>2. ForceCloseInLoop(con[c]) = HandleClose(con[c])
        BY <3>1 DEF ForceCloseInLoop, Open
      <3>3. Down(HandleClose(con[c])) /\ HandleClose(con[c]).post = "removeConnection"
        BY <3>1, CloseShuts
      <3>4. HandleClose(con[c]) \in Conn /\ Commit(c, HandleClose(con[c]))
        BY <1>4, <1>11, <3>2, <3>3 DEF Down, Shut
      <3> QED
        BY <1>3, <2>1, <2>2, <3>3, <3>4, RunUse
    <2>3. CASE Shut(con[c])
      <3>1. ForceCloseInLoop(con[c]) = con[c]
        BY <2>3, LateCalls
      <3> QED
        BY <1>4, <1>10, <1>11, <2>1, <2>3, <3>1
    <2> QED
      BY <1>9, <2>1, <2>2, <2>3
  <1>12. CASE fn = "sendInLoop"
    <2>1. fn \in UseFns
      BY <1>12 DEF UseFns
    <2>2. PICK partial \in BOOLEAN : Commit(c, SendInLoop(con[c], partial))
      BY <1>4, <1>12
    <2>3. CASE Living(c)
      <3> DEFINE k == SendInLoop(con[c], partial)
      <3>1. Open(con[c])
        BY <2>3 DEF Living
      <3>2. Open(k) /\ k.post = con[c].post /\ (Stuck(k) => Stuck(con[c]))
        BY <3>1, SendKeepsOpen
      <3>3. k \in Conn /\ Commit(c, k)
        BY <2>2, <3>2 DEF Open
      <3> HIDE DEF k
      <3> QED
        BY <1>3, <1>5, <1>12, <2>1, <2>3, <3>2, <3>3, RunUse
    <2>4. CASE Shut(con[c])
      <3>1. SendInLoop(con[c], partial) = con[c]
        BY <2>4, LateCalls
      <3> QED
        BY <1>10, <2>1, <2>2, <2>4, <3>1
    <2> QED
      BY <1>9, <2>1, <2>3, <2>4
  <1> QED
    BY <1>5, <1>6, <1>7, <1>8, <1>11, <1>12 DEF LifeFns, UseFns
-----------------------------------------------------------------------------
(* An event of a channel.                                                  *)
LEMMA ChannelKeepsLife ==
    ASSUME LifeInv, LoopOps \subseteq {"send", "shutdown", "forceClose"},
           NEW l \in Loops, NEW c \in Conns, HandleChannel(l, c)
    PROVE  LifeInv'
  <1>1. /\ ServerTypeOK /\ QueuedOnce /\ LoopPhases /\ Phases
        /\ lpc[l] = "handle" /\ c \in active[l] /\ active' = [active EXCEPT ![l] = @ \ {c}]
        /\ UNCHANGED <<nextConnId_, next_, server, loopOf, batch, lpc, quit_, ucall>>
    BY DEF LifeInv, HandleChannel, serverVars, userVars
  <1>2. PICK op \in LoopOps \cup {"none"}, partial \in BOOLEAN :
           Commit(c, HandleEvent(con[c], peer[c], op, partial))
    BY DEF HandleChannel
  <1> DEFINE k == HandleEvent(con[c], peer[c], op, partial)
  <1>3. c # Acceptor
    BY <1>1, CreatedTyped DEF Conns, Acceptor
  <1>4. c \in Created /\ loopOf[c] = l /\ Open(con[c])
    BY <1>1, <1>3 DEF LoopPhases
  <1>5. con[c].post = "none" /\ InPhase(c)
    BY <1>1, <1>4 DEF Phases, InPhase
  <1>6. Living(c)
    BY <1>4, <1>5, NewConnFields
       DEF InPhase, Born, Closing, Closed, Gone, Open, Down, Dead, Shut
  <1>7. /\ c \in connections_ /\ Life(c) = {}
        /\ Stuck(con[c]) => Functor("forceCloseInLoop", c) \in Queued(l)
    BY <1>4, <1>6 DEF Living
  <1>8. \/ /\ Open(k) /\ k.post \in {"none", "forceCloseInLoop"}
           /\ Stuck(k) => Stuck(con[c]) \/ k.post = "forceCloseInLoop"
        \/ Down(k) /\ k.post = "removeConnection"
    <2>1. op \in {"send", "shutdown", "forceClose", "none"}
      OBVIOUS
    <2> QED
      BY <1>4, <1>5, <2>1, EventOpensOrShuts
  <1>9. k \in Conn /\ Commit(c, k)
    BY <1>2, <1>8 DEF Open, Down, Shut
  <1> HIDE DEF k
  <1>10. \A m \in Loops : Left(m) = Queued(m) /\ OnceInBoth(pending[m], batch'[m])
    BY <1>1, NothingTaken
  <1>11. \/ /\ Open(k) /\ k.post \in {"none", "forceCloseInLoop"}
            /\ Stuck(k) => \/ k.post = "forceCloseInLoop"
                           \/ Functor("forceCloseInLoop", c) \in Left(loopOf[c])
         \/ Down(k) /\ k.post = "removeConnection"
    BY <1>4, <1>7, <1>8, <1>10
  <1>12. \A m \in Loops : \A x \in LifeFns : Functor(x, c) \notin Left(m)
    BY <1>7, <1>10 DEF Life
  <1>13. /\ con' \in [Conns -> Conn] /\ pending' \in [Loops -> Seq(FunctorType)]
         /\ connections_' \subseteq Created' /\ QueuedOnce' /\ Placed' /\ Phases'
         /\ con'[c].ups = 1 /\ \A d \in Conns \ {c} : con'[d] = con[d]
    BY <1>1, <1>4, <1>7, <1>9, <1>10, <1>11, <1>12, CommitLiving
  <1>14. /\ active' \in [Loops -> SUBSET (Conns \cup {Acceptor})]
         /\ active'[l] = active[l] \ {c} /\ \A m \in Loops \ {l} : active'[m] = active[m]
         /\ batch' \in [Loops -> Seq(FunctorType)]
    BY <1>1 DEF ServerTypeOK
  <1>15. /\ active'[l] \subseteq active[l] \ {c}
         /\ \A m \in Loops \ {l} : active'[m] = active[m] /\ batch'[m] = batch[m]
         /\ batch'[l] = batch[l]
         /\ UNCHANGED <<nextConnId_, next_, server, loopOf, lpc, quit_, ucall>>
    BY <1>1, <1>14
  <1> QED
    BY <1>4, <1>13, <1>14, <1>15, LoopStepKeeps

(* A step that leaves the connections and what is queued as they are.      *)
LEMMA SameQueues ==
    ASSUME ServerTypeOK, Placed, Phases, UNCHANGED <<con, loopOf, connections_, nextConnId_>>,
           \A m \in Loops : Queued(m)' = Queued(m)
    PROVE  Placed' /\ Phases'
  <1>1. Created' = Created
    BY DEF Created
  <1>2. Placed'
    BY <1>1 DEF Placed
  <1>3. ASSUME NEW d \in Conns PROVE Life(d)' = Life(d) /\ (Living(d) => Living(d)')
    <2>1. Life(d)' = Life(d)
      BY DEF Life
    <2>2. PICK m \in Loops : m = loopOf[d]
      BY DEF ServerTypeOK
    <2>3. Queued(loopOf[d])' = Queued(m)'
      BY <2>2 DEF Queued
    <2> QED
      BY <2>1, <2>2, <2>3 DEF Living
  <1>4. ASSUME NEW d \in Conns
        PROVE  /\ con'[d].post = "none"
               /\ d \notin Created' => con'[d] = NewConn
               /\ d \in Created' => InPhase(d)'
    BY <1>1, <1>3 DEF Phases, InPhase, Born, Closing, Closed, Gone
  <1> QED
    BY <1>2, <1>4 DEF Phases, InPhase

(* epoll_wait returns with open channels of this loop.                     *)
LEMMA PollKeepsLife ==
    ASSUME LifeInv, NEW l \in Loops, NEW channels, PollReturns(l, channels),
           channels \subseteq Ready(l) \cup {Acceptor},
           Acceptor \in channels => l = Base /\ nextConnId_ <= MaxConns
    PROVE  LifeInv'
  <1>1. /\ ServerTypeOK /\ Undisturbed /\ Placed /\ QueuedOnce /\ LoopPhases /\ Phases
        /\ Created \subseteq Conns
    BY CreatedTyped DEF LifeInv
  <1>2. /\ lpc[l] = "poll" /\ active' = [active EXCEPT ![l] = channels]
        /\ lpc' = [lpc EXCEPT ![l] = "handle"]
        /\ UNCHANGED <<nextConnId_, next_, server, connections_, con, loopOf, pending, batch,
                       quit_, ucall>>
    BY DEF PollReturns, serverVars, userVars
  <1>3. ASSUME NEW c \in Ready(l) PROVE c \in Created /\ loopOf[c] = l /\ Open(con[c])
    <2>1. c \in Created /\ loopOf[c] = l /\ con[c].index = "kAdded"
      BY DEF Ready
    <2>2. InPhase(c)
      BY <1>1, <2>1 DEF Phases, InPhase
    <2> QED
      BY <2>1, <2>2, NewConnFields
         DEF InPhase, Born, Living, Closing, Closed, Gone, Down, Dead, Shut
  <1>4. ServerTypeOK'
    <2>1. channels \subseteq Conns \cup {Acceptor}
      BY <1>1, <1>3
    <2>2. active' \in [Loops -> SUBSET (Conns \cup {Acceptor})]
      BY <1>1, <1>2, <2>1 DEF ServerTypeOK
    <2>3. lpc' \in [Loops -> {"poll", "handle", "run", "done"}]
      BY <1>1, <1>2 DEF ServerTypeOK
    <2> QED
      BY <1>1, <1>2, <2>2, <2>3 DEF ServerTypeOK, Created
  <1>5. Undisturbed'
    BY <1>1, <1>2 DEF Undisturbed, NoCall, Created
  <1>6. \A m \in Loops : Queued(m)' = Queued(m)
    BY <1>2 DEF Queued
  <1>7. Placed' /\ Phases'
    BY <1>1, <1>2, <1>6, SameQueues
  <1>8. QueuedOnce'
    BY <1>1, <1>2 DEF QueuedOnce
  <1>9. LoopPhases'
    <2> SUFFICES ASSUME NEW m \in Loops
                 PROVE  /\ lpc'[m] # "run" => batch'[m] = <<>>
                        /\ lpc'[m] # "handle" => active'[m] = {}
                        /\ Acceptor \in active'[m] => m = Base /\ nextConnId_' <= MaxConns
                        /\ \A d \in active'[m] \ {Acceptor} :
                              d \in Created' /\ loopOf'[d] = m /\ Open(con'[d])
      BY DEF LoopPhases, Acceptor
    <2>1. Created' = Created
      BY <1>2 DEF Created
    <2>2. /\ lpc[m] # "run" => batch[m] = <<>>
          /\ lpc[m] # "handle" => active[m] = {}
          /\ Acceptor \in active[m] => m = Base /\ nextConnId_ <= MaxConns
          /\ \A d \in active[m] \ {Acceptor} :
                 d \in Created /\ loopOf[d] = m /\ Open(con[d])
      BY <1>1 DEF LoopPhases
    <2>3. CASE m = l
      <3>1. active'[m] = channels /\ lpc'[m] = "handle" /\ batch'[m] = <<>>
        BY <1>1, <1>2, <2>2, <2>3 DEF ServerTypeOK
      <3> QED
        BY <1>2, <1>3, <2>1, <2>3, <3>1
    <2>4. CASE m # l
      <3>1. active'[m] = active[m] /\ lpc'[m] = lpc[m]
        BY <1>1, <1>2, <2>4 DEF ServerTypeOK
      <3> QED
        BY <1>2, <2>1, <2>2, <3>1
    <2> QED
      BY <2>3, <2>4
  <1> QED
    BY <1>4, <1>5, <1>7, <1>8, <1>9 DEF LifeInv

(* The batch is taken over, and an iteration ends.                         *)
LEMMA IterationKeepsLife ==
    ASSUME LifeInv, NEW l \in Loops, Swap(l) \/ EndIteration(l)
    PROVE  LifeInv'
  <1>1. /\ ServerTypeOK /\ Undisturbed /\ Placed /\ QueuedOnce /\ LoopPhases /\ Phases
        /\ UNCHANGED <<nextConnId_, next_, server, connections_, con, loopOf, active,
                       quit_, ucall>>
    BY DEF LifeInv, Swap, EndIteration, serverVars, userVars
  <1>2. /\ pending \in [Loops -> Seq(FunctorType)] /\ batch \in [Loops -> Seq(FunctorType)]
        /\ lpc \in [Loops -> {"poll", "handle", "run", "done"}] /\ quit_[l] = FALSE
        /\ Created' = Created
    BY <1>1 DEF ServerTypeOK, Undisturbed, Created
  <1>3. /\ lpc[l] # "run" => batch[l] = <<>>
        /\ lpc[l] # "handle" => active[l] = {}
    BY <1>1 DEF LoopPhases
  <1>4. <<>> \in Seq(FunctorType) /\ Entries(<<>>) = {} /\ Once(<<>>, LifeFns)
    BY EmptyEntries
  <1>5. Swap(l) => /\ active[l] = {}
                   /\ batch' = [batch EXCEPT ![l] = pending[l]]
                   /\ pending' = [pending EXCEPT ![l] = <<>>]
                   /\ lpc' = [lpc EXCEPT ![l] = "run"]
    BY DEF Swap
  <1>6. EndIteration(l) => /\ batch[l] = <<>> /\ batch' = batch
                           /\ pending' = pending
                           /\ lpc' = [lpc EXCEPT ![l] = "poll"]
    BY <1>2 DEF EndIteration
  <1>7. /\ pending' \in [Loops -> Seq(FunctorType)] /\ batch' \in [Loops -> Seq(FunctorType)]
        /\ lpc' \in [Loops -> {"poll", "handle", "run", "done"}]
        /\ \A m \in Loops \ {l} : /\ batch'[m] = batch[m] /\ pending'[m] = pending[m]
                                  /\ lpc'[m] = lpc[m]
    BY <1>2, <1>4, <1>5, <1>6
  <1>8. /\ lpc'[l] # "run" => batch'[l] = <<>>
        /\ active[l] = {}
        /\ Queued(l)' = Queued(l)
        /\ OnceInBoth(pending'[l], batch'[l])
    <2>1. OnceInBoth(pending[l], batch[l])
      BY <1>1 DEF QueuedOnce
    <2>2. CASE Swap(l)
      <3>1. batch[l] = <<>> /\ batch'[l] = pending[l] /\ pending'[l] = <<>> /\ lpc'[l] = "run"
        BY <1>2, <1>3, <1>5, <2>2 DEF Swap
      <3> QED
        BY <1>4, <1>5, <2>1, <2>2, <3>1 DEF Queued, OnceInBoth
    <2>3. CASE EndIteration(l)
      BY <1>2, <1>3, <1>6, <2>1, <2>3 DEF Queued, EndIteration
    <2> QED
      BY <2>2, <2>3
  <1>9. \A m \in Loops : Queued(m)' = Queued(m)
    BY <1>7, <1>8 DEF Queued
  <1>10. Placed' /\ Phases'
    BY <1>1, <1>9, SameQueues
  <1>11. QueuedOnce'
    BY <1>1, <1>7, <1>8 DEF QueuedOnce
  <1>12. ServerTypeOK'
    BY <1>1, <1>2, <1>7 DEF ServerTypeOK
  <1>13. Undisturbed'
    BY <1>1, <1>2 DEF Undisturbed, NoCall
  <1>14. LoopPhases'
    <2> SUFFICES ASSUME NEW m \in Loops
                 PROVE  /\ lpc'[m] # "run" => batch'[m] = <<>>
                        /\ lpc'[m] # "handle" => active'[m] = {}
                        /\ Acceptor \in active'[m] => m = Base /\ nextConnId_' <= MaxConns
                        /\ \A d \in active'[m] \ {Acceptor} :
                              d \in Created' /\ loopOf'[d] = m /\ Open(con'[d])
      BY DEF LoopPhases, Acceptor
    <2>1. CASE m = l
      BY <1>1, <1>8, <2>1
    <2>2. CASE m # l
      BY <1>1, <1>2, <1>7, <2>2 DEF LoopPhases
    <2> QED
      BY <2>1, <2>2
  <1> QED
    BY <1>10, <1>11, <1>12, <1>13, <1>14 DEF LifeInv

(* The other end, and the test of state_ in another thread's call, touch   *)
(* neither the connections nor the loops.                                  *)
LEMMA OutsideKeepsLife ==
    ASSUME LifeInv, UserOps \subseteq {"send"}, NEW c \in Conns,
           PeerCloses(c) \/ \E op \in UserOps : UserCall(op, c)
    PROVE  LifeInv'
  <1>1. /\ ServerTypeOK /\ Undisturbed /\ Placed /\ QueuedOnce /\ LoopPhases /\ Phases
        /\ UNCHANGED <<nextConnId_, next_, server, connections_, con, loopOf, pending, batch,
                       active, lpc, quit_>>
        /\ Created' = Created
    BY DEF LifeInv, PeerCloses, UserCall, serverVars, userVars, Created
  <1>2. \A m \in Loops : Queued(m)' = Queued(m)
    BY <1>1 DEF Queued
  <1>3. Placed' /\ Phases'
    BY <1>1, <1>2, SameQueues
  <1>4. QueuedOnce' /\ ServerTypeOK'
    BY <1>1 DEF QueuedOnce, ServerTypeOK
  <1>5. LoopPhases'
    BY <1>1 DEF LoopPhases, Acceptor
  <1>6. Undisturbed'
    <2>1. server' = "running" /\ \A m \in Loops : quit_'[m] = FALSE
      BY <1>1 DEF Undisturbed
    <2>2. CASE PeerCloses(c)
      <3>1. ucall' = ucall
        BY <2>2 DEF PeerCloses, userVars
      <3> QED
        BY <1>1, <2>1, <3>1 DEF Undisturbed, NoCall
    <2>3. CASE \E op \in UserOps : UserCall(op, c)
      <3>1. ucall' = [op |-> "send", c |-> c] /\ c \in Created /\ con[c].ups > 0
        BY <2>3 DEF UserCall
      <3>2. InPhase(c)
        BY <1>1, <3>1 DEF Phases, InPhase
      <3>3. con[c].ups = 1
        BY <3>1, <3>2, NewConnFields
           DEF InPhase, Born, Living, Closing, Closed, Gone, Open, Down, Dead, Shut
      <3>4. ucall'.op = "send" /\ ucall'.c = c
        BY <3>1
      <3> QED
        BY <1>1, <2>1, <3>1, <3>3, <3>4 DEF Undisturbed
    <2> QED
      BY <2>2, <2>3
  <1> QED
    BY <1>3, <1>4, <1>5, <1>6 DEF LifeInv

(* What follows that test: sendInLoop is queued in the connection's loop,  *)
(* whatever became of the connection meanwhile.                            *)
LEMMA CallKeepsLife ==
    ASSUME LifeInv, UserCallRest
    PROVE  LifeInv'
  <1>1. /\ ServerTypeOK /\ Undisturbed /\ Placed /\ QueuedOnce /\ LoopPhases /\ Phases
        /\ UNCHANGED <<nextConnId_, next_, server, connections_, loopOf, batch, active, lpc, quit_>>
        /\ Created' = Created /\ Created \subseteq Conns
        /\ ucall # NoCall /\ ucall' = NoCall
    BY CreatedTyped DEF LifeInv, UserCallRest, serverVars, Created
  <1>2. PICK c \in Created : c = ucall.c /\ ucall.op = "send" /\ con[c].ups = 1
    BY <1>1 DEF Undisturbed
  <1> DEFINE g == Functor("sendInLoop", c)
  <1>3. con' = con /\ QueueInLoop(loopOf[c], g) /\ c \in Conns
    BY <1>1, <1>2 DEF UserCallRest
  <1>4. PICK m \in Loops : m = loopOf[c]
    BY <1>1, <1>3 DEF ServerTypeOK
  <1>5. /\ g \in FunctorType /\ g.c = c /\ g.fn = "sendInLoop"
        /\ g.fn \in UseFns /\ g.fn \notin LifeFns
    BY <1>3, FunctorFields DEF UseFns, LifeFns
  <1>6. QueueInLoop(m, g) /\ pending \in [Loops -> Seq(FunctorType)]
    BY <1>1, <1>3, <1>4 DEF ServerTypeOK
  <1> HIDE DEF g
  <1>7. \A n \in Loops : Left(n) = Queued(n) /\ OnceInBoth(pending[n], batch'[n])
    BY <1>1, NothingTaken
  <1>8. /\ pending' \in [Loops -> Seq(FunctorType)] /\ QueuedOnce'
        /\ \A n \in Loops \ {m} : Queued(n)' = Queued(n)
        /\ Queued(m)' = Queued(m) \cup {g}
    BY <1>5, <1>6, <1>7, FunctorPosted
  <1>9. OnlyTouches(c)
    <2>1. \A n \in Loops : \A f \in FunctorType :
             f.c # c => (f \in Queued(n)' <=> f \in Queued(n))
      BY <1>5, <1>8
    <2> QED
      BY <1>1, <1>3, <2>1 DEF OnlyTouches
  <1>10. Life(c)' = Life(c)
    <2>1. \A x \in LifeFns : Functor(x, c) # g
      BY <1>3, <1>5, FunctorFields
    <2>2. \A n \in Loops : \A x \in LifeFns :
             Functor(x, c) \in Queued(n)' <=> Functor(x, c) \in Queued(n)
      BY <1>8, <2>1
    <2> QED
      BY <2>2 DEF Life
  <1>11. con[c].post = "none" /\ InPhase(c)
    BY <1>1, <1>3 DEF Phases, InPhase
  <1>12. InPhase(c)'
    <2>1. Queued(loopOf[c])' = Queued(m)'
      BY <1>1, <1>4 DEF Queued
    <2>2. Queued(loopOf[c]) \subseteq Queued(loopOf[c])'
      BY <2>1, <1>4, <1>8
    <2>3. Living(c) => Living(c)'
      BY <2>2, <1>1, <1>3, <1>10 DEF Living
    <2> QED
      BY <2>3, <1>1, <1>3, <1>10, <1>11 DEF InPhase, Born, Closing, Closed, Gone
  <1>13. Phases'
    BY <1>1, <1>3, <1>9, <1>11, <1>12, PhaseStep
  <1>14. Placed'
    <2>1. /\ \A n \in Loops \ {m} : Queued(n)' \subseteq Left(n)
          /\ Queued(m)' \subseteq Left(m) \cup {g}
          /\ \A n \in Loops : Left(n) \subseteq Queued(n)
      BY <1>7, <1>8
    <2>2. /\ g.c \in Created
          /\ g.fn = "removeConnectionInLoop" => m = Base
          /\ g.fn # "removeConnectionInLoop" => loopOf[g.c] = m
          /\ g.fn \in UseFns => con'[g.c].ups = 1
      BY <1>2, <1>3, <1>4, <1>5
    <2> QED
      BY <2>1, <2>2, <1>1, <1>3, StillPlaced
  <1>15. ServerTypeOK'
    BY <1>1, <1>3, <1>8 DEF ServerTypeOK
  <1>16. Undisturbed' /\ LoopPhases'
    BY <1>1, <1>3 DEF Undisturbed, LoopPhases, NoCall, Acceptor
  <1> QED
    BY <1>8, <1>13, <1>14, <1>15, <1>16 DEF LifeInv

(* A connection is accepted: it comes up at once in a server without       *)
(* threads, and is handed to the next thread of the pool otherwise.        *)
LEMMA AcceptKeepsLife ==
    ASSUME LifeInv, NewConnection
    PROVE  LifeInv'
  <1>1. /\ ServerTypeOK /\ Undisturbed /\ Placed /\ QueuedOnce /\ LoopPhases /\ Phases
        /\ Created \subseteq Conns /\ MaxConns \in Nat /\ NumThreads \in Nat /\ Base \in Loops
        /\ UNCHANGED <<server, batch, lpc, quit_, ucall>>
        /\ Acceptor \in active[Base] /\ lpc[Base] = "handle"
        /\ active' = [active EXCEPT ![Base] = @ \ {Acceptor}]
    BY CreatedTyped DEF LifeInv, NewConnection, userVars
  <1>2. PICK c \in Conns : c = nextConnId_
    BY <1>1 DEF LoopPhases, ServerTypeOK, Conns
  <1>3. /\ c \notin Created /\ Created' = Created \cup {c} /\ Created' \subseteq Conns
        /\ nextConnId_' \in 1..(MaxConns + 1)
    BY <1>1, <1>2 DEF NewConnection, Created, Conns, ServerTypeOK
  <1>4. con[c] = NewConn /\ c \notin connections_ /\ \A n \in Loops : \A f \in Queued(n) : f.c # c
    BY <1>1, <1>3 DEF Phases, ServerTypeOK, Placed
  <1>5. PICK m \in Loops : m = NextLoop
    BY <1>1 DEF NextLoop, Loops, Base, ServerTypeOK
  <1>6. next_' \in Nat /\ (NumThreads # 0 => next_' < NumThreads)
    BY <1>1 DEF NewConnection, ServerTypeOK
  <1>7. /\ loopOf' \in [Conns -> Loops] /\ loopOf'[c] = m
        /\ \A d \in Conns \ {c} : loopOf'[d] = loopOf[d]
    BY <1>1, <1>2, <1>5 DEF NewConnection, ServerTypeOK
  <1>8. connections_' = connections_ \cup {c} /\ connections_' \subseteq Created'
    BY <1>1, <1>2, <1>3 DEF NewConnection, ServerTypeOK
  <1>9. \A n \in Loops : Left(n) = Queued(n) /\ OnceInBoth(pending[n], batch'[n])
    BY <1>1, NothingTaken
  <1>10. /\ active' \in [Loops -> SUBSET (Conns \cup {Acceptor})]
         /\ active'[Base] = active[Base] \ {Acceptor}
         /\ \A n \in Loops \ {Base} : active'[n] = active[n]
    BY <1>1 DEF ServerTypeOK
  <1>11. ASSUME con' \in [Conns -> Conn], \A d \in Conns \ {c} : con'[d] = con[d],
                pending' \in [Loops -> Seq(FunctorType)], QueuedOnce', OnlyTouches(c),
                con'[c].post = "none", InPhase(c)',
                \A n \in Loops : \A f \in Queued(n)' :
                    f \in Queued(n) \/ (f.c = c /\ f.fn = "connectEstablished" /\ n = m)
         PROVE  LifeInv'
    <2>1. ServerTypeOK'
      BY <1>1, <1>3, <1>6, <1>7, <1>8, <1>10, <1>11 DEF ServerTypeOK
    <2>2. Undisturbed'
      <3>1. ucall # NoCall => ucall.op = "send" /\ ucall.c \in Created /\ con[ucall.c].ups = 1
        BY <1>1 DEF Undisturbed
      <3>2. ucall # NoCall => ucall.c \in Created' /\ con'[ucall.c].ups = 1
        BY <3>1, <1>1, <1>3, <1>11
      <3> QED
        BY <3>1, <3>2, <1>1 DEF Undisturbed, NoCall
    <2>3. Placed'
      <3> SUFFICES ASSUME NEW n \in Loops, NEW f \in Queued(n)'
                   PROVE  /\ f.c \in Created'
                          /\ f.fn = "removeConnectionInLoop" => n = Base
                          /\ f.fn # "removeConnectionInLoop" => loopOf'[f.c] = n
                          /\ f.fn \in UseFns => con'[f.c].ups = 1
        BY DEF Placed
      <3>1. CASE f \in Queued(n)
        <4>1. /\ f.c \in Created
              /\ f.fn = "removeConnectionInLoop" => n = Base
              /\ f.fn # "removeConnectionInLoop" => loopOf[f.c] = n
              /\ f.fn \in UseFns => con[f.c].ups = 1
          BY <1>1, <3>1 DEF Placed
        <4> QED
          BY <4>1, <1>1, <1>3, <1>7, <1>11
      <3>2. CASE f.c = c /\ f.fn = "connectEstablished" /\ n = m
        BY <3>2, <1>3, <1>7 DEF UseFns
      <3> QED
        BY <3>1, <3>2, <1>11
    <2>4. LoopPhases'
      <3> SUFFICES ASSUME NEW n \in Loops
                   PROVE  /\ lpc'[n] # "run" => batch'[n] = <<>>
                          /\ lpc'[n] # "handle" => active'[n] = {}
                          /\ Acceptor \in active'[n] => n = Base /\ nextConnId_' <= MaxConns
                          /\ \A d \in active'[n] \ {Acceptor} :
                                d \in Created' /\ loopOf'[d] = n /\ Open(con'[d])
        BY DEF LoopPhases, Acceptor
      <3>1. /\ lpc[n] # "run" => batch[n] = <<>>
            /\ lpc[n] # "handle" => active[n] = {}
            /\ Acceptor \in active[n] => n = Base
            /\ \A d \in active[n] \ {Acceptor} :
                   d \in Created /\ loopOf[d] = n /\ Open(con[d])
        BY <1>1 DEF LoopPhases
      <3>2. active'[n] \subseteq active[n] /\ Acceptor \notin active'[n]
        BY <1>10, <3>1
      <3> QED
        BY <3>1, <3>2, <1>1, <1>3, <1>7, <1>11
    <2>5. Phases'
      BY <1>1, <1>3, <1>11, PhaseStep
    <2> QED
      BY <1>11, <2>1, <2>2, <2>3, <2>4, <2>5 DEF LifeInv
  <1>12. \A d \in Conns \ {c} : /\ loopOf'[d] = loopOf[d]
                                /\ d \in connections_' <=> d \in connections_
                                /\ d \in Created' <=> d \in Created
    BY <1>3, <1>7, <1>8
  <1>13. CASE m = Base
    <2> DEFINE k == ConnectEstablished(NewConn)
    <2>1. con' = [con EXCEPT ![c] = k] /\ pending' = pending
      BY <1>2, <1>4, <1>5, <1>13 DEF NewConnection
    <2>2. Open(k) /\ k.post = "none" /\ ~Stuck(k) /\ k \in Conn
      BY EstablishedOpens DEF Open, Stuck
    <2> HIDE DEF k
    <2>3. /\ con' \in [Conns -> Conn] /\ con'[c] = k
          /\ \A d \in Conns \ {c} : con'[d] = con[d]
      BY <1>1, <2>1, <2>2 DEF ServerTypeOK
    <2>4. QueuedOnce' /\ \A n \in Loops : Queued(n)' = Queued(n)
      BY <1>9, <2>1, NothingPosted
    <2>5. Life(c)' = {}
      <3>1. \A x \in LifeFns : Functor(x, c).c = c
        BY DEF Functor
      <3> QED
        BY <3>1, <1>4, <2>4 DEF Life
    <2>6. InPhase(c)'
      BY <2>2, <2>3, <2>5, <1>8 DEF InPhase, Living
    <2>7. OnlyTouches(c)
      BY <2>3, <2>4, <1>12 DEF OnlyTouches
    <2>8. pending' \in [Loops -> Seq(FunctorType)]
      BY <1>1, <2>1 DEF ServerTypeOK
    <2> QED
      BY <1>11, <2>2, <2>3, <2>4, <2>6, <2>7, <2>8
  <1>14. CASE m # Base
    <2> DEFINE g == Functor("connectEstablished", c)
    <2>1. con' = con /\ QueueInLoop(m, g)
      BY <1>2, <1>5, <1>14 DEF NewConnection
    <2>2. g \in FunctorType /\ g.c = c /\ g.fn = "connectEstablished" /\ g.fn \in LifeFns
      BY FunctorFields DEF LifeFns
    <2>3. g = Functor("connectEstablished", c)
      OBVIOUS
    <2> HIDE DEF g
    <2>4. g \notin Left(m) /\ pending \in [Loops -> Seq(FunctorType)]
      BY <1>1, <1>4, <1>9, <2>2 DEF ServerTypeOK
    <2>5. /\ pending' \in [Loops -> Seq(FunctorType)] /\ QueuedOnce'
          /\ \A n \in Loops \ {m} : Queued(n)' = Queued(n)
          /\ Queued(m)' = Queued(m) \cup {g}
      BY <1>9, <2>1, <2>2, <2>4, FunctorPosted
    <2>6. Life(c)' = {"connectEstablished"}
      <3>1. ASSUME NEW x \in LifeFns, NEW n \in Loops, Functor(x, c) \in Queued(n)'
            PROVE  x = "connectEstablished"
        <4>1. Functor(x, c).c = c /\ Functor(x, c).fn = x
          BY DEF Functor
        <4>2. Functor(x, c) = g
          BY <3>1, <4>1, <1>4, <2>5
        <4> QED
          BY <4>1, <4>2, <2>2
      <3>2. "connectEstablished" \in Life(c)'
        BY <2>2, <2>3, <2>5 DEF Life
      <3>3. Life(c)' \subseteq {"connectEstablished"}
        BY <3>1 DEF Life
      <3> QED
        BY <3>2, <3>3
    <2>7. InPhase(c)'
      BY <2>1, <2>6, <1>4, <1>8 DEF InPhase, Born
    <2>8. OnlyTouches(c)
      <3>1. \A n \in Loops : \A f \in FunctorType :
               f.c # c => (f \in Queued(n)' <=> f \in Queued(n))
        BY <2>2, <2>5
      <3> QED
        BY <3>1, <2>1, <1>12 DEF OnlyTouches
    <2>9. con' \in [Conns -> Conn] /\ con'[c].post = "none"
      BY <1>1, <1>4, <2>1, NewConnFields DEF ServerTypeOK
    <2>10. \A n \in Loops : \A f \in Queued(n)' :
              f \in Queued(n) \/ (f.c = c /\ f.fn = "connectEstablished" /\ n = m)
      BY <2>2, <2>5
    <2> QED
      BY <1>11, <2>1, <2>5, <2>7, <2>8, <2>9, <2>10
  <1> QED
    BY <1>13, <1>14
-----------------------------------------------------------------------------
(* The server as its users run it: a connection's callback sends, shuts    *)
(* down or closes, other threads only send, and the server is not          *)
(* destroyed.                                                              *)
Orderly ==
    /\ LoopOps \subseteq {"send", "shutdown", "forceClose"}
    /\ UserOps \subseteq {"send"}
    /\ ~MayDestroy

LEMMA LifeInit == Init => LifeInv
  <1> SUFFICES ASSUME Init PROVE LifeInv
    OBVIOUS
  <1>1. /\ nextConnId_ = 1 /\ next_ = 0 /\ connections_ = {} /\ server = "running"
        /\ con = [c \in Conns |-> NewConn] /\ loopOf = [c \in Conns |-> Base]
        /\ pending = [l \in Loops |-> <<>>] /\ batch = [l \in Loops |-> <<>>]
        /\ active = [l \in Loops |-> {}] /\ lpc = [l \in Loops |-> "poll"]
        /\ quit_ = [l \in Loops |-> FALSE] /\ ucall = NoCall
    BY DEF Init
  <1>2. Created = {} /\ NumThreads \in Nat /\ MaxConns \in Nat /\ Base \in Loops
    BY <1>1, BoundsAssumption DEF Created, Base, Loops
  <1>3. <<>> \in Seq(FunctorType) /\ Entries(<<>>) = {} /\ Once(<<>>, LifeFns)
    BY EmptyEntries
  <1>4. \A l \in Loops : Queued(l) = {}
    BY <1>1, <1>3 DEF Queued
  <1>5. ServerTypeOK
    <2>1. con \in [Conns -> Conn]
      BY <1>1, NewConnFields
    <2>2. pending \in [Loops -> Seq(FunctorType)] /\ batch \in [Loops -> Seq(FunctorType)]
      BY <1>1, <1>3
    <2> QED
      BY <1>1, <1>2, <2>1, <2>2 DEF ServerTypeOK
  <1>6. Undisturbed /\ Placed
    BY <1>1, <1>4 DEF Undisturbed, Placed
  <1>7. QueuedOnce
    BY <1>1, <1>3 DEF QueuedOnce, OnceInBoth
  <1>8. LoopPhases
    BY <1>1 DEF LoopPhases
  <1>9. Phases
    BY <1>1, <1>2, NewConnFields DEF Phases
  <1> QED
    BY <1>5, <1>6, <1>7, <1>8, <1>9 DEF LifeInv

LEMMA LifeStutters ==
    ASSUME LifeInv, UNCHANGED vars
    PROVE  LifeInv'
  <1>1. /\ ServerTypeOK /\ Undisturbed /\ Placed /\ QueuedOnce /\ LoopPhases /\ Phases
        /\ UNCHANGED <<nextConnId_, next_, server, connections_, con, loopOf, pending, batch,
                       active, lpc, quit_, ucall>>
        /\ Created' = Created
    BY DEF LifeInv, vars, Created
  <1>2. \A m \in Loops : Queued(m)' = Queued(m)
    BY <1>1 DEF Queued
  <1>3. Placed' /\ Phases'
    BY <1>1, <1>2, SameQueues
  <1>4. QueuedOnce' /\ ServerTypeOK'
    BY <1>1 DEF QueuedOnce, ServerTypeOK
  <1>5. LoopPhases' /\ Undisturbed'
    BY <1>1 DEF LoopPhases, Acceptor, Undisturbed, NoCall
  <1> QED
    BY <1>3, <1>4, <1>5 DEF LifeInv

LEMMA LifeNext ==
    ASSUME Orderly, LifeInv, [Next]_vars
    PROVE  LifeInv'
  <1>1. CASE PollAccept
    <2>1. /\ Base \in Loops /\ PollReturns(Base, Ready(Base) \cup {Acceptor})
          /\ nextConnId_ <= MaxConns
      BY <1>1, CreatedTyped DEF PollAccept, LifeInv
    <2> QED
      BY <2>1, PollKeepsLife
  <1>2. Acceptor \notin Created
    BY DEF Acceptor, Created
  <1>3. ASSUME NEW l \in Loops, PollTimeout(l) \/ Poll(l) PROVE LifeInv'
    <2>1. Acceptor \notin Ready(l)
      BY <1>2 DEF Ready
    <2>2. CASE PollTimeout(l)
      BY <2>1, <2>2, PollKeepsLife DEF PollTimeout
    <2>3. CASE Poll(l)
      BY <2>1, <2>3, PollKeepsLife DEF Poll
    <2> QED
      BY <1>3, <2>2, <2>3
  <1>4. ASSUME NEW l \in Loops, LoopStep(l) PROVE LifeInv'
    <2>1. ASSUME NEW c \in Conns, HandleChannel(l, c) PROVE LifeInv'
      BY <2>1, ChannelKeepsLife DEF Orderly
    <2>2. CASE RunFunctor(l)
      BY <2>2, RunKeepsLife
    <2>3. CASE Swap(l) \/ EndIteration(l)
      BY <2>3, IterationKeepsLife
    <2>4. CASE NewConnection
      BY <2>4, AcceptKeepsLife
    <2> QED
      BY <1>3, <1>4, <2>1, <2>2, <2>3, <2>4 DEF LoopStep
  <1>5. ASSUME NEW c \in Conns, PeerCloses(c) \/ \E op \in UserOps : UserCall(op, c)
        PROVE  LifeInv'
    BY <1>5, OutsideKeepsLife DEF Orderly
  <1>6. CASE UserCallRest
    BY <1>6, CallKeepsLife
  <1>7. ~StopWork /\ ~DestroyStep
    BY DEF Orderly, LifeInv, Undisturbed, StopWork, DestroyStep, DestroyConnection, QuitThread,
           ServerDestroyed
  <1>8. CASE Terminated \/ UNCHANGED vars
    BY <1>8, LifeStutters DEF Terminated
  <1> QED
    BY <1>1, <1>3, <1>4, <1>5, <1>6, <1>7, <1>8 DEF Next

LEMMA LifeInvariant ==
    ASSUME Orderly
    PROVE  Spec => []LifeInv
  <1>1. LifeInv /\ [Next]_vars => LifeInv'
    BY LifeNext
  <1> QED
    BY <1>1, LifeInit, PTL DEF Spec

(* What the phases of a connection say of it.                              *)
LEMMA LifeImplies ==
    ASSUME LifeInv
    PROVE  /\ NoAssertFails /\ DiesDisconnected /\ CallbacksPaired
           /\ OutputWatched /\ ShutdownCompletes
  <1>1. ServerTypeOK /\ Phases /\ Created \subseteq Conns
    BY CreatedTyped DEF LifeInv
  <1>2. \A c \in Conns : con[c] = NewConn \/ (c \in Created /\ (Open(con[c]) \/ Shut(con[c])))
    BY <1>1 DEF Phases, Born, Living, Closing, Closed, Gone, Down, Dead
  <1>3. NoAssertFails
    BY <1>2, NewConnFields DEF NoAssertFails, Open, Shut
  <1>4. CallbacksPaired
    BY <1>2, NewConnFields DEF CallbacksPaired, Open, Shut
  <1>5. OutputWatched
    BY <1>1, <1>2, NewConnFields DEF OutputWatched, Open, Shut
  <1>6. DiesDisconnected
    <2> SUFFICES ASSUME NEW c \in Conns, Destroyed(c)
                 PROVE  con[c].state = "kDisconnected" /\ con[c].index = "kNew"
      BY DEF DiesDisconnected, DiesClosed
    <2>1. c \in Created /\ c \notin connections_
      BY DEF Destroyed, Referenced
    <2>2. ~Closed(c)
      <3> SUFFICES ASSUME Closed(c) PROVE FALSE
        OBVIOUS
      <3>1. "connectDestroyed" \in Life(c)
        BY DEF Closed
      <3>2. PICK l \in Loops : Functor("connectDestroyed", c) \in Queued(l)
        BY <3>1 DEF Life
      <3>3. /\ Functor("connectDestroyed", c).c = c
            /\ Functor("connectDestroyed", c).fn \in OwningFunctors
        BY DEF Functor, OwningFunctors
      <3> QED
        BY <3>2, <3>3 DEF Destroyed, Referenced, Queued
    <2>3. Gone(c)
      BY <1>1, <2>1, <2>2 DEF Phases, Born, Living, Closing
    <2> QED
      BY <2>3 DEF Gone, Dead, Shut
  <1>7. ShutdownCompletes
    <2> SUFFICES ASSUME NEW c \in Created, Stuck(con[c])
                 PROVE  \E f \in Queued(loopOf[c]) :
                           f.c = c /\ f.fn \in {"forceCloseInLoop", "shutdownInLoop"}
      BY DEF ShutdownCompletes, Stuck, Queued
    <2>1. Living(c)
      BY <1>1, NewConnFields DEF Phases, Born, Closing, Closed, Gone, Down, Dead, Shut, Stuck
    <2>2. Functor("forceCloseInLoop", c).c = c
          /\ Functor("forceCloseInLoop", c).fn = "forceCloseInLoop"
      BY DEF Functor
    <2> QED
      BY <2>1, <2>2 DEF Living
  <1> QED
    BY <1>3, <1>4, <1>5, <1>6, <1>7

(* For any number of threads and of connections no assert of Channel,      *)
(* Poller, TcpConnection or TcpServer fails: connectEstablished,           *)
(* handleClose, removeConnectionInLoop and connectDestroyed reach every    *)
(* connection in this order and once each, in whatever order the loops     *)
(* run.                                                                    *)
THEOREM ServerAsserts ==
    ASSUME Orderly
    PROVE  Spec => []NoAssertFails
  <1>1. LifeInv => NoAssertFails
    BY LifeImplies
  <1> QED
    BY <1>1, LifeInvariant, PTL

(* ~TcpConnection never finds the connection open or its channel           *)
(* registered: the last shared_ptr goes away only after connectDestroyed   *)
(* has run in the connection's own loop.                                   *)
THEOREM ServerDestruction ==
    ASSUME Orderly
    PROVE  Spec => []DiesDisconnected
  <1>1. LifeInv => DiesDisconnected
    BY LifeImplies
  <1> QED
    BY <1>1, LifeInvariant, PTL

(* The connection callback is called once with the connection up and once  *)
(* with it down, handleClose and connectDestroyed together.                *)
THEOREM ServerCallbacks ==
    ASSUME Orderly
    PROVE  Spec => []CallbacksPaired
  <1>1. LifeInv => CallbacksPaired
    BY LifeImplies
  <1> QED
    BY <1>1, LifeInvariant, PTL

(* sendInLoop and handleWrite keep the channel subscribed to writability   *)
(* exactly while output waits in the buffer of an open connection.         *)
THEOREM ServerOutput ==
    ASSUME Orderly
    PROVE  Spec => []OutputWatched
  <1>1. LifeInv => OutputWatched
    BY LifeImplies
  <1> QED
    BY <1>1, LifeInvariant, PTL

(* The FIN that shutdown() promises is never forgotten: in kDisconnecting  *)
(* the write side is shut, handleWrite will shut it when the last output   *)
(* has gone, or a queued functor closes the connection altogether.         *)
THEOREM ServerShutdown ==
    ASSUME Orderly
    PROVE  Spec => []ShutdownCompletes
  <1>1. LifeInv => ShutdownCompletes
    BY LifeImplies
  <1> QED
    BY <1>1, LifeInvariant, PTL
-----------------------------------------------------------------------------
(* Functors that hold a bare `this', whatever the callback, the other      *)
(* thread and ~TcpServer do.  What keeps them safe is the session.         *)


AnyFunctor == [fn : OwningFunctors \cup BareFunctors, c : Conns]

HeldTypeOK ==
    /\ nextConnId_ \in Nat \ {0}
    /\ con \in [Conns -> Conn]
    /\ pending \in [Loops -> Seq(AnyFunctor)]
    /\ batch \in [Loops -> Seq(AnyFunctor)]
    /\ active \in [Loops -> SUBSET Nat]
    /\ \A l \in Loops : Acceptor \in active[l] => l = Base /\ nextConnId_ <= MaxConns

(* A connection that has come up holds its own session, and bare functors  *)
(* and the other thread's calls are for such connections only.             *)
Held ==
    /\ \A c \in Conns : con[c].ups > 0 => con[c].session
    /\ \A l \in Loops : \A f \in Queued(l) : f.fn \in BareFunctors => con[f.c].ups > 0
    /\ ucall # NoCall => /\ ucall.op \in UserOps /\ ucall.c \in Conns
                         /\ con[ucall.c].ups > 0

HeldInv == HeldTypeOK /\ Held

(* A step keeps this if connections change by their members alone and      *)
(* what it adds to the queues owns its connection.                         *)
KeepsSessions ==
    /\ con' \in [Conns -> Conn]
    /\ \A c \in Conns : Keeps(con[c], con'[c]) \/ (con'[c].session = TRUE /\ con'[c].ups > 0)

OwnersAdded ==
    /\ pending' \in [Loops -> Seq(AnyFunctor)]
    /\ batch' \in [Loops -> Seq(AnyFunctor)]
    /\ \A l \in Loops : \A f \in Queued(l)' : f \in Queued(l) \/ f.fn \notin BareFunctors

LEMMA HeldStep ==
    ASSUME HeldInv, KeepsSessions, OwnersAdded, HeldTypeOK',
           ucall' = ucall
    PROVE  HeldInv'
  <1>1. HeldTypeOK /\ Held
    BY DEF HeldInv
  <1>2. \A c \in Conns : (con'[c].ups > 0 => con'[c].session) /\ (con[c].ups > 0 => con'[c].ups > 0)
    BY <1>1 DEF Held, KeepsSessions, Keeps
  <1>3. ASSUME NEW l \in Loops, NEW f \in Queued(l)', f.fn \in BareFunctors
        PROVE  con'[f.c].ups > 0
    <2>1. f \in Queued(l)
      BY <1>3 DEF OwnersAdded
    <2>2. f.c \in Conns
      <3>1. pending[l] \in Seq(AnyFunctor) /\ batch[l] \in Seq(AnyFunctor)
        BY <1>1 DEF HeldTypeOK
      <3>2. f \in AnyFunctor
        BY <2>1, <3>1, EntriesTyped DEF Queued
      <3> QED
        BY <3>2 DEF AnyFunctor
    <2> QED
      BY <1>1, <1>2, <1>3, <2>1, <2>2 DEF Held
  <1>4. ucall' # NoCall' => /\ ucall'.op \in UserOps /\ ucall'.c \in Conns
                            /\ con'[ucall'.c].ups > 0
    BY <1>1, <1>2 DEF Held, NoCall
  <1> QED
    BY <1>2, <1>3, <1>4 DEF HeldInv, Held

LEMMA OwnerPosted ==
    ASSUME HeldTypeOK, NEW l, NEW c \in Conns, NEW fn \in OwningFunctors,
           QueueInLoop(l, Functor(fn, c)),
           batch' \in [Loops -> Seq(AnyFunctor)],
           \A m \in Loops : Entries(batch'[m]) \subseteq Entries(batch[m])
    PROVE  OwnersAdded
  <1> DEFINE g == Functor(fn, c)
  <1>1. g \in AnyFunctor /\ g.fn \notin BareFunctors
    BY DEF Functor, AnyFunctor, OwningFunctors, BareFunctors
  <1> HIDE DEF g
  <1>2. ASSUME NEW m \in Loops
        PROVE  /\ Append(pending[m], g) \in Seq(AnyFunctor)
               /\ Entries(Append(pending[m], g)) = Entries(pending[m]) \cup {g}
    BY <1>1, AppendEntries DEF HeldTypeOK
  <1>3. pending \in [Loops -> Seq(AnyFunctor)] /\ pending' = [pending EXCEPT ![l] = Append(@, g)]
    BY DEF HeldTypeOK, QueueInLoop, g
  <1>4. /\ pending' \in [Loops -> Seq(AnyFunctor)]
        /\ \A m \in Loops : pending'[m] = pending[m] \/ pending'[m] = Append(pending[m], g)
    BY <1>2, <1>3
  <1>5. ASSUME NEW m \in Loops, NEW f \in Queued(m)' PROVE f \in Queued(m) \/ f = g
    <2>1. f \in Entries(pending'[m]) \/ f \in Entries(batch'[m])
      BY DEF Queued
    <2>2. Entries(pending'[m]) \subseteq Entries(pending[m]) \cup {g}
      BY <1>2, <1>4
    <2> QED
      BY <2>1, <2>2 DEF Queued
  <1> QED
    BY <1>1, <1>4, <1>5 DEF OwnersAdded

LEMMA CommitOwns ==
    ASSUME HeldTypeOK, NEW c \in Conns, NEW k \in Conn, Commit(c, k),
           Keeps(con[c], k) \/ (k.session = TRUE /\ k.ups > 0),
           batch' \in [Loops -> Seq(AnyFunctor)],
           \A m \in Loops : Entries(batch'[m]) \subseteq Entries(batch[m])
    PROVE  KeepsSessions /\ OwnersAdded
  <1> DEFINE inBase == k.post = "removeConnection" /\ loopOf[c] = Base
             found == Assert(k, inBase => c \in connections_, "removeConnectionInLoop")
             r == [found EXCEPT !.post = "none"]
  <1>1. Keeps(k, found) /\ found \in Conn
    <2>1. found = k \/ found = Fails(k, "removeConnectionInLoop")
      BY DEF Assert, Fails
    <2>2. Keeps(k, k) /\ Keeps(k, Fails(k, "removeConnectionInLoop"))
      BY BadKeeps DEF Sites
    <2> HIDE DEF found
    <2> QED
      BY <2>1, <2>2 DEF Keeps
  <1>2. con' = [con EXCEPT ![c] = r]
    BY DEF Commit
  <1>3. pending' = pending \/ \E l : \E fn \in OwningFunctors : QueueInLoop(l, Functor(fn, c))
    BY DEF Commit, OwningFunctors
  <1> HIDE DEF found
  <1>4. Keeps(k, r)
    <2>1. Keeps(found, r)
      BY <1>1, FieldKeeps
    <2> QED
      BY <2>1, <1>1, KeepsTransitive
  <1> HIDE DEF r
  <1>5. KeepsSessions
    <2>1. con \in [Conns -> Conn] /\ r \in Conn
      BY <1>4 DEF HeldTypeOK, Keeps
    <2>2. con' \in [Conns -> Conn] /\ con'[c] = r /\ \A d \in Conns \ {c} : con'[d] = con[d]
      BY <1>2, <2>1
    <2>3. \A d \in Conns \ {c} : Keeps(con[d], con'[d])
      BY <2>1, <2>2, FieldKeeps
    <2>4. Keeps(con[c], r) \/ (r.session = TRUE /\ r.ups > 0)
      BY <1>4 DEF Keeps
    <2> QED
      BY <2>2, <2>3, <2>4 DEF KeepsSessions
  <1>6. OwnersAdded
    <2>1. CASE pending' = pending
      BY <2>1 DEF OwnersAdded, Queued, HeldTypeOK
    <2>2. CASE \E l : \E fn \in OwningFunctors : QueueInLoop(l, Functor(fn, c))
      BY <2>2, OwnerPosted
    <2> QED
      BY <1>3, <2>1, <2>2
  <1> QED
    BY <1>5, <1>6

LEMMA HeldInit == Init => HeldInv
  <1> SUFFICES ASSUME Init PROVE HeldInv
    OBVIOUS
  <1>1. <<>> \in Seq(AnyFunctor) /\ Entries(<<>>) = {}
    BY EmptyEntries
  <1>2. HeldTypeOK
    BY <1>1, NewConnFields DEF Init, HeldTypeOK
  <1>3. \A l \in Loops : Queued(l) = {}
    BY <1>1 DEF Init, Queued
  <1>4. \A c \in Conns : con[c].ups = 0
    BY NewConnFields DEF Init
  <1>5. Held
    BY <1>3, <1>4 DEF Held, Init
  <1> QED
    BY <1>2, <1>5 DEF HeldInv

(* Steps that change neither connections nor queues, steps of a loop, and  *)
(* the other thread's call.                                                *)
LEMMA HeldQuiet ==
    ASSUME HeldInv, UNCHANGED con, OwnersAdded, HeldTypeOK', ucall' = ucall
    PROVE  HeldInv'
  <1>1. \A c \in Conns : con[c] \in Conn
    BY DEF HeldInv, HeldTypeOK
  <1>2. KeepsSessions
    BY <1>1, FieldKeeps DEF HeldInv, HeldTypeOK, KeepsSessions
  <1> QED
    BY <1>2, HeldStep

LEMMA QueuesSame ==
    ASSUME HeldTypeOK, UNCHANGED <<pending, batch>>
    PROVE  OwnersAdded
  BY DEF HeldTypeOK, OwnersAdded, Queued

(* A step that leaves the acceptor's channel alone.                        *)
LEMMA HeldTypes ==
    ASSUME HeldTypeOK, KeepsSessions, OwnersAdded, nextConnId_' = nextConnId_,
           active' \in [Loops -> SUBSET Nat],
           \A l \in Loops : active'[l] \subseteq active[l]
    PROVE  HeldTypeOK'
  BY DEF HeldTypeOK, KeepsSessions, OwnersAdded, Acceptor

LEMMA HeldChannel ==
    ASSUME HeldInv, NEW l \in Loops, NEW c \in Conns, HandleChannel(l, c)
    PROVE  HeldInv'
  <1>1. /\ HeldTypeOK /\ batch' = batch /\ nextConnId_' = nextConnId_ /\ ucall' = ucall
        /\ active' = [active EXCEPT ![l] = @ \ {c}] /\ con[c] \in Conn
        /\ batch' \in [Loops -> Seq(AnyFunctor)]
    BY DEF HeldInv, HandleChannel, serverVars, userVars, HeldTypeOK
  <1>2. PICK op \in LoopOps \cup {"none"}, partial \in BOOLEAN :
           Commit(c, HandleEvent(con[c], peer[c], op, partial))
    BY DEF HandleChannel
  <1>3. PICK k : k = HandleEvent(con[c], peer[c], op, partial)
    OBVIOUS
  <1>4. Keeps(con[c], k) /\ k \in Conn
    BY <1>1, <1>3, EventKeeps DEF Keeps
  <1>5. KeepsSessions /\ OwnersAdded
    BY <1>1, <1>2, <1>3, <1>4, CommitOwns
  <1>6. active' \in [Loops -> SUBSET Nat] /\ \A m \in Loops : active'[m] \subseteq active[m]
    BY <1>1 DEF HeldTypeOK
  <1> QED
    BY <1>1, <1>5, <1>6, HeldTypes, HeldStep

LEMMA HeldRun ==
    ASSUME KeepSession, HeldInv, NEW l \in Loops, RunFunctor(l)
    PROVE  HeldInv'
  <1>1. /\ HeldTypeOK /\ nextConnId_' = nextConnId_ /\ ucall' = ucall
        /\ active' = active /\ batch' = [batch EXCEPT ![l] = Tail(@)] /\ batch[l] # <<>>
        /\ batch \in [Loops -> Seq(AnyFunctor)] /\ con \in [Conns -> Conn]
    BY DEF HeldInv, RunFunctor, serverVars, userVars, HeldTypeOK
  <1>2. /\ Tail(batch[l]) \in Seq(AnyFunctor) /\ Head(batch[l]) \in AnyFunctor
        /\ Entries(batch[l]) = Entries(Tail(batch[l])) \cup {Head(batch[l])}
    BY <1>1, TailEntries
  <1>3. /\ batch' \in [Loops -> Seq(AnyFunctor)]
        /\ \A m \in Loops : Entries(batch'[m]) \subseteq Entries(batch[m])
    <2>1. batch'[l] = Tail(batch[l]) /\ \A m \in Loops \ {l} : batch'[m] = batch[m]
      BY <1>1
    <2>2. batch' \in [Loops -> Seq(AnyFunctor)]
      BY <1>1, <1>2
    <2> QED
      BY <1>2, <2>1, <2>2
  <1>4. PICK c \in Conns, fn \in OwningFunctors \cup BareFunctors :
           c = Head(batch[l]).c /\ fn = Head(batch[l]).fn
    BY <1>2 DEF AnyFunctor
  <1>5. con[c] \in Conn
    BY <1>1
  <1>6. \/ fn = "connectEstablished" /\ Commit(c, ConnectEstablished(con[c]))
        \/ fn = "connectDestroyed" /\ Commit(c, ConnectDestroyed(con[c]))
        \/ fn = "forceCloseInLoop" /\ Commit(c, ForceCloseInLoop(con[c]))
        \/ fn = "shutdownInLoop" /\ Commit(c, ShutdownInLoop(con[c]))
        \/ fn = "sendInLoop" /\ \E partial \in BOOLEAN : Commit(c, SendInLoop(con[c], partial))
        \/ fn = "stopReadInLoop" /\ Commit(c, StopReadInLoop(con[c]))
        \/ fn = "startReadInLoop" /\ Commit(c, StartReadInLoop(con[c]))
        \/ fn = "removeConnectionInLoop" /\ RemoveConnectionInLoop(c)
    BY <1>4 DEF RunFunctor, OwningFunctors, BareFunctors
  <1>7. ASSUME NEW k, Commit(c, k), Keeps(con[c], k) PROVE KeepsSessions /\ OwnersAdded
    <2>1. k \in Conn
      BY <1>7 DEF Keeps
    <2> QED
      BY <1>1, <1>3, <1>7, <2>1, CommitOwns
  <1>8. KeepsSessions /\ OwnersAdded
    <2>1. CASE Commit(c, ConnectEstablished(con[c]))
      <3>1. PICK k \in Conn : /\ k = ConnectEstablished(con[c])
                              /\ k.session = TRUE /\ k.ups > 0
        BY <1>5, EstablishedKeepsSession
      <3> QED
        BY <1>1, <1>3, <2>1, <3>1, CommitOwns
    <2>2. CASE \/ Commit(c, ConnectDestroyed(con[c])) \/ Commit(c, ForceCloseInLoop(con[c]))
      BY <1>5, <1>7, <2>2, CloseKeeps
    <2>3. CASE \/ Commit(c, ShutdownInLoop(con[c]))
               \/ \E partial \in BOOLEAN : Commit(c, SendInLoop(con[c], partial))
               \/ Commit(c, StopReadInLoop(con[c]))
               \/ Commit(c, StartReadInLoop(con[c]))
      BY <1>5, <1>7, <2>3, UseKeeps
    <2>4. CASE RemoveConnectionInLoop(c)
      <3> DEFINE k == Assert(con[c], server = "running", "server destroyed")
                 r == Assert(k, c \in connections_ \/ server # "running", "removeConnectionInLoop")
      <3>1. con' = [con EXCEPT ![c] = r]
        BY <2>4 DEF RemoveConnectionInLoop
      <3>2. Keeps(con[c], k) /\ k \in Conn
        <4>1. k = con[c] \/ k = Fails(con[c], "server destroyed")
          BY DEF Assert, Fails
        <4>2. Keeps(con[c], con[c]) /\ Keeps(con[c], Fails(con[c], "server destroyed"))
          BY <1>5, BadKeeps DEF Sites
        <4> HIDE DEF k
        <4> QED
          BY <4>1, <4>2 DEF Keeps
      <3>3. Keeps(k, r)
        <4>1. r = k \/ r = Fails(k, "removeConnectionInLoop")
          BY DEF Assert, Fails
        <4> HIDE DEF k
        <4>2. Keeps(k, k) /\ Keeps(k, Fails(k, "removeConnectionInLoop"))
          BY <3>2, BadKeeps DEF Sites
        <4> HIDE DEF r
        <4> QED
          BY <4>1, <4>2
      <3> HIDE DEF k, r
      <3>4. Keeps(con[c], r) /\ r \in Conn
        BY <3>2, <3>3, KeepsTransitive DEF Keeps
      <3>5. KeepsSessions
        <4>1. con' \in [Conns -> Conn] /\ con'[c] = r /\ \A d \in Conns \ {c} : con'[d] = con[d]
          BY <1>1, <3>1, <3>4
        <4>2. \A d \in Conns \ {c} : Keeps(con[d], con'[d])
          BY <1>1, <4>1, FieldKeeps
        <4> QED
          BY <3>4, <4>1, <4>2 DEF KeepsSessions
      <3>6. QueueInLoop(loopOf[c], Functor("connectDestroyed", c))
        BY <2>4 DEF RemoveConnectionInLoop
      <3>7. "connectDestroyed" \in OwningFunctors
        BY DEF OwningFunctors
      <3> QED
        BY <1>1, <1>3, <3>5, <3>6, <3>7, OwnerPosted
    <2> QED
      BY <1>6, <2>1, <2>2, <2>3, <2>4
  <1>9. active' \in [Loops -> SUBSET Nat] /\ \A m \in Loops : active'[m] \subseteq active[m]
    BY <1>1 DEF HeldTypeOK
  <1> QED
    BY <1>1, <1>8, <1>9, HeldTypes, HeldStep

LEMMA HeldAccept ==
    ASSUME KeepSession, HeldInv, NewConnection
    PROVE  HeldInv'
  <1>1. /\ HeldTypeOK /\ batch' = batch /\ nextConnId_' = nextConnId_ + 1 /\ ucall' = ucall
        /\ active' = [active EXCEPT ![Base] = @ \ {Acceptor}] /\ Acceptor \in active[Base]
        /\ con \in [Conns -> Conn] /\ batch \in [Loops -> Seq(AnyFunctor)]
        /\ active \in [Loops -> SUBSET Nat] /\ Base \in Loops
    BY BoundsAssumption DEF HeldInv, NewConnection, userVars, HeldTypeOK, Base, Loops
  <1>2. PICK c \in Conns : c = nextConnId_
    BY <1>1, BoundsAssumption DEF HeldTypeOK, Conns
  <1>3. KeepsSessions /\ OwnersAdded
    <2>1. CASE NextLoop = Base
      <3>1. con' = [con EXCEPT ![c] = ConnectEstablished(con[c])] /\ pending' = pending
        BY <1>1, <1>2, <2>1 DEF NewConnection
      <3>2. PICK k \in Conn : /\ k = ConnectEstablished(con[c])
                              /\ k.session = TRUE /\ k.ups > 0
        BY <1>1, EstablishedKeepsSession
      <3>3. con' \in [Conns -> Conn] /\ con'[c] = k /\ \A d \in Conns \ {c} : con'[d] = con[d]
        BY <1>1, <3>1, <3>2
      <3>4. \A d \in Conns \ {c} : Keeps(con[d], con'[d])
        BY <1>1, <3>3, FieldKeeps
      <3> QED
        BY <1>1, <3>1, <3>2, <3>3, <3>4, QueuesSame DEF KeepsSessions
    <2>2. CASE NextLoop # Base
      <3>1. con' = con /\ QueueInLoop(NextLoop, Functor("connectEstablished", c))
        BY <1>2, <2>2 DEF NewConnection
      <3>2. KeepsSessions
        BY <1>1, <3>1, FieldKeeps DEF KeepsSessions
      <3>3. "connectEstablished" \in OwningFunctors
        BY DEF OwningFunctors
      <3> QED
        BY <1>1, <3>1, <3>2, <3>3, OwnerPosted
    <2> QED
      BY <2>1, <2>2
  <1>4. /\ active' \in [Loops -> SUBSET Nat]
        /\ \A l \in Loops : Acceptor \notin active'[l]
    BY <1>1 DEF HeldTypeOK
  <1>5. HeldTypeOK'
    BY <1>1, <1>3, <1>4 DEF HeldTypeOK, KeepsSessions, OwnersAdded, Acceptor
  <1> QED
    BY <1>1, <1>3, <1>5, HeldStep

LEMMA HeldPoll ==
    ASSUME HeldInv, NEW l \in Loops, NEW channels, PollReturns(l, channels),
           channels \subseteq Ready(l) \cup {Acceptor},
           Acceptor \in channels => l = Base /\ nextConnId_ <= MaxConns
    PROVE  HeldInv'
  <1>1. /\ HeldTypeOK /\ active \in [Loops -> SUBSET Nat]
        /\ UNCHANGED <<con, pending, batch, nextConnId_, ucall>>
        /\ active' = [active EXCEPT ![l] = channels]
    BY DEF HeldInv, HeldTypeOK, PollReturns, serverVars, userVars
  <1>2. channels \subseteq Nat
    BY <1>1 DEF Ready, Created, Acceptor, HeldTypeOK
  <1>3. HeldTypeOK'
    <2>1. active' \in [Loops -> SUBSET Nat]
      BY <1>1, <1>2
    <2>2. \A m \in Loops : Acceptor \in active'[m] => m = Base /\ nextConnId_ <= MaxConns
      BY <1>1 DEF HeldTypeOK
    <2> QED
      BY <1>1, <2>1, <2>2 DEF HeldTypeOK, Acceptor
  <1> QED
    BY <1>1, <1>3, QueuesSame, HeldQuiet

LEMMA HeldIteration ==
    ASSUME HeldInv, NEW l \in Loops, Swap(l) \/ EndIteration(l)
    PROVE  HeldInv'
  <1>1. /\ HeldTypeOK /\ UNCHANGED <<con, nextConnId_, ucall, active>>
        /\ pending \in [Loops -> Seq(AnyFunctor)] /\ batch \in [Loops -> Seq(AnyFunctor)]
    BY DEF HeldInv, HeldTypeOK, Swap, EndIteration, serverVars, userVars
  <1>2. <<>> \in Seq(AnyFunctor) /\ Entries(<<>>) = {}
    BY EmptyEntries
  <1>3. /\ pending' \in [Loops -> Seq(AnyFunctor)] /\ batch' \in [Loops -> Seq(AnyFunctor)]
        /\ \A m \in Loops : /\ pending'[m] \in {pending[m], <<>>}
                            /\ batch'[m] \in {batch[m], pending[m]}
    BY <1>1, <1>2 DEF Swap, EndIteration
  <1>4. OwnersAdded
    <2>1. ASSUME NEW m \in Loops, NEW f \in Queued(m)' PROVE f \in Queued(m)
      <3>1. f \in Entries(pending'[m]) \/ f \in Entries(batch'[m])
        BY DEF Queued
      <3> QED
        BY <3>1, <1>2, <1>3 DEF Queued
    <2> QED
      BY <1>3, <2>1 DEF OwnersAdded
  <1>5. HeldTypeOK'
    BY <1>1, <1>3 DEF HeldTypeOK, Acceptor
  <1> QED
    BY <1>1, <1>4, <1>5, HeldQuiet

LEMMA HeldCall ==
    ASSUME HeldInv, NEW c \in Conns, NEW op \in UserOps, UserCall(op, c)
    PROVE  HeldInv'
  <1>1. /\ HeldTypeOK /\ Held /\ UNCHANGED <<con, nextConnId_, active, pending, batch>>
        /\ ucall' = [op |-> op, c |-> c] /\ con[c].ups > 0
    BY DEF HeldInv, UserCall, serverVars
  <1>2. HeldTypeOK' /\ \A l \in Loops : Queued(l)' = Queued(l)
    BY <1>1 DEF HeldTypeOK, Acceptor, Queued
  <1>3. ucall'.c = c /\ ucall'.op = op
    BY <1>1
  <1> QED
    BY <1>1, <1>2, <1>3 DEF HeldInv, Held

LEMMA HeldCallRest ==
    ASSUME HeldInv, UserCallRest
    PROVE  HeldInv'
  <1>1. /\ HeldTypeOK /\ Held /\ UNCHANGED <<nextConnId_, active, batch>>
        /\ ucall # NoCall /\ ucall' = NoCall
        /\ con \in [Conns -> Conn] /\ pending \in [Loops -> Seq(AnyFunctor)]
    BY DEF HeldInv, HeldTypeOK, UserCallRest, serverVars
  <1>2. PICK c \in Conns : c = ucall.c /\ con[c].ups > 0 /\ ucall.op \in UserOps
    BY <1>1 DEF Held
  <1>3. PICK fn \in OwningFunctors \cup BareFunctors : QueueInLoop(loopOf[c], Functor(fn, c))
    <2> DEFINE fn == CASE ucall.op = "send" -> "sendInLoop"
                       [] ucall.op = "shutdown" -> "shutdownInLoop"
                       [] ucall.op = "forceClose" -> "forceCloseInLoop"
                       [] ucall.op = "stopRead" -> "stopReadInLoop"
                       [] ucall.op = "startRead" -> "startReadInLoop"
    <2>1. fn \in OwningFunctors \cup BareFunctors
      BY <1>2, OpsAssumption DEF OwningFunctors, BareFunctors
    <2>2. QueueInLoop(loopOf[c], Functor(fn, c))
      BY <1>2 DEF UserCallRest
    <2> HIDE DEF fn
    <2> QED
      BY <2>1, <2>2
  <1> DEFINE g == Functor(fn, c)
  <1>4. g \in AnyFunctor /\ g.c = c
    BY DEF Functor, AnyFunctor
  <1>5. pending' = [pending EXCEPT ![loopOf[c]] = Append(@, g)]
    BY <1>3 DEF QueueInLoop
  <1> HIDE DEF g
  <1>6. ASSUME NEW m \in Loops
        PROVE  /\ Append(pending[m], g) \in Seq(AnyFunctor)
               /\ Entries(Append(pending[m], g)) = Entries(pending[m]) \cup {g}
    BY <1>1, <1>4, AppendEntries
  <1>7. /\ pending' \in [Loops -> Seq(AnyFunctor)]
        /\ \A m \in Loops : pending'[m] = pending[m] \/ pending'[m] = Append(pending[m], g)
    BY <1>1, <1>5, <1>6
  <1>8. con' = con \/ con' = [con EXCEPT ![c].state = "kDisconnecting"]
    BY <1>2 DEF UserCallRest
  <1>9. con' \in [Conns -> Conn] /\ \A d \in Conns : Keeps(con[d], con'[d])
    <2>1. \A d \in Conns : Keeps(con[d], con[d])
      BY <1>1, FieldKeeps
    <2>2. Keeps(con[c], [con[c] EXCEPT !.state = "kDisconnecting"])
      BY <1>1, FieldKeeps
    <2>3. CASE con' = con
      BY <1>1, <2>1, <2>3
    <2>4. CASE con' = [con EXCEPT ![c].state = "kDisconnecting"]
      <3>1. PICK k : k = [con[c] EXCEPT !.state = "kDisconnecting"]
        OBVIOUS
      <3>2. con' = [con EXCEPT ![c] = k] /\ k \in Conn /\ Keeps(con[c], k)
        BY <2>2, <2>4, <3>1 DEF Keeps
      <3>3. con' \in [Conns -> Conn] /\ con'[c] = k /\ \A d \in Conns \ {c} : con'[d] = con[d]
        BY <1>1, <3>2
      <3> QED
        BY <2>1, <3>2, <3>3
    <2> QED
      BY <1>8, <2>3, <2>4
  <1>10. HeldTypeOK'
    BY <1>1, <1>7, <1>9 DEF HeldTypeOK, Acceptor
  <1>11. \A d \in Conns : con'[d].ups = con[d].ups /\ con'[d].session = con[d].session
    BY <1>9 DEF Keeps
  <1>12. ASSUME NEW m \in Loops, NEW f \in Queued(m)', f.fn \in BareFunctors
         PROVE  con'[f.c].ups > 0
    <2>1. f \in Entries(pending'[m]) \/ f \in Entries(batch[m])
      BY <1>1 DEF Queued
    <2>2. Entries(pending'[m]) \subseteq Entries(pending[m]) \cup {g}
      BY <1>6, <1>7
    <2>3. f \in Queued(m) \/ f = g
      BY <2>1, <2>2 DEF Queued
    <2>4. CASE f \in Queued(m)
      <3>1. f \in AnyFunctor
        <4>1. Entries(pending[m]) \subseteq AnyFunctor /\ Entries(batch[m]) \subseteq AnyFunctor
          BY <1>1, EntriesTyped DEF HeldTypeOK
        <4> QED
          BY <2>4, <4>1 DEF Queued
      <3>2. f.c \in Conns /\ con[f.c].ups > 0
        BY <1>1, <1>12, <2>4, <3>1 DEF Held, AnyFunctor
      <3> QED
        BY <3>2, <1>11
    <2>5. CASE f = g
      BY <2>5, <1>2, <1>4, <1>11
    <2> QED
      BY <2>3, <2>4, <2>5
  <1>13. Held'
    BY <1>1, <1>11, <1>12 DEF Held, NoCall
  <1> QED
    BY <1>10, <1>13 DEF HeldInv

(* ~TcpServer's loop over its connections.                                 *)
LEMMA HeldDestroy ==
    ASSUME HeldInv, NEW c \in Conns, DestroyConnection(c)
    PROVE  HeldInv'
  <1>1. /\ HeldTypeOK /\ UNCHANGED <<nextConnId_, ucall, active, batch>>
        /\ con \in [Conns -> Conn] /\ batch \in [Loops -> Seq(AnyFunctor)]
    BY DEF HeldInv, HeldTypeOK, DestroyConnection, serverVars, userVars
  <1>2. KeepsSessions /\ OwnersAdded
    <2>1. CASE loopOf[c] = Base
      <3>1. con' = [con EXCEPT ![c] = ConnectDestroyed(con[c])] /\ pending' = pending
        BY <2>1 DEF DestroyConnection
      <3>2. PICK k : k = ConnectDestroyed(con[c])
        OBVIOUS
      <3>3. Keeps(con[c], k) /\ k \in Conn
        BY <1>1, <3>2, CloseKeeps DEF Keeps
      <3>4. con' \in [Conns -> Conn] /\ con'[c] = k /\ \A d \in Conns \ {c} : con'[d] = con[d]
        BY <1>1, <3>1, <3>2, <3>3
      <3>5. \A d \in Conns \ {c} : Keeps(con[d], con'[d])
        BY <1>1, <3>4, FieldKeeps
      <3> QED
        BY <1>1, <3>1, <3>3, <3>4, <3>5, QueuesSame DEF KeepsSessions
    <2>2. CASE loopOf[c] # Base
      <3>1. con' = con /\ QueueInLoop(loopOf[c], Functor("connectDestroyed", c))
        BY <2>2 DEF DestroyConnection
      <3>2. KeepsSessions
        BY <1>1, <3>1, FieldKeeps DEF KeepsSessions
      <3>3. "connectDestroyed" \in OwningFunctors
        BY DEF OwningFunctors
      <3> QED
        BY <1>1, <3>1, <3>2, <3>3, OwnerPosted
    <2> QED
      BY <2>1, <2>2
  <1>3. active' \in [Loops -> SUBSET Nat] /\ \A m \in Loops : active'[m] \subseteq active[m]
    BY <1>1 DEF HeldTypeOK
  <1> QED
    BY <1>1, <1>2, <1>3, HeldTypes, HeldStep

LEMMA HeldNext ==
    ASSUME KeepSession, HeldInv, [Next]_vars
    PROVE  HeldInv'
  <1>1. CASE PollAccept
    <2>1. Base \in Loops
      BY BoundsAssumption DEF Base, Loops
    <2> QED
      BY <1>1, <2>1, HeldPoll DEF PollAccept
  <1>2. ASSUME NEW l \in Loops, PollTimeout(l) \/ Poll(l) PROVE HeldInv'
    <2>1. Acceptor \notin Ready(l)
      BY DEF Ready, Acceptor, Created
    <2>2. CASE PollTimeout(l)
      BY <2>1, <2>2, HeldPoll DEF PollTimeout
    <2>3. CASE Poll(l)
      BY <2>1, <2>3, HeldPoll DEF Poll
    <2> QED
      BY <1>2, <2>2, <2>3
  <1>3. ASSUME NEW l \in Loops, LoopStep(l) PROVE HeldInv'
    <2>1. ASSUME NEW c \in Conns, HandleChannel(l, c) PROVE HeldInv'
      BY <2>1, HeldChannel
    <2>2. CASE RunFunctor(l)
      BY <2>2, HeldRun
    <2>3. CASE Swap(l) \/ EndIteration(l)
      BY <2>3, HeldIteration
    <2>4. CASE NewConnection
      BY <2>4, HeldAccept
    <2> QED
      BY <1>2, <1>3, <2>1, <2>2, <2>3, <2>4 DEF LoopStep
  <1>4. ASSUME UNCHANGED <<con, pending, batch, nextConnId_, active, ucall>> PROVE HeldInv'
    <2>1. HeldTypeOK /\ HeldTypeOK'
      BY <1>4 DEF HeldInv, HeldTypeOK, Acceptor
    <2> QED
      BY <1>4, <2>1, QueuesSame, HeldQuiet
  <1>5. ASSUME NEW c \in Conns, PeerCloses(c) PROVE HeldInv'
    BY <1>4, <1>5 DEF PeerCloses, serverVars, userVars
  <1>6. ASSUME NEW c \in Conns, NEW op \in UserOps, UserCall(op, c) PROVE HeldInv'
    BY <1>6, HeldCall
  <1>7. CASE UserCallRest
    BY <1>7, HeldCallRest
  <1>8. CASE StopWork
    BY <1>4, <1>8 DEF StopWork, userVars
  <1>9. CASE DestroyStep
    <2>1. ASSUME NEW c \in Conns, DestroyConnection(c) PROVE HeldInv'
      BY <2>1, HeldDestroy
    <2>2. ASSUME NEW l \in Loops, QuitThread(l) PROVE HeldInv'
      BY <2>2, <1>4 DEF QuitThread, serverVars, userVars
    <2>3. CASE ServerDestroyed
      BY <2>3, <1>4 DEF ServerDestroyed, userVars
    <2> QED
      BY <1>9, <2>1, <2>2, <2>3 DEF DestroyStep
  <1>10. CASE Terminated \/ UNCHANGED vars
    BY <1>4, <1>10 DEF Terminated, vars
  <1> QED
    BY <1>1, <1>2, <1>3, <1>5, <1>6, <1>7, <1>8, <1>9, <1>10 DEF Next

(* When onConnection keeps a session in the connection, as the unit        *)
(* manager's does, the bare `this' in the functors of send, shutdown,      *)
(* stopRead and startRead never dangles: whatever the callbacks and the    *)
(* other thread call, and also while ~TcpServer runs.                      *)
THEOREM ServerBareFunctors ==
    ASSUME KeepSession
    PROVE  Spec => []BareFunctorsAlive
  <1>1. HeldInv /\ [Next]_vars => HeldInv'
    BY HeldNext
  <1>2. HeldInv => BareFunctorsAlive
    <2> SUFFICES ASSUME HeldInv, NEW l \in Loops, NEW f \in Queued(l), f.fn \in BareFunctors
                 PROVE  Referenced(f.c)
      BY DEF BareFunctorsAlive, Queued
    <2>1. Entries(pending[l]) \subseteq AnyFunctor /\ Entries(batch[l]) \subseteq AnyFunctor
      BY EntriesTyped DEF HeldInv, HeldTypeOK
    <2>2. f \in AnyFunctor
      BY <2>1 DEF Queued
    <2>3. f.c \in Conns /\ con[f.c].ups > 0
      BY <2>2 DEF HeldInv, Held, AnyFunctor
    <2> QED
      BY <2>3 DEF HeldInv, Held, Referenced
  <1> QED
    BY <1>1, <1>2, HeldInit, PTL DEF Spec
-----------------------------------------------------------------------------
(* ~TcpServer starts while loop 0 polls or runs functors: whoever ends a   *)
(* connection first, the others find it closed.  A call on the destroyed   *)
(* server, or a second connectDestroyed, ends the process; until then the  *)
(* invariant holds.                                                        *)

(* The map has what loop 0 may be asked to take out of it.                 *)
Known(c) == loopOf[c] = Base \/ server = "running" => c \in connections_

(* A connection's value, the map and the functors of its life fit.         *)
CleanConn(c) ==
    /\ con[c].post = "none"
    /\ c \notin Created => con[c] = NewConn
    /\ \/ con[c] = NewConn
       \/ Open(con[c]) /\ con[c].state = "kConnected" /\ Known(c)
       \/ Down(con[c])
       \/ Dead(con[c])
    /\ "connectEstablished" \in Life(c) => con[c] = NewConn /\ loopOf[c] # Base /\ Known(c)
    /\ "removeConnectionInLoop" \in Life(c) => Shut(con[c]) /\ loopOf[c] # Base /\ Known(c)
    /\ "connectDestroyed" \in Life(c) => c \notin connections_

(* Other threads only send, nobody forces a close, and ~TcpServer has not  *)
(* interrupted loop 0 between the events of its channels.                  *)
Calm ==
    /\ ucall # NoCall => ucall.op = "send" /\ ucall.c \in Created /\ con[ucall.c].ups = 1
    /\ \A l \in Loops : \A f \in Queued(l) : f.fn # "forceCloseInLoop"
    /\ server = "destroying" => lpc[Base] # "handle"

CleanInv ==
    /\ ServerTypeOK /\ Placed /\ QueuedOnce /\ LoopPhases /\ Calm
    /\ \A c \in Conns : CleanConn(c)

Endings == ClosedCleanly /\ (~Aborted => CleanInv)

(* A step that concerns no connection but c.                               *)
Spares(c) ==
    /\ \A d \in Conns \ {c} : /\ con'[d] = con[d] /\ loopOf'[d] = loopOf[d]
                              /\ d \in connections_' <=> d \in connections_
                              /\ d \in Created' <=> d \in Created
    /\ \A l \in Loops : \A f \in Queued(l)' : f \in Queued(l) \/ f.c = c
    /\ server' = "running" => server = "running"

LEMMA CleanOthers ==
    ASSUME NEW c, Spares(c), NEW d \in Conns \ {c}, CleanConn(d)
    PROVE  CleanConn(d)'
  <1>1. /\ con'[d] = con[d] /\ loopOf'[d] = loopOf[d]
        /\ d \in connections_' <=> d \in connections_
        /\ d \in Created' <=> d \in Created
        /\ server' = "running" => server = "running"
    BY DEF Spares
  <1>2. Life(d)' \subseteq Life(d)
    <2> SUFFICES ASSUME NEW x \in LifeFns, NEW l \in Loops, Functor(x, d) \in Queued(l)'
                 PROVE  x \in Life(d)
      BY DEF Life
    <2>1. Functor(x, d).c = d
      BY DEF Functor
    <2>2. Functor(x, d) \in Queued(l)
      BY <2>1 DEF Spares
    <2> QED
      BY <2>2 DEF Life
  <1> QED
    BY <1>1, <1>2 DEF CleanConn, Known, Base

(* One loop moves; the connections of the others are left alone.           *)
LEMMA CleanLoops ==
    ASSUME LoopPhases, NEW l \in Loops, nextConnId_' = nextConnId_ \/ l = Base,
           \A m \in Loops \ {l} : /\ lpc'[m] = lpc[m] /\ active'[m] = active[m]
                                  /\ batch'[m] = batch[m],
           \A d \in Created : /\ d \in Created' /\ loopOf'[d] = loopOf[d]
                              /\ loopOf[d] # l => con'[d] = con[d],
           lpc'[l] # "run" => batch'[l] = <<>>,
           lpc'[l] # "handle" => active'[l] = {},
           Acceptor \in active'[l] => l = Base /\ nextConnId_' <= MaxConns,
           \A d \in active'[l] \ {Acceptor} :
               d \in Created' /\ loopOf'[d] = l /\ Open(con'[d])
    PROVE  LoopPhases'
  <1> SUFFICES ASSUME NEW m \in Loops \ {l}
               PROVE  /\ lpc'[m] # "run" => batch'[m] = <<>>
                      /\ lpc'[m] # "handle" => active'[m] = {}
                      /\ Acceptor \in active'[m] => m = Base /\ nextConnId_' <= MaxConns
                      /\ \A d \in active'[m] \ {Acceptor} :
                            d \in Created' /\ loopOf'[d] = m /\ Open(con'[d])
    BY DEF LoopPhases, Acceptor, Base
  <1>1. /\ lpc[m] # "run" => batch[m] = <<>>
        /\ lpc[m] # "handle" => active[m] = {}
        /\ Acceptor \in active[m] => m = Base /\ nextConnId_ <= MaxConns
        /\ \A d \in active[m] \ {Acceptor} :
              d \in Created /\ loopOf[d] = m /\ Open(con[d])
    BY DEF LoopPhases
  <1> QED
    BY <1>1

(* A functor is where it belongs.                                          *)
Fits(l, f) ==
    /\ f.c \in Created
    /\ f.fn = "removeConnectionInLoop" => l = Base
    /\ f.fn # "removeConnectionInLoop" => loopOf[f.c] = l
    /\ f.fn \in UseFns => con[f.c].ups = 1
    /\ f.fn # "forceCloseInLoop"

LEMMA CleanStep ==
    ASSUME CleanInv, NEW c, Spares(c), c \in Conns => CleanConn(c)',
           Created \subseteq Created',
           c \in Created => loopOf'[c] = loopOf[c] /\ (con[c].ups = 1 => con'[c].ups = 1),
           \A l \in Loops : \A f \in Queued(l)' : f \in Queued(l) \/ Fits(l, f)',
           ServerTypeOK', QueuedOnce', LoopPhases',
           ucall' # NoCall =>
              \/ ucall' = ucall
              \/ ucall'.op = "send" /\ ucall'.c \in Created' /\ con'[ucall'.c].ups = 1,
           server' = "destroying" => lpc'[Base] # "handle"
    PROVE  CleanInv'
  <1>1. /\ Created \subseteq Conns /\ Placed /\ Calm /\ \A d \in Conns : CleanConn(d)
    BY CreatedTyped DEF CleanInv
  <1>2. \A d \in Conns : CleanConn(d)'
    BY <1>1, CleanOthers
  <1>3. \A d \in Created : loopOf'[d] = loopOf[d] /\ (con[d].ups = 1 => con'[d].ups = 1)
    BY <1>1 DEF Spares
  <1>4. ASSUME NEW l \in Loops, NEW f \in Queued(l)' PROVE Fits(l, f)'
    <2>1. CASE f \in Queued(l)
      <3>1. Fits(l, f)
        BY <1>1, <2>1 DEF Fits, Placed, Calm
      <3> QED
        BY <1>3, <3>1 DEF Fits, Base
    <2> QED
      BY <2>1
  <1>5. Placed'
    BY <1>4 DEF Placed, Fits
  <1>6. Calm'
    <2>1. ucall' # NoCall =>
             ucall'.op = "send" /\ ucall'.c \in Created' /\ con'[ucall'.c].ups = 1
      BY <1>1, <1>3 DEF Calm
    <2>2. \A l \in Loops : \A f \in Queued(l)' : f.fn # "forceCloseInLoop"
      BY <1>4 DEF Fits
    <2> QED
      BY <2>1, <2>2 DEF Calm, NoCall, Base
  <1> QED
    BY <1>2, <1>5, <1>6 DEF CleanInv

(* Steps that touch no connection: the loops poll, take their batch over   *)
(* and end, the peer and the other thread act, the destructor moves on.    *)
LEMMA CleanStill ==
    ASSUME CleanInv, UNCHANGED <<nextConnId_, next_, connections_, con, loopOf>>,
           \A m \in Loops : Queued(m)' \subseteq Queued(m),
           pending' \in [Loops -> Seq(FunctorType)], batch' \in [Loops -> Seq(FunctorType)],
           active' \in [Loops -> SUBSET (Conns \cup {Acceptor})],
           lpc' \in [Loops -> {"poll", "handle", "run", "done"}],
           QueuedOnce', LoopPhases', server' = "running" => server = "running",
           ucall' # NoCall =>
              \/ ucall' = ucall
              \/ ucall'.op = "send" /\ ucall'.c \in Created /\ con[ucall'.c].ups = 1,
           server' = "destroying" => lpc'[Base] # "handle"
    PROVE  CleanInv'
  <1>1. ServerTypeOK /\ Created' = Created /\ Created \subseteq Conns
    BY CreatedTyped DEF CleanInv, Created
  <1>2. ServerTypeOK'
    BY <1>1 DEF ServerTypeOK
  <1>3. 0 \notin Conns
    BY BoundsAssumption DEF Conns
  <1>4. Spares(0)
    BY <1>1 DEF Spares
  <1>5. \A m \in Loops : \A f \in Queued(m)' : f \in Queued(m) \/ Fits(m, f)'
    OBVIOUS
  <1>6. 0 \notin Created
    BY <1>1, <1>3
  <1> QED
    BY <1>1, <1>2, <1>3, <1>4, <1>5, <1>6, CleanStep

LEMMA CleanQuiet ==
    ASSUME CleanInv,
           UNCHANGED <<nextConnId_, next_, connections_, con, loopOf, pending, batch, active, lpc>>,
           server' = "running" => server = "running",
           ucall' # NoCall =>
              \/ ucall' = ucall
              \/ ucall'.op = "send" /\ ucall'.c \in Created /\ con[ucall'.c].ups = 1,
           server' = "destroying" => lpc[Base] # "handle"
    PROVE  CleanInv'
  <1>1. ServerTypeOK /\ QueuedOnce /\ LoopPhases /\ Created' = Created
    BY DEF CleanInv, Created
  <1>2. /\ pending' \in [Loops -> Seq(FunctorType)] /\ batch' \in [Loops -> Seq(FunctorType)]
        /\ active' \in [Loops -> SUBSET (Conns \cup {Acceptor})]
        /\ lpc' \in [Loops -> {"poll", "handle", "run", "done"}]
    BY <1>1 DEF ServerTypeOK
  <1>3. QueuedOnce' /\ \A m \in Loops : Queued(m)' = Queued(m)
    BY <1>1 DEF QueuedOnce, Queued
  <1>4. LoopPhases'
    BY <1>1 DEF LoopPhases, Acceptor, Base
  <1> QED
    BY <1>2, <1>3, <1>4, CleanStill

LEMMA CleanPoll ==
    ASSUME CleanInv, NEW l \in Loops, NEW channels, PollReturns(l, channels),
           channels \subseteq Ready(l) \cup {Acceptor},
           Acceptor \in channels => l = Base /\ nextConnId_ <= MaxConns
    PROVE  CleanInv'
  <1>1. /\ ServerTypeOK /\ QueuedOnce /\ LoopPhases /\ Calm /\ Created \subseteq Conns
        /\ Created' = Created /\ \A d \in Conns : CleanConn(d)
    BY CreatedTyped DEF CleanInv, PollReturns, serverVars, Created
  <1>2. /\ lpc[l] = "poll" /\ active' = [active EXCEPT ![l] = channels]
        /\ lpc' = [lpc EXCEPT ![l] = "handle"] /\ LoopFree(l)
        /\ UNCHANGED <<nextConnId_, next_, server, connections_, con, loopOf, pending, batch,
                       ucall>>
    BY DEF PollReturns, serverVars, userVars
  <1>3. ASSUME NEW c \in Ready(l) PROVE c \in Created /\ loopOf[c] = l /\ Open(con[c])
    <2>1. c \in Created /\ loopOf[c] = l /\ con[c].index = "kAdded"
      BY DEF Ready
    <2>2. CleanConn(c)
      BY <1>1, <2>1
    <2> QED
      BY <2>1, <2>2, NewConnFields DEF CleanConn, Down, Dead
  <1>4. channels \subseteq Conns \cup {Acceptor}
    BY <1>1, <1>3
  <1>5. /\ active' \in [Loops -> SUBSET (Conns \cup {Acceptor})]
        /\ lpc' \in [Loops -> {"poll", "handle", "run", "done"}]
        /\ active'[l] = channels /\ lpc'[l] = "handle" /\ batch'[l] = <<>>
        /\ \A m \in Loops \ {l} : active'[m] = active[m] /\ lpc'[m] = lpc[m] /\ batch'[m] = batch[m]
    BY <1>1, <1>2, <1>4 DEF ServerTypeOK, LoopPhases
  <1>6. LoopPhases'
    BY <1>1, <1>2, <1>3, <1>5, CleanLoops
  <1>7. QueuedOnce' /\ \A m \in Loops : Queued(m)' = Queued(m)
    BY <1>1, <1>2 DEF QueuedOnce, Queued
  <1>8. pending' \in [Loops -> Seq(FunctorType)] /\ batch' \in [Loops -> Seq(FunctorType)]
    BY <1>1, <1>2 DEF ServerTypeOK
  <1>9. server' = "destroying" => lpc'[Base] # "handle"
    <2>1. server = "destroying" => l # Base
      BY <1>2 DEF LoopFree
    <2>2. Base \in Loops
      BY <1>1, CreatedTyped
    <2> QED
      BY <1>1, <1>2, <1>5, <2>1, <2>2 DEF Calm
  <1> QED
    BY <1>2, <1>5, <1>6, <1>7, <1>8, <1>9, CleanStill

LEMMA CleanIteration ==
    ASSUME CleanInv, NEW l \in Loops, Swap(l) \/ EndIteration(l)
    PROVE  CleanInv'
  <1>1. /\ ServerTypeOK /\ QueuedOnce /\ LoopPhases /\ Calm /\ Base \in Loops
        /\ UNCHANGED <<nextConnId_, next_, server, connections_, con, loopOf, active, ucall>>
        /\ Created' = Created /\ LoopFree(l)
    BY CreatedTyped DEF CleanInv, Swap, EndIteration, serverVars, userVars, Created
  <1>2. /\ pending \in [Loops -> Seq(FunctorType)] /\ batch \in [Loops -> Seq(FunctorType)]
        /\ lpc \in [Loops -> {"poll", "handle", "run", "done"}]
        /\ active \in [Loops -> SUBSET (Conns \cup {Acceptor})]
    BY <1>1 DEF ServerTypeOK
  <1>3. /\ lpc[l] # "run" => batch[l] = <<>>
        /\ lpc[l] # "handle" => active[l] = {}
    BY <1>1 DEF LoopPhases
  <1>4. <<>> \in Seq(FunctorType) /\ Entries(<<>>) = {} /\ Once(<<>>, LifeFns)
    BY EmptyEntries
  <1>5. PICK p, b \in Seq(FunctorType), w \in {"poll", "run", "done"} :
           /\ pending' = [pending EXCEPT ![l] = p] /\ batch' = [batch EXCEPT ![l] = b]
           /\ lpc' = [lpc EXCEPT ![l] = w] /\ active[l] = {}
           /\ \/ p = <<>> /\ b = pending[l] /\ w = "run" /\ batch[l] = <<>>
              \/ p \in {<<>>, pending[l]} /\ b = <<>> /\ batch[l] = <<>> /\ w # "run"
    <2>1. CASE Swap(l)
      BY <2>1, <1>2, <1>3, <1>4 DEF Swap
    <2>2. CASE EndIteration(l)
      <3>1. batch[l] = <<>> /\ batch' = [batch EXCEPT ![l] = <<>>] /\ active[l] = {}
        BY <2>2, <1>2, <1>3 DEF EndIteration
      <3>2. PICK w \in {"poll", "done"} : lpc' = [lpc EXCEPT ![l] = w]
        BY <2>2 DEF EndIteration
      <3>3. PICK p \in {<<>>, pending[l]} : pending' = [pending EXCEPT ![l] = p]
        BY <2>2 DEF EndIteration
      <3> QED
        BY <3>1, <3>2, <3>3, <1>2, <1>4
    <2> QED
      BY <2>1, <2>2
  <1>6. /\ pending' \in [Loops -> Seq(FunctorType)] /\ batch' \in [Loops -> Seq(FunctorType)]
        /\ lpc' \in [Loops -> {"poll", "handle", "run", "done"}]
        /\ pending'[l] = p /\ batch'[l] = b /\ lpc'[l] = w
        /\ \A m \in Loops \ {l} : /\ batch'[m] = batch[m] /\ pending'[m] = pending[m]
                                  /\ lpc'[m] = lpc[m] /\ active'[m] = active[m]
    BY <1>1, <1>2, <1>5
  <1>7. OnceInBoth(pending[l], batch[l])
    BY <1>1 DEF QueuedOnce
  <1>8. OnceInBoth(p, b) /\ Queued(l)' \subseteq Queued(l)
    BY <1>4, <1>5, <1>6, <1>7 DEF OnceInBoth, Queued
  <1>9. QueuedOnce' /\ \A m \in Loops : Queued(m)' \subseteq Queued(m)
    BY <1>1, <1>6, <1>8 DEF QueuedOnce, Queued
  <1>10. LoopPhases'
    BY <1>1, <1>5, <1>6, CleanLoops
  <1>11. server' = "destroying" => lpc'[Base] # "handle"
    BY <1>1, <1>6 DEF Calm, LoopFree
  <1>12. active' \in [Loops -> SUBSET (Conns \cup {Acceptor})]
    BY <1>1, <1>2
  <1> QED
    BY <1>1, <1>6, <1>9, <1>10, <1>11, <1>12, CleanStill

(* A new value of connection c of loop l is committed: the connection      *)
(* stays connected, is closed and hands itself to loop 0, or is past that. *)
LEMMA CleanCommit ==
    ASSUME CleanInv, NEW l \in Loops, NEW c \in Created, loopOf[c] = l,
           UNCHANGED <<nextConnId_, next_, server, loopOf, lpc, ucall>>,
           batch' \in [Loops -> Seq(FunctorType)],
           lpc[l] # "run" => batch'[l] = batch[l],
           active' \in [Loops -> SUBSET (Conns \cup {Acceptor})],
           active'[l] \subseteq active[l] \ {c},
           \A m \in Loops \ {l} : active'[m] = active[m] /\ batch'[m] = batch[m],
           \A m \in Loops : OnceInBoth(pending[m], batch'[m]) /\ Left(m) \subseteq Queued(m),
           \A m \in Loops : Functor("connectEstablished", c) \notin Left(m),
           NEW k \in Conn, Commit(c, k),
           \/ /\ k.post = "none" /\ Open(k) /\ k.state = "kConnected" /\ Known(c)
              /\ \A m \in Loops : Functor("removeConnectionInLoop", c) \notin Left(m)
           \/ k.post = "none" /\ (Down(k) \/ Dead(k))
           \/ k.post = "removeConnection" /\ Down(k) /\ Open(con[c])
    PROVE  CleanInv'
  <1>1. /\ ServerTypeOK /\ QueuedOnce /\ LoopPhases /\ Calm
        /\ Created' = Created /\ Created \subseteq Conns /\ c \in Conns /\ Base \in Loops
        /\ CleanConn(c)
    BY CreatedTyped DEF CleanInv, Created
  <1>2. /\ pending \in [Loops -> Seq(FunctorType)] /\ con \in [Conns -> Conn]
        /\ connections_ \subseteq Created
    BY <1>1 DEF ServerTypeOK
  <1>3. Open(con[c]) => Known(c) /\ "removeConnectionInLoop" \notin Life(c)
    BY <1>1, NewConnFields DEF CleanConn, Open, Down, Dead, Shut
  <1>4. /\ con' = [con EXCEPT ![c] = Cleared(k)]
        /\ k.post = "none" => UNCHANGED <<connections_, pending>>
        /\ k.post = "removeConnection" /\ l = Base =>
              /\ connections_' = connections_ \ {c}
              /\ QueueInLoop(Base, Functor("connectDestroyed", c))
        /\ k.post = "removeConnection" /\ l # Base =>
              /\ UNCHANGED connections_
              /\ QueueInLoop(Base, Functor("removeConnectionInLoop", c))
    <2>1. k.post = "removeConnection" /\ loopOf[c] = Base => c \in connections_
      BY <1>3 DEF Known
    <2> QED
      BY <1>1, <2>1, CommitCases
  <1>5. /\ con' \in [Conns -> Conn] /\ con'[c] = Cleared(k)
        /\ \A d \in Conns \ {c} : con'[d] = con[d]
        /\ con'[c].ups = 1 /\ con'[c].post = "none"
        /\ Open(k) => Open(con'[c])
        /\ Down(k) => Down(con'[c])
        /\ Dead(k) => Dead(con'[c])
        /\ con'[c].state = k.state
    <2>1. /\ Cleared(k) \in Conn /\ Cleared(k).post = "none" /\ Cleared(k).ups = k.ups
          /\ Open(k) => Open(Cleared(k))
          /\ Down(k) => Down(Cleared(k))
          /\ Dead(k) => Dead(Cleared(k))
      BY ClearedSame
    <2>2. k.ups = 1
      BY DEF Open, Down, Dead, Shut
    <2>3. Cleared(k).state = k.state
      BY DEF Cleared, Conn
    <2> QED
      BY <1>1, <1>2, <1>4, <2>1, <2>2, <2>3
  <1>6. LoopPhases'
    <2>1. /\ lpc[l] # "run" => batch[l] = <<>>
          /\ lpc[l] # "handle" => active[l] = {}
          /\ Acceptor \in active[l] => l = Base /\ nextConnId_ <= MaxConns
          /\ \A d \in active[l] \ {Acceptor} : d \in Created /\ loopOf[d] = l /\ Open(con[d])
      BY <1>1 DEF LoopPhases
    <2>2. \A d \in active'[l] \ {Acceptor} : d \in Created' /\ loopOf'[d] = l /\ Open(con'[d])
      BY <1>1, <1>5, <2>1
    <2>3. \A d \in Created : /\ d \in Created' /\ loopOf'[d] = loopOf[d]
                             /\ loopOf[d] # l => con'[d] = con[d]
      BY <1>1, <1>5
    <2> QED
      BY <1>1, <2>1, <2>2, <2>3, CleanLoops
  <1>7. ASSUME pending' \in [Loops -> Seq(FunctorType)], QueuedOnce',
               connections_' \subseteq Created,
               \A d \in Conns \ {c} : d \in connections_' <=> d \in connections_,
               \A m \in Loops : \A f \in Queued(m)' :
                   f \in Left(m) \/ (f.c = c /\ Fits(m, f)'),
               CleanConn(c)'
        PROVE  CleanInv'
    <2>1. ServerTypeOK'
      BY <1>1, <1>5, <1>7 DEF ServerTypeOK
    <2>2. Spares(c)
      BY <1>1, <1>5, <1>7 DEF Spares
    <2>3. server' = "destroying" => lpc'[Base] # "handle"
      BY <1>1 DEF Calm
    <2>4. \A m \in Loops : \A f \in Queued(m)' : f \in Queued(m) \/ Fits(m, f)'
      BY <1>7
    <2> QED
      BY <1>1, <1>5, <1>6, <1>7, <2>1, <2>2, <2>3, <2>4, CleanStep
  <1>8. Known(c) /\ connections_' = connections_ => Known(c)'
    BY DEF Known, Base
  <1>9. CASE k.post = "none"
    <2>1. QueuedOnce' /\ \A m \in Loops : Queued(m)' = Left(m)
      BY <1>4, <1>9, NothingPosted
    <2>2. Life(c)' \subseteq Life(c) /\ "connectEstablished" \notin Life(c)'
      BY <2>1 DEF Life
    <2>3. Open(k) => "removeConnectionInLoop" \notin Life(c)'
      <3>1. ~(Open(k) /\ (Down(k) \/ Dead(k)))
        BY DEF Open, Down, Dead, Shut
      <3> QED
        BY <2>1, <3>1, <1>9 DEF Life
    <2>4. connections_' = connections_ /\ pending' = pending
      BY <1>4, <1>9
    <2>5. Shut(con'[c]) \/ Open(k)
      BY <1>5, <1>9 DEF Down, Dead
    <2>6. CleanConn(c)'
      BY <1>1, <1>5, <1>8, <1>9, <2>2, <2>3, <2>4, <2>5 DEF CleanConn, Base, Known
    <2>7. \A m \in Loops : \A f \in Queued(m)' : f \in Left(m) \/ (f.c = c /\ Fits(m, f)')
      BY <2>1
    <2>8. /\ pending' \in [Loops -> Seq(FunctorType)] /\ connections_' \subseteq Created
          /\ \A d \in Conns \ {c} : d \in connections_' <=> d \in connections_
      BY <1>2, <2>4
    <2> QED
      BY <1>7, <2>1, <2>6, <2>7, <2>8
  <1>10. CASE k.post = "removeConnection" /\ l = Base
    <2> DEFINE g == Functor("connectDestroyed", c)
    <2>1. /\ connections_' = connections_ \ {c} /\ QueueInLoop(Base, g)
          /\ Down(k) /\ Open(con[c]) /\ c \in connections_
      BY <1>3, <1>4, <1>10 DEF Known
    <2>2. g \in FunctorType /\ g.c = c /\ g.fn = "connectDestroyed"
      BY <1>1, FunctorFields DEF LifeFns
    <2>3. g \notin Left(Base)
      <3>1. "connectDestroyed" \notin Life(c)
        BY <1>1, <2>1 DEF CleanConn
      <3>2. g \notin Queued(Base)
        BY <1>1, <3>1 DEF Life, LifeFns
      <3> QED
        BY <1>1, <3>2
    <2>4. \A x \in LifeFns : Functor(x, c) = g => x = "connectDestroyed"
      BY <1>1, <2>2, FunctorFields
    <2> HIDE DEF g
    <2>5. /\ pending' \in [Loops -> Seq(FunctorType)] /\ QueuedOnce'
          /\ \A m \in Loops \ {Base} : Queued(m)' = Left(m)
          /\ Queued(Base)' = Left(Base) \cup {g}
      BY <1>1, <1>2, <2>1, <2>2, <2>3, FunctorPosted
    <2>6. Life(c)' \subseteq Life(c) \cup {"connectDestroyed"}
      BY <1>1, <2>4, <2>5 DEF Life
    <2>7. "connectEstablished" \notin Life(c)'
      <3>1. Functor("connectEstablished", c) # g
        BY <2>4 DEF LifeFns
      <3> QED
        BY <3>1, <2>5, <1>1 DEF Life
    <2>8. CleanConn(c)'
      BY <1>1, <1>3, <1>5, <2>1, <2>6, <2>7 DEF CleanConn
    <2>9. Fits(Base, g)'
      BY <1>1, <1>10, <2>2 DEF Fits, Base, UseFns
    <2>10. \A m \in Loops : \A f \in Queued(m)' : f \in Left(m) \/ (f.c = c /\ Fits(m, f)')
      BY <2>2, <2>5, <2>9
    <2>11. /\ connections_' \subseteq Created
           /\ \A d \in Conns \ {c} : d \in connections_' <=> d \in connections_
      BY <1>2, <2>1
    <2> QED
      BY <1>7, <2>5, <2>8, <2>10, <2>11
  <1>11. CASE k.post = "removeConnection" /\ l # Base
    <2> DEFINE g == Functor("removeConnectionInLoop", c)
    <2>1. /\ connections_' = connections_ /\ QueueInLoop(Base, g)
          /\ Down(k) /\ Open(con[c]) /\ Known(c) /\ "removeConnectionInLoop" \notin Life(c)
      BY <1>3, <1>4, <1>11
    <2>2. g \in FunctorType /\ g.c = c /\ g.fn = "removeConnectionInLoop"
      BY <1>1, FunctorFields DEF LifeFns
    <2>3. g \notin Left(Base)
      <3>1. g \notin Queued(Base)
        BY <1>1, <2>1 DEF Life, LifeFns
      <3> QED
        BY <1>1, <3>1
    <2>4. \A x \in LifeFns : Functor(x, c) = g => x = "removeConnectionInLoop"
      BY <1>1, <2>2, FunctorFields
    <2> HIDE DEF g
    <2>5. /\ pending' \in [Loops -> Seq(FunctorType)] /\ QueuedOnce'
          /\ \A m \in Loops \ {Base} : Queued(m)' = Left(m)
          /\ Queued(Base)' = Left(Base) \cup {g}
      BY <1>1, <1>2, <2>1, <2>2, <2>3, FunctorPosted
    <2>6. Life(c)' \subseteq Life(c) \cup {"removeConnectionInLoop"}
      BY <1>1, <2>4, <2>5 DEF Life
    <2>7. "connectEstablished" \notin Life(c)'
      <3>1. Functor("connectEstablished", c) # g
        BY <2>4 DEF LifeFns
      <3> QED
        BY <3>1, <2>5, <1>1 DEF Life
    <2>8. Shut(con'[c]) /\ Known(c)' /\ loopOf'[c] # Base
      BY <1>5, <1>8, <1>11, <2>1 DEF Down
    <2>9. CleanConn(c)'
      BY <1>1, <1>5, <2>1, <2>6, <2>7, <2>8 DEF CleanConn, Base
    <2>10. Fits(Base, g)'
      BY <1>1, <2>2 DEF Fits, Base, UseFns
    <2>11. \A m \in Loops : \A f \in Queued(m)' : f \in Left(m) \/ (f.c = c /\ Fits(m, f)')
      BY <2>2, <2>5, <2>10
    <2>12. /\ connections_' \subseteq Created
           /\ \A d \in Conns \ {c} : d \in connections_' <=> d \in connections_
      BY <1>2, <2>1
    <2> QED
      BY <1>7, <2>5, <2>9, <2>11, <2>12
  <1> QED
    BY <1>9, <1>10, <1>11

LEMMA CleanChannel ==
    ASSUME CleanInv, LoopOps \subseteq {"send"},
           NEW l \in Loops, NEW c \in Conns, HandleChannel(l, c)
    PROVE  CleanInv'
  <1>1. /\ ServerTypeOK /\ QueuedOnce /\ LoopPhases /\ CleanConn(c)
        /\ lpc[l] = "handle" /\ c \in active[l] /\ active' = [active EXCEPT ![l] = @ \ {c}]
        /\ UNCHANGED <<nextConnId_, next_, server, loopOf, batch, lpc, ucall>>
    BY DEF CleanInv, HandleChannel, serverVars, userVars
  <1>2. PICK op \in LoopOps \cup {"none"}, partial \in BOOLEAN :
           Commit(c, HandleEvent(con[c], peer[c], op, partial))
    BY DEF HandleChannel
  <1> DEFINE k == HandleEvent(con[c], peer[c], op, partial)
  <1>3. c # Acceptor
    BY <1>1, CreatedTyped DEF Conns, Acceptor
  <1>4. c \in Created /\ loopOf[c] = l /\ Open(con[c])
    BY <1>1, <1>3 DEF LoopPhases
  <1>5. /\ con[c].post = "none" /\ con[c].state = "kConnected" /\ Known(c)
        /\ "removeConnectionInLoop" \notin Life(c) /\ "connectEstablished" \notin Life(c)
    BY <1>1, <1>4, NewConnFields DEF CleanConn, Open, Down, Dead, Shut
  <1>6. \/ Open(k) /\ k.state = "kConnected" /\ k.post = "none"
        \/ Down(k) /\ k.post = "removeConnection"
    <2>1. op \in {"send", "none"}
      OBVIOUS
    <2> QED
      BY <1>4, <1>5, <2>1, SendEvent
  <1>7. k \in Conn /\ Commit(c, k)
    BY <1>2, <1>6 DEF Open, Down, Shut
  <1> HIDE DEF k
  <1>8. \A m \in Loops : Left(m) = Queued(m) /\ OnceInBoth(pending[m], batch'[m])
    BY <1>1, NothingTaken
  <1>9. \A m \in Loops : /\ Functor("connectEstablished", c) \notin Left(m)
                         /\ Functor("removeConnectionInLoop", c) \notin Left(m)
    BY <1>5, <1>8 DEF Life, LifeFns
  <1>10. /\ active' \in [Loops -> SUBSET (Conns \cup {Acceptor})]
         /\ active'[l] = active[l] \ {c} /\ \A m \in Loops \ {l} : active'[m] = active[m]
         /\ batch' \in [Loops -> Seq(FunctorType)]
    BY <1>1 DEF ServerTypeOK
  <1>11. /\ active'[l] \subseteq active[l] \ {c} /\ batch'[l] = batch[l]
         /\ \A m \in Loops \ {l} : active'[m] = active[m] /\ batch'[m] = batch[m]
    BY <1>1, <1>10
  <1>12. \A m \in Loops : OnceInBoth(pending[m], batch'[m]) /\ Left(m) \subseteq Queued(m)
    BY <1>8
  <1>13. \/ /\ k.post = "none" /\ Open(k) /\ k.state = "kConnected" /\ Known(c)
            /\ \A m \in Loops : Functor("removeConnectionInLoop", c) \notin Left(m)
         \/ k.post = "none" /\ (Down(k) \/ Dead(k))
         \/ k.post = "removeConnection" /\ Down(k) /\ Open(con[c])
    BY <1>4, <1>5, <1>6, <1>9
  <1> QED
    BY <1>1, <1>4, <1>7, <1>9, <1>10, <1>11, <1>12, <1>13, CleanCommit

(* A step that only records a failed assert of connectDestroyed or a call  *)
(* on the destroyed server.                                                *)
LEMMA CleanAbort ==
    ASSUME CleanInv, NEW c \in Conns, NEW k, con' = [con EXCEPT ![c] = k],
           k.bad = {"Poller::removeChannel"} \/ k.bad = {"server destroyed"}
    PROVE  Endings'
  <1>1. con \in [Conns -> Conn] /\ \A d \in Conns : con[d].bad = {}
    BY NewConnFields DEF CleanInv, ServerTypeOK, CleanConn, Open, Down, Dead, Shut
  <1>2. con'[c] = k /\ \A d \in Conns \ {c} : con'[d].bad = {}
    BY <1>1
  <1>3. Aborted'
    BY <1>2 DEF Aborted
  <1>4. ClosedCleanly'
    <2>1. \A d \in Conns : con'[d].bad \subseteq {"Poller::removeChannel", "server destroyed"}
      BY <1>2
    <2>2. \A d \in Conns : /\ "handleClose" \notin con'[d].bad
                           /\ "removeConnectionInLoop" \notin con'[d].bad
                           /\ "Channel::remove" \notin con'[d].bad
      BY <2>1
    <2> QED
      BY <2>2 DEF ClosedCleanly, ClosedOnce, RemovedOnce, RemovedChannelIsQuiet
  <1> QED
    BY <1>3, <1>4 DEF Endings

LEMMA CleanEnds ==
    ASSUME CleanInv
    PROVE  Endings
  <1>1. \A d \in Conns : con[d].bad = {}
    BY NewConnFields DEF CleanInv, CleanConn, Open, Down, Dead, Shut
  <1> QED
    BY <1>1 DEF Endings, ClosedCleanly, ClosedOnce, RemovedOnce, RemovedChannelIsQuiet

LEMMA CleanRunning ==
    ASSUME CleanInv, NEW l \in Loops, NEW c, NEW fn, Running(l, c, fn)
    PROVE  /\ c \in Created /\ c \in Conns /\ fn \in LifeFns \cup UseFns
           /\ Created' = Created
           /\ Functor(fn, c) \in Queued(l) /\ Functor(fn, c) \in FunctorType
           /\ batch' \in [Loops -> Seq(FunctorType)]
           /\ \A m \in Loops : OnceInBoth(pending[m], batch'[m]) /\ Left(m) \subseteq Queued(m)
           /\ \A m \in Loops \ {l} : batch'[m] = batch[m]
           /\ fn \in LifeFns => Functor(fn, c) \notin Left(l)
           /\ fn # "removeConnectionInLoop" => loopOf[c] = l
           /\ fn = "removeConnectionInLoop" => l = Base
           /\ fn \in UseFns => con[c].ups = 1
           /\ fn # "forceCloseInLoop"
           /\ fn \in LifeFns => fn \in Life(c)
           /\ CleanConn(c)
           /\ active[l] = {}
  <1>1. /\ ServerTypeOK /\ QueuedOnce /\ Placed /\ LoopPhases /\ Calm
        /\ \A d \in Conns : CleanConn(d)
    BY DEF CleanInv
  <1> DEFINE h == Head(batch[l])
  <1>2. /\ batch' \in [Loops -> Seq(FunctorType)]
        /\ h \in FunctorType /\ h \in Queued(l)
        /\ \A k \in Loops : OnceInBoth(pending[k], batch'[k])
        /\ \A k \in Loops \ {l} : Left(k) = Queued(k) /\ batch'[k] = batch[k]
        /\ Left(l) \subseteq Queued(l)
        /\ h.fn \in LifeFns => h \notin Left(l)
    BY <1>1, FunctorTaken DEF Running
  <1>3. h = Functor(fn, c) /\ fn \in LifeFns \cup UseFns /\ h.fn = fn /\ h.c = c
    BY <1>2, FunctorIsItself DEF Running
  <1> HIDE DEF h
  <1>4. /\ c \in Created
        /\ fn = "removeConnectionInLoop" => l = Base
        /\ fn # "removeConnectionInLoop" => loopOf[c] = l
        /\ fn \in UseFns => con[c].ups = 1
        /\ fn # "forceCloseInLoop"
    BY <1>1, <1>2, <1>3 DEF Placed, Calm
  <1>5. c \in Conns /\ Created' = Created /\ CleanConn(c)
    BY <1>1, <1>4, CreatedTyped DEF Created, Running
  <1>6. fn \in LifeFns => fn \in Life(c)
    BY <1>2, <1>3 DEF Life
  <1>7. active[l] = {}
    BY <1>1 DEF LoopPhases, Running
  <1>8. \A m \in Loops : OnceInBoth(pending[m], batch'[m]) /\ Left(m) \subseteq Queued(m)
    BY <1>2
  <1> QED
    BY <1>2, <1>3, <1>4, <1>5, <1>6, <1>7, <1>8

(* The functors of a batch: connectEstablished, connectDestroyed, send's.  *)
LEMMA CleanRunUse ==
    ASSUME CleanInv, NEW l \in Loops, NEW c, NEW fn, Running(l, c, fn),
           fn # "removeConnectionInLoop", NEW k \in Conn, Commit(c, k), k.post = "none",
           fn # "connectEstablished" => con[c] # NewConn,
           \/ /\ Open(k) /\ k.state = "kConnected" /\ Known(c)
              /\ "removeConnectionInLoop" \notin Life(c)
           \/ Down(k)
           \/ Dead(k)
    PROVE  CleanInv'
  <1>1. /\ c \in Created /\ c \in Conns /\ fn \in LifeFns \cup UseFns
        /\ batch' \in [Loops -> Seq(FunctorType)]
        /\ \A m \in Loops : OnceInBoth(pending[m], batch'[m]) /\ Left(m) \subseteq Queued(m)
        /\ \A m \in Loops \ {l} : batch'[m] = batch[m]
        /\ fn \in LifeFns => Functor(fn, c) \notin Left(l)
        /\ loopOf[c] = l /\ CleanConn(c) /\ active[l] = {}
    BY CleanRunning
  <1>2. /\ lpc[l] = "run"
        /\ UNCHANGED <<nextConnId_, next_, server, loopOf, active, lpc, ucall>>
    BY DEF Running
  <1>3. \A m \in Loops : Functor("connectEstablished", c) \notin Left(m)
    <2>1. CASE fn = "connectEstablished"
      <3>1. ASSUME NEW m \in Loops, Functor(fn, c) \in Left(m) PROVE FALSE
        <4>1. Functor(fn, c).c = c /\ Functor(fn, c).fn = fn
          BY DEF Functor
        <4>2. loopOf[c] = m
          BY <1>1, <2>1, <3>1, <4>1 DEF CleanInv, Placed
        <4> QED
          BY <1>1, <2>1, <3>1, <4>2 DEF LifeFns
      <3> QED
        BY <2>1, <3>1
    <2>2. CASE fn # "connectEstablished"
      <3>1. "connectEstablished" \notin Life(c)
        BY <1>1, <2>2 DEF CleanConn
      <3> QED
        BY <1>1, <3>1 DEF Life, LifeFns
    <2> QED
      BY <2>1, <2>2
  <1>4. "removeConnectionInLoop" \notin Life(c) =>
           \A m \in Loops : Functor("removeConnectionInLoop", c) \notin Left(m)
    BY <1>1 DEF Life, LifeFns
  <1>5. \/ /\ k.post = "none" /\ Open(k) /\ k.state = "kConnected" /\ Known(c)
           /\ \A m \in Loops : Functor("removeConnectionInLoop", c) \notin Left(m)
        \/ k.post = "none" /\ (Down(k) \/ Dead(k))
        \/ k.post = "removeConnection" /\ Down(k) /\ Open(con[c])
    BY <1>4
  <1>6. active' \in [Loops -> SUBSET (Conns \cup {Acceptor})]
    BY <1>2 DEF CleanInv, ServerTypeOK
  <1>7. /\ active'[l] \subseteq active[l] \ {c}
        /\ \A m \in Loops \ {l} : active'[m] = active[m] /\ batch'[m] = batch[m]
    BY <1>1, <1>2
  <1> QED
    BY <1>1, <1>2, <1>3, <1>5, <1>6, <1>7, CleanCommit

LEMMA CleanEstablished ==
    ASSUME CleanInv, NEW l \in Loops, NEW c, Running(l, c, "connectEstablished"),
           Commit(c, ConnectEstablished(con[c]))
    PROVE  CleanInv'
  <1>1. CleanConn(c) /\ "connectEstablished" \in Life(c)
    BY CleanRunning DEF LifeFns
  <1>2. con[c] = NewConn /\ Known(c)
    BY <1>1 DEF CleanConn
  <1>3. "removeConnectionInLoop" \notin Life(c)
    BY <1>1, <1>2, NewConnFields DEF CleanConn, Shut
  <1> DEFINE k == ConnectEstablished(con[c])
  <1>4. Open(k) /\ k.state = "kConnected" /\ k.post = "none" /\ k \in Conn
    BY <1>2, EstablishedOpens DEF Open
  <1> HIDE DEF k
  <1>5. Commit(c, k)
    BY DEF k
  <1> QED
    BY <1>2, <1>3, <1>4, <1>5, CleanRunUse

LEMMA CleanSend ==
    ASSUME CleanInv, NEW l \in Loops, NEW c, Running(l, c, "sendInLoop"),
           NEW partial \in BOOLEAN, Commit(c, SendInLoop(con[c], partial))
    PROVE  CleanInv'
  <1>1. CleanConn(c) /\ con[c].ups = 1
    BY CleanRunning DEF UseFns
  <1>2. con[c] # NewConn /\ con[c].post = "none"
    BY <1>1, NewConnFields DEF CleanConn
  <1> DEFINE k == SendInLoop(con[c], partial)
  <1>3. CASE Open(con[c]) /\ con[c].state = "kConnected" /\ Known(c)
    <2>1. Open(k) /\ k.state = "kConnected" /\ k.post = "none" /\ k \in Conn
      BY <1>2, <1>3, SendKeepsOpen DEF Open
    <2>2. "removeConnectionInLoop" \notin Life(c)
      BY <1>1, <1>3 DEF CleanConn, Open, Shut
    <2> HIDE DEF k
    <2>3. Commit(c, k)
      BY DEF k
    <2> QED
      BY <1>2, <1>3, <2>1, <2>2, <2>3, CleanRunUse
  <1>4. CASE Down(con[c]) \/ Dead(con[c])
    <2>1. k = con[c] /\ con[c] \in Conn
      BY <1>4, LateCalls DEF Down, Dead, Shut
    <2> HIDE DEF k
    <2>2. Commit(c, k)
      BY DEF k
    <2> QED
      BY <1>2, <1>4, <2>1, <2>2, CleanRunUse
  <1> QED
    BY <1>1, <1>2, <1>3, <1>4 DEF CleanConn

LEMMA CleanDestroyed ==
    ASSUME CleanInv, NEW l \in Loops, NEW c, Running(l, c, "connectDestroyed"),
           Commit(c, ConnectDestroyed(con[c]))
    PROVE  Endings'
  <1>1. CleanConn(c) /\ c \in Conns
    BY CleanRunning
  <1> DEFINE k == ConnectDestroyed(con[c])
  <1>2. con[c].post = "none"
    BY <1>1 DEF CleanConn
  <1>3. CASE (Open(con[c]) /\ con[c].state = "kConnected") \/ Down(con[c])
    <2>1. Dead(k) /\ k.post = "none" /\ k \in Conn /\ con[c] # NewConn
      BY <1>2, <1>3, DestroyCloses, DestroyRemoves, NewConnFields DEF Dead, Shut, Open, Down
    <2> HIDE DEF k
    <2>2. Commit(c, k)
      BY DEF k
    <2>3. CleanInv'
      BY <2>1, <2>2, CleanRunUse
    <2> QED
      BY <2>3, CleanEnds, PTL
  <1>4. CASE con[c] = NewConn \/ Dead(con[c])
    <2>1. con[c] \in Conn /\ con[c].state # "kConnected" /\ con[c].events = {}
          /\ con[c].index = "kNew" /\ con[c].bad = {}
      BY <1>4, NewConnFields DEF Dead, Shut
    <2>2. k \in Conn /\ k.post = "none" /\ k.bad = {"Poller::removeChannel"}
      BY <1>2, <2>1, DestroyAgain
    <2> HIDE DEF k
    <2>3. con' = [con EXCEPT ![c] = Cleared(k)]
      <3>1. Commit(c, k)
        BY DEF k
      <3> QED
        BY <1>1, <2>2, <3>1, CommitCases
    <2>4. Cleared(k).bad = {"Poller::removeChannel"}
      BY <2>2 DEF Cleared, Conn
    <2> QED
      BY <1>1, <2>3, <2>4, CleanAbort
  <1> QED
    BY <1>1, <1>3, <1>4 DEF CleanConn

(* removeConnectionInLoop: of a server that lives it hands the connection  *)
(* back to its loop; on a dead one the process ends.                       *)
LEMMA CleanRemove ==
    ASSUME CleanInv, NEW l \in Loops, NEW c, Running(l, c, "removeConnectionInLoop"),
           RemoveConnectionInLoop(c)
    PROVE  Endings'
  <1>1. /\ c \in Created /\ c \in Conns /\ Created' = Created
        /\ batch' \in [Loops -> Seq(FunctorType)]
        /\ \A m \in Loops : OnceInBoth(pending[m], batch'[m]) /\ Left(m) \subseteq Queued(m)
        /\ \A m \in Loops \ {l} : batch'[m] = batch[m]
        /\ Functor("removeConnectionInLoop", c) \notin Left(l)
        /\ l = Base /\ "removeConnectionInLoop" \in Life(c) /\ CleanConn(c) /\ active[l] = {}
    BY CleanRunning DEF LifeFns
  <1>2. Shut(con[c]) /\ loopOf[c] # Base /\ Known(c) /\ (Down(con[c]) \/ Dead(con[c]))
    BY <1>1, NewConnFields DEF CleanConn, Shut, Open
  <1>3. /\ ServerTypeOK /\ LoopPhases /\ Calm /\ Placed /\ Base \in Loops
        /\ con \in [Conns -> Conn] /\ pending \in [Loops -> Seq(FunctorType)]
        /\ connections_ \subseteq Created /\ lpc[l] = "run"
        /\ UNCHANGED <<nextConnId_, next_, server, loopOf, active, lpc, ucall>>
    BY CreatedTyped DEF CleanInv, ServerTypeOK, Running
  <1>4. CASE server # "running"
    <2> DEFINE k == [con[c] EXCEPT !.bad = @ \cup {"server destroyed"}]
    <2>1. con' = [con EXCEPT ![c] = k]
      BY <1>3, <1>4 DEF RemoveConnectionInLoop, Assert
    <2>2. k.bad = {"server destroyed"}
      BY <1>2 DEF Shut, Conn
    <2> HIDE DEF k
    <2> QED
      BY <1>1, <2>1, <2>2, CleanAbort
  <1>5. CASE server = "running"
    <2>1. c \in connections_
      BY <1>2, <1>5 DEF Known
    <2>2. con' = con
      BY <1>1, <1>3, <1>5, <2>1 DEF RemoveConnectionInLoop, Assert
    <2>3. PICK n \in Loops : n = loopOf[c]
      BY <1>1, <1>3 DEF ServerTypeOK
    <2> DEFINE g == Functor("connectDestroyed", c)
    <2>4. connections_' = connections_ \ {c} /\ QueueInLoop(n, g)
      BY <2>3 DEF RemoveConnectionInLoop
    <2>5. g \in FunctorType /\ g.c = c /\ g.fn = "connectDestroyed"
      BY <1>1, FunctorFields DEF LifeFns
    <2>6. g \notin Left(n)
      <3>1. "connectDestroyed" \notin Life(c)
        BY <1>1, <2>1 DEF CleanConn
      <3>2. g \notin Queued(n)
        BY <3>1 DEF Life, LifeFns
      <3> QED
        BY <1>1, <3>2
    <2>7. \A x \in LifeFns : Functor(x, c) = g => x = "connectDestroyed"
      BY <1>1, <2>5, FunctorFields
    <2> HIDE DEF g
    <2>8. /\ pending' \in [Loops -> Seq(FunctorType)] /\ QueuedOnce'
          /\ \A m \in Loops \ {n} : Queued(m)' = Left(m)
          /\ Queued(n)' = Left(n) \cup {g}
      BY <1>1, <1>3, <2>4, <2>5, <2>6, FunctorPosted
    <2>9. Life(c)' \subseteq Life(c) \cup {"connectDestroyed"}
      BY <1>1, <2>7, <2>8 DEF Life
    <2>10. "removeConnectionInLoop" \notin Life(c)'
      <3>1. ASSUME NEW m \in Loops, Functor("removeConnectionInLoop", c) \in Queued(m)'
            PROVE  FALSE
        <4>1. Functor("removeConnectionInLoop", c) \in Left(m)
          BY <2>7, <2>8, <3>1 DEF LifeFns
        <4>2. /\ Functor("removeConnectionInLoop", c).fn = "removeConnectionInLoop"
              /\ Functor("removeConnectionInLoop", c) \in Queued(m)
          BY <1>1, <4>1 DEF Functor
        <4>3. m = Base
          BY <1>3, <4>2 DEF Placed
        <4> QED
          BY <1>1, <4>1, <4>3
      <3> QED
        BY <3>1 DEF Life
    <2>11. "connectEstablished" \notin Life(c)'
      BY <1>1, <1>2, <2>9, NewConnFields DEF CleanConn, Shut
    <2>12. CleanConn(c)'
      BY <1>1, <1>2, <2>2, <2>4, <2>10, <2>11 DEF CleanConn
    <2>13. Spares(c)
      <3>1. \A m \in Loops : \A f \in Queued(m)' : f \in Queued(m) \/ f.c = c
        BY <1>1, <2>5, <2>8
      <3> QED
        BY <1>1, <1>3, <2>2, <2>4, <3>1 DEF Spares
    <2>14. Fits(n, g)'
      BY <1>1, <1>3, <2>3, <2>5 DEF Fits, Base, UseFns
    <2>15. \A m \in Loops : \A f \in Queued(m)' : f \in Queued(m) \/ Fits(m, f)'
      BY <1>1, <2>8, <2>14
    <2>16. ServerTypeOK'
      BY <1>1, <1>3, <2>2, <2>4, <2>8 DEF ServerTypeOK
    <2>17. LoopPhases'
      BY <1>1, <1>3, <2>2, CleanLoops
    <2>18. server' = "destroying" => lpc'[Base] # "handle"
      BY <1>3, <1>5
    <2>19. CleanInv'
      BY <1>1, <1>3, <2>2, <2>8, <2>12, <2>13, <2>15, <2>16, <2>17, <2>18, CleanStep
    <2> QED
      BY <2>19, CleanEnds, PTL
  <1> QED
    BY <1>4, <1>5

LEMMA CleanRun ==
    ASSUME CleanInv, NEW l \in Loops, RunFunctor(l)
    PROVE  Endings'
  <1> DEFINE f == Head(batch[l])
  <1>1. Running(l, f.c, f.fn)
    BY DEF RunFunctor, Running, serverVars, userVars
  <1>2. f.fn \in LifeFns \cup UseFns /\ f.fn # "forceCloseInLoop"
    BY <1>1, CleanRunning
  <1>3. CASE f.fn = "connectEstablished"
    <2>1. Commit(f.c, ConnectEstablished(con[f.c]))
      BY <1>3 DEF RunFunctor
    <2>2. CleanInv'
      BY <1>1, <1>3, <2>1, CleanEstablished
    <2> QED
      BY <2>2, CleanEnds, PTL
  <1>4. CASE f.fn = "connectDestroyed"
    <2>1. Commit(f.c, ConnectDestroyed(con[f.c]))
      BY <1>4 DEF RunFunctor
    <2> QED
      BY <1>1, <1>4, <2>1, CleanDestroyed
  <1>5. CASE f.fn = "removeConnectionInLoop"
    <2>1. RemoveConnectionInLoop(f.c)
      BY <1>5 DEF RunFunctor
    <2> QED
      BY <1>1, <1>5, <2>1, CleanRemove
  <1>6. CASE f.fn = "sendInLoop"
    <2>1. PICK partial \in BOOLEAN : Commit(f.c, SendInLoop(con[f.c], partial))
      BY <1>6 DEF RunFunctor
    <2>2. CleanInv'
      BY <1>1, <1>6, <2>1, CleanSend
    <2> QED
      BY <2>2, CleanEnds, PTL
  <1> QED
    BY <1>2, <1>3, <1>4, <1>5, <1>6 DEF LifeFns, UseFns

LEMMA CleanAccept ==
    ASSUME CleanInv, NewConnection
    PROVE  CleanInv'
  <1>1. /\ ServerTypeOK /\ Placed /\ QueuedOnce /\ LoopPhases /\ Calm
        /\ \A d \in Conns : CleanConn(d)
        /\ Created \subseteq Conns /\ MaxConns \in Nat /\ NumThreads \in Nat /\ Base \in Loops
        /\ UNCHANGED <<server, batch, lpc, ucall>>
        /\ Acceptor \in active[Base] /\ lpc[Base] = "handle"
        /\ active' = [active EXCEPT ![Base] = @ \ {Acceptor}]
    BY CreatedTyped DEF CleanInv, NewConnection, userVars
  <1>2. PICK c \in Conns : c = nextConnId_
    BY <1>1 DEF LoopPhases, ServerTypeOK, Conns
  <1>3. /\ c \notin Created /\ Created' = Created \cup {c} /\ Created' \subseteq Conns
        /\ nextConnId_' \in 1..(MaxConns + 1)
    BY <1>1, <1>2 DEF NewConnection, Created, Conns, ServerTypeOK
  <1>4. con[c] = NewConn /\ c \notin connections_ /\ \A n \in Loops : \A f \in Queued(n) : f.c # c
    BY <1>1, <1>3 DEF CleanConn, ServerTypeOK, Placed
  <1>5. PICK m \in Loops : m = NextLoop
    BY <1>1 DEF NextLoop, Loops, Base, ServerTypeOK
  <1>6. next_' \in Nat /\ (NumThreads # 0 => next_' < NumThreads)
    BY <1>1 DEF NewConnection, ServerTypeOK
  <1>7. /\ loopOf' \in [Conns -> Loops] /\ loopOf'[c] = m
        /\ \A d \in Conns \ {c} : loopOf'[d] = loopOf[d]
    BY <1>1, <1>2, <1>5 DEF NewConnection, ServerTypeOK
  <1>8. connections_' = connections_ \cup {c} /\ connections_' \subseteq Created'
    BY <1>1, <1>2, <1>3 DEF NewConnection, ServerTypeOK
  <1>9. \A n \in Loops : Left(n) = Queued(n) /\ OnceInBoth(pending[n], batch'[n])
    BY <1>1, NothingTaken
  <1>10. /\ active' \in [Loops -> SUBSET (Conns \cup {Acceptor})]
         /\ active'[Base] = active[Base] \ {Acceptor}
         /\ \A n \in Loops \ {Base} : active'[n] = active[n]
    BY <1>1 DEF ServerTypeOK
  <1>11. ASSUME con' \in [Conns -> Conn], \A d \in Conns \ {c} : con'[d] = con[d],
                pending' \in [Loops -> Seq(FunctorType)], QueuedOnce', CleanConn(c)',
                \A n \in Loops : \A f \in Queued(n)' :
                    f \in Queued(n) \/ (f.c = c /\ f.fn = "connectEstablished" /\ n = m)
         PROVE  CleanInv'
    <2>1. ServerTypeOK'
      BY <1>1, <1>3, <1>6, <1>7, <1>8, <1>10, <1>11 DEF ServerTypeOK
    <2>2. Spares(c)
      BY <1>1, <1>3, <1>7, <1>8, <1>11 DEF Spares
    <2>3. \A n \in Loops : \A f \in Queued(n)' : f \in Queued(n) \/ Fits(n, f)'
      <3>1. ASSUME NEW n \in Loops, NEW f \in Queued(n)', f.c = c, f.fn = "connectEstablished",
                   n = m
            PROVE  Fits(n, f)'
        BY <3>1, <1>3, <1>7 DEF Fits, UseFns
      <3> QED
        BY <3>1, <1>11
    <2>4. LoopPhases'
      <3>1. /\ batch[Base] = <<>> /\ \A d \in active[Base] \ {Acceptor} :
                  d \in Created /\ loopOf[d] = Base /\ Open(con[d])
        BY <1>1 DEF LoopPhases
      <3>2. \A d \in Created : /\ d \in Created' /\ loopOf'[d] = loopOf[d] /\ con'[d] = con[d]
        BY <1>1, <1>3, <1>7, <1>11
      <3> QED
        BY <3>1, <3>2, <1>1, <1>10, CleanLoops
    <2>5. server' = "destroying" => lpc'[Base] # "handle"
      BY <1>1 DEF Calm
    <2> QED
      BY <1>1, <1>3, <1>11, <2>1, <2>2, <2>3, <2>4, <2>5, CleanStep
  <1>12. \A x \in LifeFns : Functor(x, c).c = c /\ Functor(x, c).fn = x
    BY DEF Functor
  <1>13. CASE m = Base
    <2> DEFINE k == ConnectEstablished(NewConn)
    <2>1. con' = [con EXCEPT ![c] = k] /\ pending' = pending
      BY <1>2, <1>4, <1>5, <1>13 DEF NewConnection
    <2>2. Open(k) /\ k.post = "none" /\ k.state = "kConnected" /\ k \in Conn
      BY EstablishedOpens DEF Open
    <2> HIDE DEF k
    <2>3. /\ con' \in [Conns -> Conn] /\ con'[c] = k
          /\ \A d \in Conns \ {c} : con'[d] = con[d]
      BY <1>1, <2>1, <2>2 DEF ServerTypeOK
    <2>4. QueuedOnce' /\ \A n \in Loops : Queued(n)' = Queued(n)
      BY <1>9, <2>1, NothingPosted
    <2>5. Life(c)' = {}
      BY <1>4, <1>12, <2>4 DEF Life
    <2>6. CleanConn(c)'
      BY <2>2, <2>3, <2>5, <1>3, <1>8 DEF CleanConn, Known
    <2>7. pending' \in [Loops -> Seq(FunctorType)]
      BY <1>1, <2>1 DEF ServerTypeOK
    <2> QED
      BY <1>11, <2>3, <2>4, <2>6, <2>7
  <1>14. CASE m # Base
    <2> DEFINE g == Functor("connectEstablished", c)
    <2>1. con' = con /\ QueueInLoop(m, g)
      BY <1>2, <1>5, <1>14 DEF NewConnection
    <2>2. g \in FunctorType /\ g.c = c /\ g.fn = "connectEstablished" /\ g.fn \in LifeFns
      BY FunctorFields DEF LifeFns
    <2> HIDE DEF g
    <2>3. g \notin Left(m) /\ pending \in [Loops -> Seq(FunctorType)]
      BY <1>1, <1>4, <1>9, <2>2 DEF ServerTypeOK
    <2>4. /\ pending' \in [Loops -> Seq(FunctorType)] /\ QueuedOnce'
          /\ \A n \in Loops \ {m} : Queued(n)' = Queued(n)
          /\ Queued(m)' = Queued(m) \cup {g}
      BY <1>9, <2>1, <2>2, <2>3, FunctorPosted
    <2>5. Life(c)' \subseteq {"connectEstablished"}
      <3>1. ASSUME NEW x \in LifeFns, NEW n \in Loops, Functor(x, c) \in Queued(n)'
            PROVE  x = "connectEstablished"
        <4>1. Functor(x, c) = g
          BY <3>1, <1>4, <1>12, <2>4
        <4> QED
          BY <4>1, <1>12, <2>2
      <3> QED
        BY <3>1 DEF Life
    <2>6. CleanConn(c)'
      <3>1. con'[c] = NewConn /\ NewConn.post = "none" /\ c \in connections_' /\ c \in Created'
        BY <2>1, <1>3, <1>4, <1>8, NewConnFields
      <3>2. loopOf'[c] # Base
        BY <1>7, <1>14
      <3> QED
        BY <3>1, <3>2, <2>5 DEF CleanConn, Known, Base
    <2>7. con' \in [Conns -> Conn]
      BY <1>1, <2>1 DEF ServerTypeOK
    <2>8. \A n \in Loops : \A f \in Queued(n)' :
             f \in Queued(n) \/ (f.c = c /\ f.fn = "connectEstablished" /\ n = m)
      BY <2>2, <2>4
    <2> QED
      BY <1>11, <2>1, <2>4, <2>6, <2>7, <2>8
  <1> QED
    BY <1>13, <1>14

LEMMA CleanCallRest ==
    ASSUME CleanInv, UserCallRest
    PROVE  CleanInv'
  <1>1. /\ ServerTypeOK /\ Placed /\ QueuedOnce /\ LoopPhases /\ Calm
        /\ \A d \in Conns : CleanConn(d)
        /\ UNCHANGED <<nextConnId_, next_, server, connections_, loopOf, batch, active, lpc>>
        /\ Created' = Created /\ Created \subseteq Conns
        /\ ucall # NoCall /\ ucall' = NoCall
    BY CreatedTyped DEF CleanInv, UserCallRest, serverVars, Created
  <1>2. PICK c \in Created : c = ucall.c /\ ucall.op = "send" /\ con[c].ups = 1
    BY <1>1 DEF Calm
  <1> DEFINE g == Functor("sendInLoop", c)
  <1>3. con' = con /\ QueueInLoop(loopOf[c], g) /\ c \in Conns
    BY <1>1, <1>2 DEF UserCallRest
  <1>4. PICK m \in Loops : m = loopOf[c]
    BY <1>1, <1>3 DEF ServerTypeOK
  <1>5. /\ g \in FunctorType /\ g.c = c /\ g.fn = "sendInLoop" /\ g.fn \notin LifeFns
    BY <1>3, FunctorFields DEF UseFns, LifeFns
  <1>6. QueueInLoop(m, g) /\ pending \in [Loops -> Seq(FunctorType)]
    BY <1>1, <1>3, <1>4 DEF ServerTypeOK
  <1> HIDE DEF g
  <1>7. \A n \in Loops : Left(n) = Queued(n) /\ OnceInBoth(pending[n], batch'[n])
    BY <1>1, NothingTaken
  <1>8. /\ pending' \in [Loops -> Seq(FunctorType)] /\ QueuedOnce'
        /\ \A n \in Loops \ {m} : Queued(n)' = Queued(n)
        /\ Queued(m)' = Queued(m) \cup {g}
    BY <1>5, <1>6, <1>7, FunctorPosted
  <1>9. Life(c)' = Life(c)
    <2>1. \A x \in LifeFns : Functor(x, c) # g
      BY <1>3, <1>5, FunctorFields
    <2>2. \A n \in Loops : \A x \in LifeFns :
             Functor(x, c) \in Queued(n)' <=> Functor(x, c) \in Queued(n)
      BY <1>8, <2>1
    <2> QED
      BY <2>2 DEF Life
  <1>10. CleanConn(c)'
    BY <1>1, <1>3, <1>9 DEF CleanConn, Known
  <1>11. Spares(c)
    BY <1>1, <1>3, <1>5, <1>8 DEF Spares
  <1>12. Fits(m, g)'
    BY <1>1, <1>2, <1>3, <1>4, <1>5 DEF Fits, Base
  <1>13. \A n \in Loops : \A f \in Queued(n)' : f \in Queued(n) \/ Fits(n, f)'
    BY <1>8, <1>12
  <1>14. ServerTypeOK'
    BY <1>1, <1>3, <1>8 DEF ServerTypeOK
  <1>15. LoopPhases'
    BY <1>1, <1>3 DEF LoopPhases, Acceptor
  <1>16. server' = "destroying" => lpc'[Base] # "handle"
    BY <1>1 DEF Calm
  <1> QED
    BY <1>1, <1>3, <1>8, <1>10, <1>11, <1>13, <1>14, <1>15, <1>16, CleanStep

(* ~TcpServer takes a connection out of the map: in loop 0 it is destroyed *)
(* at once, elsewhere its loop is told.                                    *)
LEMMA CleanDestructor ==
    ASSUME CleanInv, NEW c \in Conns, DestroyConnection(c)
    PROVE  Endings'
  <1>1. /\ ServerTypeOK /\ Placed /\ QueuedOnce /\ LoopPhases /\ Calm /\ CleanConn(c)
        /\ UNCHANGED <<nextConnId_, next_, server, loopOf, batch, active, lpc, ucall>>
        /\ Created' = Created /\ Base \in Loops
        /\ server = "destroying" /\ c \in connections_ /\ connections_' = connections_ \ {c}
    BY CreatedTyped DEF CleanInv, DestroyConnection, serverVars, userVars, Created
  <1>2. /\ con \in [Conns -> Conn] /\ pending \in [Loops -> Seq(FunctorType)]
        /\ connections_ \subseteq Created /\ c \in Created
    BY <1>1 DEF ServerTypeOK
  <1>3. /\ lpc[Base] # "handle" /\ active[Base] = {}
        /\ lpc[Base] # "run" => batch[Base] = <<>>
    BY <1>1 DEF Calm, LoopPhases
  <1>4. \A n \in Loops : Left(n) = Queued(n) /\ OnceInBoth(pending[n], batch'[n])
    BY <1>1, NothingTaken
  <1>5. ASSUME con' \in [Conns -> Conn], \A d \in Conns \ {c} : con'[d] = con[d],
               loopOf[c] # Base => con' = con, con[c].ups = 1 => con'[c].ups = 1,
               pending' \in [Loops -> Seq(FunctorType)], QueuedOnce', CleanConn(c)',
               \A n \in Loops : \A f \in Queued(n)' :
                   f \in Queued(n) \/ (f.c = c /\ Fits(n, f)')
        PROVE  Endings'
    <2>1. ServerTypeOK'
      BY <1>1, <1>2, <1>5 DEF ServerTypeOK
    <2>2. Spares(c)
      BY <1>1, <1>5 DEF Spares
    <2>3. LoopPhases'
      <3>1. \A d \in Created : /\ d \in Created' /\ loopOf'[d] = loopOf[d]
                               /\ loopOf[d] # Base => con'[d] = con[d]
        BY <1>1, <1>5, CreatedTyped
      <3> QED
        BY <1>1, <1>3, <3>1, CleanLoops
    <2>4. CleanInv'
      BY <1>1, <1>3, <1>5, <2>1, <2>2, <2>3, CleanStep
    <2> QED
      BY <2>4, CleanEnds, PTL
  <1>6. CASE loopOf[c] = Base
    <2> DEFINE k == ConnectDestroyed(con[c])
    <2>1. con' = [con EXCEPT ![c] = k] /\ pending' = pending
      BY <1>6 DEF DestroyConnection
    <2>2. CASE (Open(con[c]) /\ con[c].state = "kConnected") \/ Down(con[c])
      <3>1. Dead(k) /\ k.post = "none" /\ k \in Conn /\ con[c] # NewConn /\ k.ups = 1
        BY <1>1, <2>2, DestroyCloses, DestroyRemoves, NewConnFields
           DEF CleanConn, Dead, Shut, Open, Down
      <3> HIDE DEF k
      <3>2. con' \in [Conns -> Conn] /\ con'[c] = k /\ \A d \in Conns \ {c} : con'[d] = con[d]
        BY <1>2, <2>1, <3>1
      <3>3. QueuedOnce' /\ \A n \in Loops : Queued(n)' = Queued(n)
        BY <1>4, <2>1, NothingPosted
      <3>4. Life(c)' = Life(c)
        BY <3>3 DEF Life
      <3>5. "connectEstablished" \notin Life(c) /\ "removeConnectionInLoop" \notin Life(c)
        BY <1>1, <1>6, <3>1 DEF CleanConn
      <3>6. CleanConn(c)'
        BY <1>1, <1>2, <3>1, <3>2, <3>4, <3>5 DEF CleanConn
      <3>7. pending' \in [Loops -> Seq(FunctorType)]
        BY <1>2, <2>1
      <3> QED
        BY <1>5, <1>6, <3>1, <3>2, <3>3, <3>6, <3>7
    <2>3. CASE con[c] = NewConn \/ Dead(con[c])
      <3>1. con[c] \in Conn /\ con[c].state # "kConnected" /\ con[c].events = {}
            /\ con[c].index = "kNew" /\ con[c].bad = {}
        BY <2>3, NewConnFields DEF Dead, Shut
      <3>2. k.bad = {"Poller::removeChannel"}
        BY <3>1, DestroyAgain
      <3> HIDE DEF k
      <3> QED
        BY <2>1, <3>2, CleanAbort
    <2> QED
      BY <1>1, <2>2, <2>3 DEF CleanConn
  <1>7. CASE loopOf[c] # Base
    <2>1. PICK m \in Loops : m = loopOf[c]
      BY <1>1 DEF ServerTypeOK
    <2> DEFINE g == Functor("connectDestroyed", c)
    <2>2. con' = con /\ QueueInLoop(m, g)
      BY <1>7, <2>1 DEF DestroyConnection
    <2>3. g \in FunctorType /\ g.c = c /\ g.fn = "connectDestroyed"
      BY FunctorFields DEF LifeFns
    <2>4. g \notin Left(m)
      <3>1. "connectDestroyed" \notin Life(c)
        BY <1>1 DEF CleanConn
      <3>2. g \notin Queued(m)
        BY <3>1 DEF Life, LifeFns
      <3> QED
        BY <1>4, <3>2
    <2>5. \A x \in LifeFns : Functor(x, c) = g => x = "connectDestroyed"
      BY <2>3, FunctorFields
    <2> HIDE DEF g
    <2>6. /\ pending' \in [Loops -> Seq(FunctorType)] /\ QueuedOnce'
          /\ \A n \in Loops \ {m} : Queued(n)' = Queued(n)
          /\ Queued(m)' = Queued(m) \cup {g}
      BY <1>2, <1>4, <2>2, <2>3, <2>4, FunctorPosted
    <2>7. Life(c)' \subseteq Life(c) \cup {"connectDestroyed"}
      BY <2>5, <2>6 DEF Life
    <2>8. Known(c)' /\ loopOf'[c] # Base
      BY <1>1, <1>7 DEF Known, Base
    <2>9. CleanConn(c)'
      BY <1>1, <1>2, <2>2, <2>7, <2>8 DEF CleanConn, Base
    <2>10. Fits(m, g)'
      BY <1>1, <1>2, <2>1, <2>3 DEF Fits, Base, UseFns
    <2>11. \A n \in Loops : \A f \in Queued(n)' : f \in Queued(n) \/ (f.c = c /\ Fits(n, f)')
      BY <2>3, <2>6, <2>10
    <2>12. con' \in [Conns -> Conn] /\ \A d \in Conns \ {c} : con'[d] = con[d]
      BY <1>2, <2>2
    <2> QED
      BY <1>5, <2>2, <2>6, <2>9, <2>11, <2>12
  <1> QED
    BY <1>6, <1>7

LEMMA CleanInit == Init => CleanInv
  <1> SUFFICES ASSUME Init PROVE CleanInv
    OBVIOUS
  <1>1. LifeInv
    BY LifeInit
  <1>2. /\ server = "running" /\ con = [c \in Conns |-> NewConn] /\ ucall = NoCall
        /\ pending = [l \in Loops |-> <<>>] /\ batch = [l \in Loops |-> <<>>]
    BY DEF Init
  <1>3. \A l \in Loops : Queued(l) = {}
    BY <1>2, EmptyEntries DEF Queued
  <1>4. Calm
    BY <1>2, <1>3 DEF Calm
  <1>5. \A c \in Conns : CleanConn(c)
    BY <1>2, <1>3, NewConnFields DEF CleanConn, Life
  <1> QED
    BY <1>1, <1>4, <1>5 DEF LifeInv, CleanInv

(* After the process has ended only the peers still act.                   *)
LEMMA AbortedStays ==
    ASSUME Endings, Aborted, [Next]_vars
    PROVE  Endings'
  <1>1. UNCHANGED <<nextConnId_, connections_, con, loopOf, pending, batch, active, lpc,
                    server, ucall>>
    BY DEF Next, LoopStep, UserCallRest, DestroyStep, Terminated, PeerCloses, vars,
           serverVars, userVars
  <1>2. ClosedCleanly'
    BY <1>1 DEF Endings, ClosedCleanly, ClosedOnce, RemovedOnce, RemovedChannelIsQuiet
  <1>3. \A c \in Conns : /\ Destroyed(c)' <=> Destroyed(c)
                         /\ DiesClosed(c)' <=> DiesClosed(c)
    BY <1>1 DEF Destroyed, DiesClosed, Created, Referenced
  <1>4. \A l \in Loops : UsesDestroyed(l) => UsesDestroyed(l)'
    BY <1>1 DEF UsesDestroyed, Destroyed, Created, Referenced, Base, Acceptor
  <1>5. Aborted'
    BY <1>1, <1>3, <1>4 DEF Aborted
  <1> QED
    BY <1>2, <1>5 DEF Endings

LEMMA CleanNext ==
    ASSUME LoopOps \subseteq {"send"}, UserOps \subseteq {"send"},
           SignalAt \subseteq {"poll", "run"}, CleanInv, [Next]_vars
    PROVE  Endings'
  <1>1. /\ ServerTypeOK /\ Calm /\ LoopPhases /\ Base \in Loops /\ Created \subseteq Conns
        /\ Acceptor \notin Conns /\ \A d \in Conns : CleanConn(d)
    BY CreatedTyped DEF CleanInv, Conns, Acceptor
  <1>2. CleanInv' => Endings'
    BY CleanEnds, PTL
  <1>3. \A l \in Loops : Acceptor \notin Ready(l)
    BY <1>1 DEF Ready
  <1>4. CASE PollAccept
    <2>1. PollReturns(Base, Ready(Base) \cup {Acceptor}) /\ nextConnId_ <= MaxConns
      BY <1>4 DEF PollAccept
    <2> QED
      BY <1>1, <1>2, <2>1, CleanPoll
  <1>5. ASSUME NEW l \in Loops, PollTimeout(l) \/ Poll(l) PROVE Endings'
    <2>1. PICK channels \in {{}, Ready(l)} : PollReturns(l, channels)
      BY <1>5 DEF PollTimeout, Poll
    <2> QED
      BY <1>2, <1>3, <2>1, CleanPoll
  <1>6. ASSUME NEW l \in Loops, LoopStep(l) PROVE Endings'
    <2>1. ASSUME NEW c \in Conns, HandleChannel(l, c) PROVE Endings'
      BY <1>2, <2>1, CleanChannel
    <2>2. CASE RunFunctor(l)
      BY <2>2, CleanRun
    <2>3. CASE Swap(l) \/ EndIteration(l)
      BY <1>2, <2>3, CleanIteration
    <2>4. CASE NewConnection
      BY <1>2, <2>4, CleanAccept
    <2> QED
      BY <1>5, <1>6, <2>1, <2>2, <2>3, <2>4 DEF LoopStep
  <1>7. CASE UserCallRest
    BY <1>2, <1>7, CleanCallRest
  <1>8. ASSUME UNCHANGED <<nextConnId_, next_, connections_, con, loopOf, pending, batch,
                           active, lpc>>,
               server' = "running" => server = "running",
               ucall' # NoCall =>
                  \/ ucall' = ucall
                  \/ ucall'.op = "send" /\ ucall'.c \in Created /\ con[ucall'.c].ups = 1,
               server' = "destroying" => lpc[Base] # "handle"
        PROVE  Endings'
    BY <1>2, <1>8, CleanQuiet
  <1>9. server = "destroying" => lpc[Base] # "handle"
    BY <1>1 DEF Calm
  <1>10. ASSUME NEW c \in Conns, PeerCloses(c) PROVE Endings'
    BY <1>8, <1>9, <1>10 DEF PeerCloses, serverVars, userVars
  <1>11. ASSUME NEW c \in Conns, NEW op \in UserOps, UserCall(op, c) PROVE Endings'
    <2>1. ucall' = [op |-> "send", c |-> c] /\ c \in Created /\ con[c].ups > 0
      BY <1>11 DEF UserCall
    <2>2. con[c].ups = 1
      BY <1>1, <2>1, NewConnFields DEF CleanConn, Open, Down, Dead, Shut
    <2>3. ucall'.op = "send" /\ ucall'.c \in Created /\ con[ucall'.c].ups = 1
      BY <2>1, <2>2
    <2>4. UNCHANGED <<nextConnId_, next_, connections_, con, loopOf, pending, batch,
                      active, lpc, server>>
      BY <1>11 DEF UserCall, serverVars
    <2> QED
      BY <1>8, <1>9, <2>3, <2>4
  <1>12. CASE StopWork
    <2>1. lpc[Base] # "handle"
      BY <1>12 DEF StopWork
    <2> QED
      BY <1>8, <1>12, <2>1 DEF StopWork, userVars
  <1>13. CASE DestroyStep
    <2>1. ASSUME NEW c \in Conns, DestroyConnection(c) PROVE Endings'
      BY <2>1, CleanDestructor
    <2>2. ASSUME NEW l \in Loops, QuitThread(l) PROVE Endings'
      BY <2>2, <1>8, <1>9 DEF QuitThread, serverVars, userVars
    <2>3. CASE ServerDestroyed
      BY <2>3, <1>8 DEF ServerDestroyed, userVars
    <2> QED
      BY <1>13, <2>1, <2>2, <2>3 DEF DestroyStep
  <1>14. CASE Terminated \/ UNCHANGED vars
    BY <1>8, <1>9, <1>14 DEF Terminated, vars
  <1> QED
    BY <1>4, <1>5, <1>6, <1>7, <1>10, <1>11, <1>12, <1>13, <1>14 DEF Next

(* Whichever of the peer, the session's thread and ~TcpServer ends a       *)
(* connection first, the others find it closed: handleClose is entered on  *)
(* an open connection only, removeConnectionInLoop finds its entry in the  *)
(* map, and Channel::remove a channel that subscribes to nothing.  The     *)
(* callbacks and the other threads only send, as the unit manager's do,    *)
(* and the signal that runs ~TcpServer finds loop 0's thread in its poll   *)
(* or among its functors, not between the events of two channels; for any  *)
(* number of threads and connections.                                      *)
THEOREM ServerEndings ==
    ASSUME LoopOps \subseteq {"send"}, UserOps \subseteq {"send"},
           SignalAt \subseteq {"poll", "run"}
    PROVE  Spec => []ClosedCleanly
  <1>1. Init => Endings
    BY CleanInit, CleanEnds
  <1>2. Endings /\ [Next]_vars => Endings'
    <2> SUFFICES ASSUME Endings, [Next]_vars PROVE Endings'
      OBVIOUS
    <2>1. CASE Aborted
      BY <2>1, AbortedStays
    <2>2. CASE ~Aborted
      BY <2>2, CleanNext DEF Endings
    <2> QED
      BY <2>1, <2>2
  <1>3. Endings => ClosedCleanly
    BY DEF Endings
  <1> QED
    BY <1>1, <1>2, <1>3, PTL DEF Spec
=============================================================================
