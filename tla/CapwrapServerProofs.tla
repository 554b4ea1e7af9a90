-------------------------- MODULE CapwrapServerProofs --------------------------
(* Theorems about CapwrapServer: the inductive invariant IInv, and the        *)
(* safety properties it gives for any connections and capabilities.           *)
EXTENDS CapwrapServer, FiniteSetTheorems, TLAPS

(* Cardinalities of the sets of connections that own a reference.             *)

\* The owners of a capability are finitely many, and none exactly when their
\* number is zero.
LEMMA HoldersFinite ==
    ASSUME NEW c \in Caps
    PROVE  /\ IsFiniteSet(Holders(c))
           /\ Cardinality(Holders(c)) \in Nat
           /\ Cardinality(Holders(c)) = 0 <=> Holders(c) = {}
<1>1. Holders(c) \in SUBSET Conns
    BY DEF Holders
<1>2. IsFiniteSet(Holders(c))
    BY <1>1, ServerAssumption, FS_Subset DEF ServerAssumption
<1>. QED
    BY <1>2, FS_CardinalityType, FS_EmptySet

\* A connection that starts to be served adds one owner ...
LEMMA HolderAdded ==
    ASSUME NEW c \in Caps, NEW k \in Conns,
           k \notin Holders(c),
           Holders(c)' = Holders(c) \cup {k}
    PROVE  Cardinality(Holders(c)') = Cardinality(Holders(c)) + 1
BY HoldersFinite, FS_AddElement

\* ... and one that ends takes one away.
LEMMA HolderRemoved ==
    ASSUME NEW c \in Caps, NEW k \in Conns,
           k \in Holders(c),
           Holders(c)' = Holders(c) \ {k}
    PROVE  /\ Cardinality(Holders(c)') = Cardinality(Holders(c)) - 1
           /\ Cardinality(Holders(c)) # 0
           /\ Holders(c)' = {} <=> Cardinality(Holders(c)) = 1
<1>1. Cardinality(Holders(c)') = Cardinality(Holders(c)) - 1
    BY HoldersFinite, FS_RemoveElement
<1>2. IsFiniteSet(Holders(c)')
    BY HoldersFinite, FS_RemoveElement
<1>3. Cardinality(Holders(c)') = 0 <=> Holders(c)' = {}
    BY <1>2, FS_EmptySet
<1>. QED
    BY <1>1, <1>3, HoldersFinite

-----------------------------------------------------------------------------
(* The steps, by what they do to the reference counts.                        *)

\* A step that touches no handle and ends or begins no service keeps the counts.
LEMMA QuietStep ==
    ASSUME RefsCountOwners, ShutDownWhenUnheld,
           UNCHANGED <<handle, refs, down>>,
           \A c \in Caps : Holders(c)' = Holders(c)
    PROVE  RefsCountOwners' /\ ShutDownWhenUnheld'
BY DEF RefsCountOwners, ShutDownWhenUnheld

\* A connection that gives its reference up keeps the counts, and shuts the
\* capability down exactly if it was the last owner.
LEMMA ReleaseStep ==
    ASSUME TypeOK, HandlesBorn, RefsCountOwners, ShutDownWhenUnheld,
           NEW k \in Conns,
           conn[k] = "serving",
           NEW s \in {"down", "done"},
           conn' = [conn EXCEPT ![k] = s],
           UNCHANGED loaded,
           ReleaseConnRef(loaded[k])
    PROVE  /\ refs' \in [Caps -> Nat]
           /\ down' \in SUBSET Caps
           /\ RefsCountOwners'
           /\ ShutDownWhenUnheld'
<1>1. \A c \in Caps : c # loaded[k] => Holders(c)' = Holders(c)
    BY DEF Holders, TypeOK
<1>2. CASE loaded[k] = NoCap
    <2>1. UNCHANGED <<handle, refs, down>>
        BY <1>2 DEF ReleaseConnRef
    <2>2. \A c \in Caps : Holders(c)' = Holders(c)
        BY <1>1, <1>2, ServerAssumption DEF ServerAssumption
    <2>. QED
        BY <2>1, <2>2, QuietStep DEF TypeOK
<1>3. CASE loaded[k] # NoCap
    <2>. DEFINE d == loaded[k]
    <2>1. d \in Caps
        BY <1>3 DEF TypeOK
    <2>2. k \in Holders(d) /\ Holders(d)' = Holders(d) \ {k}
        BY <2>1 DEF Holders, TypeOK
    <2>3. /\ Cardinality(Holders(d)') = Cardinality(Holders(d)) - 1
          /\ Cardinality(Holders(d)) # 0
          /\ Holders(d)' = {} <=> Cardinality(Holders(d)) = 1
        BY <2>1, <2>2, HolderRemoved
    <2>4. Cardinality(Holders(d)) \in Nat
        BY <2>1, HoldersFinite
    <2>5. /\ refs' = [refs EXCEPT ![d] = @ - 1]
          /\ down' = IF refs[d] = 1 THEN down \cup {d} ELSE down
          /\ UNCHANGED handle
        BY <1>3 DEF ReleaseConnRef, CountDown
    <2>6. refs[d] = (IF handle[d] = "live" THEN 1 ELSE 0)
                    + Cardinality(Holders(d))
        BY <2>1 DEF RefsCountOwners
    <2>7. refs' \in [Caps -> Nat] /\ down' \in SUBSET Caps
        BY <2>1, <2>3, <2>4, <2>5, <2>6 DEF TypeOK
    <2>8. RefsCountOwners'
        <3>1. ASSUME NEW c \in Caps, c # d
              PROVE  refs'[c] = (IF handle'[c] = "live" THEN 1 ELSE 0)
                                + Cardinality(Holders(c)')
            BY <1>1, <2>5, <3>1 DEF RefsCountOwners, TypeOK
        <3>2. refs'[d] = (IF handle'[d] = "live" THEN 1 ELSE 0)
                         + Cardinality(Holders(d)')
            BY <2>1, <2>3, <2>4, <2>5, <2>6 DEF TypeOK
        <3>. QED
            BY <3>1, <3>2 DEF RefsCountOwners
    <2>9. ShutDownWhenUnheld'
        <3>1. ASSUME NEW c \in Caps, c # d
              PROVE  c \in down' <=> handle'[c] = "released" /\ Holders(c)' = {}
            BY <1>1, <2>5, <3>1 DEF ShutDownWhenUnheld
        <3>2. d \notin down
            BY <2>1, <2>2 DEF ShutDownWhenUnheld
        <3>3. handle[d] \in {"live", "released"}
            BY <1>3, <2>1 DEF HandlesBorn, TypeOK
        <3>4. d \in down' <=> handle'[d] = "released" /\ Holders(d)' = {}
            BY <2>3, <2>4, <2>5, <2>6, <3>2, <3>3
        <3>. QED
            BY <3>1, <3>4 DEF ShutDownWhenUnheld
    <2>. QED
        BY <2>7, <2>8, <2>9
<1>. QED
    BY <1>2, <1>3

\* A connection that begins to be served takes a reference on a live handle.
LEMMA AcquireStep ==
    ASSUME TypeOK, RefsCountOwners, ShutDownWhenUnheld,
           NEW k \in Conns,
           conn[k] = "loaded",
           loaded[k] # NoCap => handle[loaded[k]] = "live",
           conn' = [conn EXCEPT ![k] = "serving"],
           UNCHANGED <<handle, down, loaded>>,
           TakeRef(loaded[k])
    PROVE  /\ refs' \in [Caps -> Nat]
           /\ RefsCountOwners'
           /\ ShutDownWhenUnheld'
<1>1. \A c \in Caps : c # loaded[k] => Holders(c)' = Holders(c)
    BY DEF Holders, TypeOK
<1>2. CASE loaded[k] = NoCap
    <2>1. UNCHANGED <<handle, refs, down>>
        BY <1>2 DEF TakeRef
    <2>2. \A c \in Caps : Holders(c)' = Holders(c)
        BY <1>1, <1>2, ServerAssumption DEF ServerAssumption
    <2>. QED
        BY <2>1, <2>2, QuietStep DEF TypeOK
<1>3. CASE loaded[k] # NoCap
    <2>. DEFINE d == loaded[k]
    <2>1. d \in Caps
        BY <1>3 DEF TypeOK
    <2>2. k \notin Holders(d) /\ Holders(d)' = Holders(d) \cup {k}
        BY <2>1 DEF Holders, TypeOK
    <2>3. Cardinality(Holders(d)') = Cardinality(Holders(d)) + 1
        BY <2>1, <2>2, HolderAdded
    <2>4. Cardinality(Holders(d)) \in Nat
        BY <2>1, HoldersFinite
    <2>5. refs' = [refs EXCEPT ![d] = @ + 1]
        BY <1>3 DEF TakeRef
    <2>6. refs' \in [Caps -> Nat]
        BY <2>1, <2>5 DEF TypeOK
    <2>7. RefsCountOwners'
        <3>1. ASSUME NEW c \in Caps, c # d
              PROVE  refs'[c] = (IF handle'[c] = "live" THEN 1 ELSE 0)
                                + Cardinality(Holders(c)')
            BY <1>1, <2>5, <3>1 DEF RefsCountOwners, TypeOK
        <3>2. refs'[d] = (IF handle'[d] = "live" THEN 1 ELSE 0)
                         + Cardinality(Holders(d)')
            BY <2>1, <2>3, <2>4, <2>5 DEF RefsCountOwners, TypeOK
        <3>. QED
            BY <3>1, <3>2 DEF RefsCountOwners
    <2>8. ShutDownWhenUnheld'
        <3>1. ASSUME NEW c \in Caps, c # d
              PROVE  c \in down' <=> handle'[c] = "released" /\ Holders(c)' = {}
            BY <1>1, <3>1 DEF ShutDownWhenUnheld
        <3>2. d \in down' <=> handle'[d] = "released" /\ Holders(d)' = {}
            BY <1>3, <2>1 DEF ShutDownWhenUnheld
        <3>. QED
            BY <3>1, <3>2 DEF ShutDownWhenUnheld
    <2>. QED
        BY <2>6, <2>7, <2>8
<1>. QED
    BY <1>2, <1>3

\* A registration gives the new capability one owner, its handle, and takes the
\* handle of a valid old bootstrap away.
LEMMA RegisterStep ==
    ASSUME TypeOK, HandlesBorn, RefsCountOwners, ShutDownWhenUnheld,
           NEW c \in Caps,
           Register(c)
    PROVE  /\ refs' \in [Caps -> Nat]
           /\ handle' \in [Caps -> {"unborn", "live", "released"}]
           /\ down' \in SUBSET Caps
           /\ RefsCountOwners'
           /\ ShutDownWhenUnheld'
<1>. DEFINE b == bootstrap
<1>1. \A d \in Caps : Holders(d)' = Holders(d)
    BY DEF Register, connVars, Holders
<1>2. Holders(c) = {} /\ refs[c] = 0 /\ c \notin down
    <2>1. Holders(c) = {}
        BY ServerAssumption DEF Register, HandlesBorn, Holders, ServerAssumption
    <2>2. Cardinality(Holders(c)) = 0
        BY <2>1, FS_EmptySet
    <2>. QED
        BY <2>1, <2>2 DEF Register, RefsCountOwners, ShutDownWhenUnheld
<1>3. Cardinality(Holders(c)) = 0
    BY <1>2, FS_EmptySet
<1>4. CASE BootstrapIsValid /\ ReplaceBootstrap(c)
    <2>1. b \in Caps /\ handle[b] = "live" /\ b # c
        BY <1>4 DEF BootstrapIsValid, TypeOK, Register
    <2>2. /\ Cardinality(Holders(b)) \in Nat
          /\ Cardinality(Holders(b)) = 0 <=> Holders(b) = {}
          /\ refs[b] = 1 + Cardinality(Holders(b))
        BY <2>1, HoldersFinite DEF RefsCountOwners
    <2>3. /\ handle' = [handle EXCEPT ![c] = "live", ![b] = "released"]
          /\ refs' = [refs EXCEPT ![c] = 1, ![b] = @ - 1]
          /\ down' = IF refs[b] = 1 THEN down \cup {b} ELSE down
        BY <1>4 DEF ReplaceBootstrap
    <2>4. /\ refs' \in [Caps -> Nat]
          /\ handle' \in [Caps -> {"unborn", "live", "released"}]
          /\ down' \in SUBSET Caps
        BY <2>1, <2>2, <2>3 DEF TypeOK
    <2>5. ASSUME NEW d \in Caps
          PROVE  /\ refs'[d] = (IF handle'[d] = "live" THEN 1 ELSE 0)
                               + Cardinality(Holders(d)')
                 /\ d \in down' <=> handle'[d] = "released" /\ Holders(d)' = {}
        <3>1. CASE d = c
            BY <1>1, <1>2, <1>3, <2>1, <2>3, <3>1 DEF TypeOK
        <3>2. CASE d = b
            BY <1>1, <2>1, <2>2, <2>3, <3>2 DEF TypeOK, ShutDownWhenUnheld
        <3>3. CASE d # c /\ d # b
            BY <1>1, <2>3, <3>3 DEF TypeOK, RefsCountOwners, ShutDownWhenUnheld
        <3>. QED
            BY <3>1, <3>2, <3>3
    <2>. QED
        BY <2>4, <2>5 DEF RefsCountOwners, ShutDownWhenUnheld
<1>5. CASE /\ ~BootstrapIsValid
           /\ handle' = [handle EXCEPT ![c] = "live"]
           /\ refs' = [refs EXCEPT ![c] = 1]
           /\ UNCHANGED down
    <2>1. ASSUME NEW d \in Caps
          PROVE  /\ refs'[d] = (IF handle'[d] = "live" THEN 1 ELSE 0)
                               + Cardinality(Holders(d)')
                 /\ d \in down' <=> handle'[d] = "released" /\ Holders(d)' = {}
        <3>1. CASE d = c
            BY <1>1, <1>2, <1>3, <1>5, <3>1 DEF TypeOK
        <3>2. CASE d # c
            BY <1>1, <1>5, <3>2 DEF TypeOK, RefsCountOwners, ShutDownWhenUnheld
        <3>. QED
            BY <3>1, <3>2
    <2>2. /\ refs' \in [Caps -> Nat]
          /\ handle' \in [Caps -> {"unborn", "live", "released"}]
          /\ down' \in SUBSET Caps
        BY <1>5 DEF TypeOK
    <2>. QED
        BY <2>1, <2>2 DEF RefsCountOwners, ShutDownWhenUnheld
<1>. QED
    BY <1>4, <1>5 DEF Register

-----------------------------------------------------------------------------
(* Every step preserves the inductive invariant, part by part.                *)

\* Steps keep the types; counting down needs an owner to count.
LEMMA TypeStep ==
    ASSUME IInv, [Next]_vars
    PROVE  TypeOK'
<1>1. ASSUME NEW c \in Caps, Register(c) PROVE TypeOK'
    BY <1>1, RegisterStep DEF Register, IInv, TypeOK, loopVars, connVars
<1>2. ASSUME CallListenAndServe PROVE TypeOK'
    BY <1>2 DEF CallListenAndServe, IInv, TypeOK, capVars, loopVars, connVars
<1>3. ASSUME CallServe PROVE TypeOK'
    BY <1>3 DEF CallServe, IInv, TypeOK, capVars, loopVars, connVars
<1>4. ASSUME Cancel PROVE TypeOK'
    BY <1>4 DEF Cancel, IInv, TypeOK, capVars, loopVars, connVars
<1>5. ASSUME CallerClosesListener PROVE TypeOK'
    BY <1>5 DEF CallerClosesListener, CloseListener, IInv, TypeOK,
           capVars, loopVars, connVars
<1>6. ASSUME NEW k \in Conns, CallServeConn(k) PROVE TypeOK'
    BY <1>6 DEF CallServeConn, IInv, TypeOK, capVars, loopVars, connVars
<1>7. ASSUME SetBootstrapAssign PROVE TypeOK'
    BY <1>7 DEF SetBootstrapAssign, IInv, TypeOK, capVars, loopVars, connVars
<1>8. ASSUME CheckBootstrap PROVE TypeOK'
    BY <1>8 DEF CheckBootstrap, IInv, TypeOK, capVars, loopVars, connVars
<1>9. ASSUME NEW k \in Conns, AcceptConn(k) PROVE TypeOK'
    BY <1>9 DEF AcceptConn, IInv, TypeOK, capVars, loopVars, connVars
<1>10. ASSUME AcceptFails PROVE TypeOK'
    BY <1>10 DEF AcceptFails, IInv, TypeOK, capVars, loopVars, connVars
<1>11. ASSUME WatcherCloses PROVE TypeOK'
    BY <1>11 DEF WatcherCloses, WatchAndClose, CloseListener, IInv, TypeOK,
           capVars, loopVars, connVars
<1>12. ASSUME NEW k \in Conns, LoadBootstrap(k) PROVE TypeOK'
    BY <1>12 DEF LoadBootstrap, IInv, TypeOK, capVars, loopVars, connVars
<1>13. ASSUME NEW k \in Conns, AddRefAndServe(k) PROVE TypeOK'
    <2>1. CASE panicked' = TRUE /\ UNCHANGED <<conn, refs>>
        BY <1>13, <2>1 DEF AddRefAndServe, IInv, TypeOK, loopVars
    <2>2. CASE ~(panicked' = TRUE /\ UNCHANGED <<conn, refs>>)
        <3>1. refs' \in [Caps -> Nat]
            BY <1>13, <2>2, AcquireStep DEF AddRefAndServe, IInv
        <3>. QED
            BY <1>13, <2>2, <3>1 DEF AddRefAndServe, IInv, TypeOK, loopVars
    <2>. QED
        BY <2>1, <2>2
<1>14. ASSUME NEW k \in Conns, ServeConnDone(k) PROVE TypeOK'
    BY <1>14 DEF ServeConnDone, IInv, TypeOK, capVars, loopVars, connVars
<1>15. ASSUME NEW k \in Conns, ServeConnCancelled(k) PROVE TypeOK'
    <2>1. refs' \in [Caps -> Nat] /\ down' \in SUBSET Caps
        BY <1>15, ReleaseStep DEF ServeConnCancelled, CloseConn, CtxStops, IInv
    <2>2. handle' = handle
        BY <1>15 DEF ServeConnCancelled, CloseConn, ReleaseConnRef
    <2>. QED
        BY <1>15, <2>1, <2>2 DEF ServeConnCancelled, CloseConn, IInv, TypeOK, loopVars
<1>16. ASSUME NEW k \in Conns, RpcConnShutdown(k) PROVE TypeOK'
    <2>1. refs' \in [Caps -> Nat] /\ down' \in SUBSET Caps
        BY <1>16, ReleaseStep DEF RpcConnShutdown, IInv
    <2>2. handle' = handle
        BY <1>16 DEF RpcConnShutdown, ReleaseConnRef
    <2>. QED
        BY <1>16, <2>1, <2>2 DEF RpcConnShutdown, IInv, TypeOK, loopVars
<1>17. ASSUME NEW k \in Conns, Connect(k) PROVE TypeOK'
    BY <1>17 DEF Connect, IInv, TypeOK, capVars, loopVars, connVars
<1>18. ASSUME NEW k \in Conns, PeerGoes(k) PROVE TypeOK'
    BY <1>18 DEF PeerGoes, IInv, TypeOK, capVars, loopVars, connVars
<1>19. CASE UNCHANGED vars
    BY <1>19 DEF vars, IInv, TypeOK, capVars, loopVars, connVars
<1>. QED
    BY <1>1, <1>2, <1>3, <1>4, <1>5, <1>6, <1>7, <1>8, <1>9, <1>10, <1>11,
       <1>12, <1>13, <1>14, <1>15, <1>16, <1>17, <1>18, <1>19
       DEF Next, Application, Registrar, ServeLoop, Watcher, ServeConn, RpcConn,
           Peers

\* Steps store and load only handles that exist.
LEMMA HandlesStep ==
    ASSUME IInv, [Next]_vars
    PROVE  HandlesBorn'
<1>. USE DEF IInv, HandlesBorn, TypeOK, capVars, loopVars, connVars
<1>1. ASSUME NEW c \in Caps, Register(c) PROVE HandlesBorn'
    BY <1>1 DEF Register, ReplaceBootstrap, BootstrapIsValid
<1>2. ASSUME CallListenAndServe PROVE HandlesBorn'
    BY <1>2 DEF CallListenAndServe
<1>3. ASSUME CallServe PROVE HandlesBorn'
    BY <1>3 DEF CallServe
<1>4. ASSUME Cancel PROVE HandlesBorn'
    BY <1>4 DEF Cancel
<1>5. ASSUME CallerClosesListener PROVE HandlesBorn'
    BY <1>5 DEF CallerClosesListener, CloseListener
<1>6. ASSUME NEW k \in Conns, CallServeConn(k) PROVE HandlesBorn'
    BY <1>6 DEF CallServeConn
<1>7. ASSUME SetBootstrapAssign PROVE HandlesBorn'
    BY <1>7 DEF SetBootstrapAssign
<1>8. ASSUME CheckBootstrap PROVE HandlesBorn'
    BY <1>8 DEF CheckBootstrap
<1>9. ASSUME NEW k \in Conns, AcceptConn(k) PROVE HandlesBorn'
    BY <1>9 DEF AcceptConn
<1>10. ASSUME AcceptFails PROVE HandlesBorn'
    BY <1>10 DEF AcceptFails
<1>11. ASSUME WatcherCloses PROVE HandlesBorn'
    BY <1>11 DEF WatcherCloses, WatchAndClose, CloseListener
<1>12. ASSUME NEW k \in Conns, LoadBootstrap(k) PROVE HandlesBorn'
    BY <1>12 DEF LoadBootstrap
<1>13. ASSUME NEW k \in Conns, AddRefAndServe(k) PROVE HandlesBorn'
    BY <1>13 DEF AddRefAndServe
<1>14. ASSUME NEW k \in Conns, ServeConnDone(k) PROVE HandlesBorn'
    BY <1>14 DEF ServeConnDone
<1>15. ASSUME NEW k \in Conns, ServeConnCancelled(k) PROVE HandlesBorn'
    BY <1>15 DEF ServeConnCancelled, CloseConn, ReleaseConnRef
<1>16. ASSUME NEW k \in Conns, RpcConnShutdown(k) PROVE HandlesBorn'
    BY <1>16 DEF RpcConnShutdown, ReleaseConnRef
<1>17. ASSUME NEW k \in Conns, Connect(k) PROVE HandlesBorn'
    BY <1>17 DEF Connect
<1>18. ASSUME NEW k \in Conns, PeerGoes(k) PROVE HandlesBorn'
    BY <1>18 DEF PeerGoes
<1>19. CASE UNCHANGED vars
    BY <1>19 DEF vars
<1>. QED
    BY <1>1, <1>2, <1>3, <1>4, <1>5, <1>6, <1>7, <1>8, <1>9, <1>10, <1>11,
       <1>12, <1>13, <1>14, <1>15, <1>16, <1>17, <1>18, <1>19
       DEF Next, Application, Registrar, ServeLoop, Watcher, ServeConn, RpcConn,
           Peers

\* Steps keep each count equal to the number of owners.
LEMMA CountStep ==
    ASSUME IInv, [Next]_vars
    PROVE  RefsCountOwners' /\ ShutDownWhenUnheld'
<1>. USE QuietStep DEF IInv
<1>1. ASSUME NEW c \in Caps, Register(c)
      PROVE  RefsCountOwners' /\ ShutDownWhenUnheld'
    BY <1>1, RegisterStep
<1>2. ASSUME CallListenAndServe PROVE RefsCountOwners' /\ ShutDownWhenUnheld'
    BY <1>2 DEF CallListenAndServe, TypeOK, Holders, capVars, loopVars, connVars
<1>3. ASSUME CallServe PROVE RefsCountOwners' /\ ShutDownWhenUnheld'
    BY <1>3 DEF CallServe, TypeOK, Holders, capVars, loopVars, connVars
<1>4. ASSUME Cancel PROVE RefsCountOwners' /\ ShutDownWhenUnheld'
    BY <1>4 DEF Cancel, TypeOK, Holders, capVars, loopVars, connVars
<1>5. ASSUME CallerClosesListener PROVE RefsCountOwners' /\ ShutDownWhenUnheld'
    BY <1>5 DEF CallerClosesListener, CloseListener, TypeOK, Holders,
           capVars, loopVars, connVars
<1>6. ASSUME NEW k \in Conns, CallServeConn(k)
      PROVE  RefsCountOwners' /\ ShutDownWhenUnheld'
    BY <1>6 DEF CallServeConn, TypeOK, Holders, capVars, loopVars, connVars
<1>7. ASSUME SetBootstrapAssign PROVE RefsCountOwners' /\ ShutDownWhenUnheld'
    BY <1>7 DEF SetBootstrapAssign, TypeOK, Holders, capVars, loopVars, connVars
<1>8. ASSUME CheckBootstrap PROVE RefsCountOwners' /\ ShutDownWhenUnheld'
    BY <1>8 DEF CheckBootstrap, TypeOK, Holders, capVars, loopVars, connVars
<1>9. ASSUME NEW k \in Conns, AcceptConn(k)
      PROVE  RefsCountOwners' /\ ShutDownWhenUnheld'
    BY <1>9 DEF AcceptConn, TypeOK, Holders, capVars, loopVars, connVars
<1>10. ASSUME AcceptFails PROVE RefsCountOwners' /\ ShutDownWhenUnheld'
    BY <1>10 DEF AcceptFails, TypeOK, Holders, capVars, loopVars, connVars
<1>11. ASSUME WatcherCloses PROVE RefsCountOwners' /\ ShutDownWhenUnheld'
    BY <1>11 DEF WatcherCloses, WatchAndClose, CloseListener, TypeOK, Holders,
           capVars, loopVars, connVars
<1>12. ASSUME NEW k \in Conns, LoadBootstrap(k)
      PROVE  RefsCountOwners' /\ ShutDownWhenUnheld'
    BY <1>12 DEF LoadBootstrap, TypeOK, Holders, capVars, loopVars, connVars
<1>13. ASSUME NEW k \in Conns, AddRefAndServe(k)
      PROVE  RefsCountOwners' /\ ShutDownWhenUnheld'
    BY <1>13, AcquireStep DEF AddRefAndServe, Holders
<1>14. ASSUME NEW k \in Conns, ServeConnDone(k)
      PROVE  RefsCountOwners' /\ ShutDownWhenUnheld'
    BY <1>14 DEF ServeConnDone, TypeOK, Holders, capVars, loopVars, connVars
<1>15. ASSUME NEW k \in Conns, ServeConnCancelled(k)
      PROVE  RefsCountOwners' /\ ShutDownWhenUnheld'
    BY <1>15, ReleaseStep DEF ServeConnCancelled, CloseConn, CtxStops
<1>16. ASSUME NEW k \in Conns, RpcConnShutdown(k)
      PROVE  RefsCountOwners' /\ ShutDownWhenUnheld'
    BY <1>16, ReleaseStep DEF RpcConnShutdown
<1>17. ASSUME NEW k \in Conns, Connect(k)
      PROVE  RefsCountOwners' /\ ShutDownWhenUnheld'
    BY <1>17 DEF Connect, TypeOK, Holders, capVars, loopVars, connVars
<1>18. ASSUME NEW k \in Conns, PeerGoes(k)
      PROVE  RefsCountOwners' /\ ShutDownWhenUnheld'
    BY <1>18 DEF PeerGoes, TypeOK, Holders, capVars, loopVars, connVars
<1>19. CASE UNCHANGED vars
    BY <1>19 DEF vars, Holders, capVars, loopVars, connVars
<1>. QED
    BY <1>1, <1>2, <1>3, <1>4, <1>5, <1>6, <1>7, <1>8, <1>9, <1>10, <1>11,
       <1>12, <1>13, <1>14, <1>15, <1>16, <1>17, <1>18, <1>19
       DEF Next, Application, Registrar, ServeLoop, Watcher, ServeConn, RpcConn,
           Peers

\* Steps of an application that registers before it serves cannot panic.
LEMMA FirstStep ==
    ASSUME IInv, ~RegisterWhileServing, [Next]_vars
    PROVE  RegisteredFirst'
<1>. USE DEF IInv, RegisteredFirst, Started, AppFree, HandlesBorn, TypeOK,
        capVars, loopVars, connVars
<1>1. ASSUME NEW c \in Caps, Register(c) PROVE RegisteredFirst'
    BY <1>1, ServerAssumption DEF Register, ServerAssumption
<1>2. ASSUME CallListenAndServe PROVE RegisteredFirst'
    BY <1>2 DEF CallListenAndServe
<1>3. ASSUME CallServe PROVE RegisteredFirst'
    BY <1>3 DEF CallServe
<1>4. ASSUME Cancel PROVE RegisteredFirst'
    BY <1>4 DEF Cancel
<1>5. ASSUME CallerClosesListener PROVE RegisteredFirst'
    BY <1>5 DEF CallerClosesListener, CloseListener
<1>6. ASSUME NEW k \in Conns, CallServeConn(k) PROVE RegisteredFirst'
    BY <1>6 DEF CallServeConn
<1>7. ASSUME SetBootstrapAssign PROVE RegisteredFirst'
    BY <1>7 DEF SetBootstrapAssign
<1>8. ASSUME CheckBootstrap PROVE RegisteredFirst'
    BY <1>8 DEF CheckBootstrap
<1>9. ASSUME NEW k \in Conns, AcceptConn(k) PROVE RegisteredFirst'
    BY <1>9 DEF AcceptConn
<1>10. ASSUME AcceptFails PROVE RegisteredFirst'
    BY <1>10 DEF AcceptFails
<1>11. ASSUME WatcherCloses PROVE RegisteredFirst'
    <2>1. ASSUME NEW k \in Conns, conn'[k] = "loaded"
          PROVE  loaded'[k] = bootstrap'
        BY <1>11, <2>1 DEF WatcherCloses, WatchAndClose, CloseListener
    <2>2. serve' # "idle" /\ installing = NoCap
        BY <1>11 DEF WatcherCloses
    <2>3. UNCHANGED <<panicked, serve, installing, bootstrap, handle>>
        BY <1>11 DEF WatcherCloses
    <2>. QED
        BY <2>1, <2>2, <2>3
<1>12. ASSUME NEW k \in Conns, LoadBootstrap(k) PROVE RegisteredFirst'
    BY <1>12 DEF LoadBootstrap
<1>13. ASSUME NEW k \in Conns, AddRefAndServe(k) PROVE RegisteredFirst'
    BY <1>13 DEF AddRefAndServe
<1>14. ASSUME NEW k \in Conns, ServeConnDone(k) PROVE RegisteredFirst'
    BY <1>14 DEF ServeConnDone
<1>15. ASSUME NEW k \in Conns, ServeConnCancelled(k) PROVE RegisteredFirst'
    BY <1>15 DEF ServeConnCancelled, CloseConn, CtxStops, ReleaseConnRef
<1>16. ASSUME NEW k \in Conns, RpcConnShutdown(k) PROVE RegisteredFirst'
    BY <1>16 DEF RpcConnShutdown, ReleaseConnRef
<1>17. ASSUME NEW k \in Conns, Connect(k) PROVE RegisteredFirst'
    BY <1>17 DEF Connect
<1>18. ASSUME NEW k \in Conns, PeerGoes(k) PROVE RegisteredFirst'
    BY <1>18 DEF PeerGoes
<1>19. CASE UNCHANGED vars
    BY <1>19 DEF vars
<1>. QED
    BY <1>1, <1>2, <1>3, <1>4, <1>5, <1>6, <1>7, <1>8, <1>9, <1>10, <1>11,
       <1>12, <1>13, <1>14, <1>15, <1>16, <1>17, <1>18, <1>19
       DEF Next, Application, Registrar, ServeLoop, Watcher, ServeConn, RpcConn,
           Peers

\* IInv is an invariant: it holds initially and every step preserves it.
THEOREM InductiveInvariant == Spec => []IInv
<1>1. Init => IInv
    <2>. SUFFICES ASSUME Init PROVE IInv
        OBVIOUS
    <2>1. TypeOK /\ HandlesBorn /\ RegisteredFirst
        BY DEF Init, TypeOK, HandlesBorn, RegisteredFirst, Started
    <2>2. \A c \in Caps : Holders(c) = {} /\ Cardinality(Holders(c)) = 0
        BY FS_EmptySet DEF Init, Holders
    <2>3. RefsCountOwners /\ ShutDownWhenUnheld
        BY <2>2 DEF Init, RefsCountOwners, ShutDownWhenUnheld
    <2>. QED
        BY <2>1, <2>3 DEF IInv
<1>2. IInv /\ [Next]_vars => IInv'
    BY TypeStep, HandlesStep, CountStep, FirstStep DEF IInv
<1>. QED
    BY <1>1, <1>2, PTL DEF Spec

-----------------------------------------------------------------------------
(* What follows for the Server of runtime/server.go.                          *)

\* The variables keep their types; in particular no reference count of a
\* capability is ever decremented below zero (server.go:33-36, 74-82).
THEOREM TypeCorrect == Spec => []TypeOK
BY InductiveInvariant, PTL DEF IInv

\* With any number of connections and registrations, the references to a
\* capability are exactly its handle and the connections it is served on.
THEOREM CountsAreExact == Spec => []RefsCountOwners
BY InductiveInvariant, PTL DEF IInv

\* With any number of connections and registrations, a service is shut down
\* exactly when it is replaced and its last connection has ended.
THEOREM ShutDownIsTimely == Spec => []ShutDownWhenUnheld
BY InductiveInvariant, PTL DEF IInv

\* If every registration comes before the first connection, as in
\* examples/calculator/server/main.go:35-40, no ServeConn ever panics.
THEOREM RegisteringFirstIsSafe ==
    ASSUME ~RegisterWhileServing
    PROVE  Spec => []NeverPanics
<1>1. IInv => NeverPanics
    BY DEF IInv, RegisteredFirst, NeverPanics
<1>. QED
    BY <1>1, InductiveInvariant, PTL

\* With any number of connections and registrations, the service of a connection
\* ends only when its peer is gone or ctx is done, or with the process: which
\* takes a registration between the two steps of another ServeConn, and an
\* application that registers while it serves (server.go:32-37, 71-82).
THEOREM ServiceEndsForAReason == Spec => ConnEndsOnlyWhenDone
<1>. DEFINE Ends == \A k \in Conns :
                       conn[k] = "serving" /\ conn'[k] # "serving" =>
                           ctxDone \/ peer[k] = "gone"
            Dies == panicked' /\ ~panicked =>
                       RegisterWhileServing /\ \E j \in Conns : Undercut(j)
            Reasons == \A k \in Conns :
                          InService(k) /\ ~InService(k)' =>
                              \/ ctxDone
                              \/ peer[k] = "gone"
                              \/ RegisterWhileServing /\ \E j \in Conns \ {k} : Undercut(j)
<1>1. ASSUME IInv, IInv', [Next]_vars PROVE Ends /\ Dies
    <2>. USE <1>1 DEF IInv, TypeOK, capVars, loopVars, connVars
    <2>1. CASE Application
        BY <2>1 DEF Application, Register, CallListenAndServe, CallServe, Cancel,
            CallerClosesListener, CloseListener, CallServeConn
    <2>2. CASE Registrar \/ ServeLoop
        BY <2>2 DEF Registrar, SetBootstrapAssign, ServeLoop, CheckBootstrap,
            AcceptConn, AcceptFails
    <2>3. CASE Watcher
        BY <2>3 DEF Watcher, WatcherCloses, WatchAndClose, CloseListener
    <2>4. ASSUME NEW k \in Conns, ServeConn(k) PROVE Ends /\ Dies
        <3>1. Ends
            BY <2>4 DEF ServeConn, LoadBootstrap, AddRefAndServe, ServeConnDone,
                ServeConnCancelled, CtxStops
        <3>2. ASSUME panicked', ~panicked PROVE Undercut(k)
            BY <2>4, <3>2 DEF ServeConn, LoadBootstrap, AddRefAndServe,
                ServeConnDone, ServeConnCancelled, HandlesBorn, Undercut
        <3>3. panicked' => RegisterWhileServing
            BY DEF RegisteredFirst
        <3>. QED
            BY <3>1, <3>2, <3>3
    <2>5. ASSUME NEW k \in Conns, RpcConn(k) PROVE Ends /\ Dies
        BY <2>5 DEF RpcConn, RpcConnShutdown
    <2>6. CASE Peers
        BY <2>6 DEF Peers, Connect, PeerGoes
    <2>7. CASE UNCHANGED vars
        BY <2>7 DEF vars
    <2>. QED
        BY <2>1, <2>2, <2>3, <2>4, <2>5, <2>6, <2>7 DEF Next
<1>2. ASSUME IInv, IInv', [Next]_vars PROVE Reasons
    <2>1. ASSUME NEW j \in Conns, NEW k \in Conns, Undercut(j), InService(k)
          PROVE  j # k
        BY <2>1 DEF Undercut, InService
    <2>2. Ends /\ Dies
        BY <1>1, <1>2
    <2>3. \A k \in Conns : InService(k) /\ ~InService(k)' =>
              conn[k] = "serving" /\ (conn'[k] # "serving" \/ (panicked' /\ ~panicked))
        BY DEF InService
    <2>. HIDE DEF Ends, Dies
    <2>4. ASSUME NEW k \in Conns, InService(k), ~InService(k)', ~ctxDone,
                 peer[k] # "gone"
          PROVE  RegisterWhileServing /\ \E j \in Conns \ {k} : Undercut(j)
        <3>1. RegisterWhileServing /\ \E j \in Conns : Undercut(j)
            BY <2>2, <2>3, <2>4 DEF Ends, Dies
        <3>. QED
            BY <2>1, <2>4, <3>1
    <2>. QED
        BY <2>4
<1>3. IInv /\ IInv' /\ [Next]_vars => [Reasons]_vars
    BY <1>2
<1>. QED
    BY <1>3, InductiveInvariant, PTL DEF Spec, ConnEndsOnlyWhenDone

=============================================================================
