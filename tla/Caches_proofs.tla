--------------------------- MODULE Caches_proofs ----------------------------
(***************************************************************************)
(* Proofs about the two caches that live as long as the process.           *)
(*                                                                         *)
(* HybridSession: SessionInv is inductive for every set of clients and     *)
(* requests, every page size, TTL and bound. Its conjuncts TypeOK,         *)
(* PagesContiguous, CompleteMeansAll and LostOnlyByExpiry are the          *)
(* invariants that TLC checks on a small instance.                         *)
(*                                                                         *)
(* TaintEngineCache, for any number of callers and roots and any timeout:  *)
(* a root is loaded once, its callers agree on the engine, and none of     *)
(* them is held longer than the load timeout.                              *)
(***************************************************************************)
EXTENDS HybridSession, TaintEngineCache, TLAPS

-----------------------------------------------------------------------------
(* Sessions.                                                               *)

\* A page ends within the session and, if it is not the last one, is full.
LEMMA PageEndBounds ==
    ASSUME NEW off \in Nat, NEW size \in Nat \ {0}, NEW total \in Nat
    PROVE  /\ PageEnd(off, size, total) \in Nat
           /\ PageEnd(off, size, total) <= total
           /\ off < total => PageEnd(off, size, total) > off
           /\ PageEnd(off, size, total) < total =>
                PageEnd(off, size, total) = off + size
  BY DEF PageEnd

\* What following a cursor adds to a session of the same key.
LEMMA ServedBounds ==
    ASSUME NEW off \in Nat, NEW e \in Entries
    PROVE  /\ Served(off, e) \in Nat
           /\ PageCursor(off, e) # NoCursor =>
                /\ PageCursor(off, e) \in Cursors
                /\ PageCursor(off, e).sid = e.sid
                /\ PageCursor(off, e).off = off + Served(off, e)
                /\ PageCursor(off, e).off <= e.total
           /\ PageCursor(off, e) = NoCursor /\ off <= e.total =>
                off + Served(off, e) = e.total
  <1>1. /\ e.sid \in Sids /\ e.total \in Nat /\ e.sid.tool \in Tools
        /\ PageSize[e.sid.tool] \in Nat \ {0}
    BY PageSizeAssumption DEF Entries, Sids
  <1>2. DEFINE end == PageEnd(off, PageSize[e.sid.tool], e.total)
  <1>3. /\ end \in Nat /\ end <= e.total
        /\ off < e.total => end > off
        /\ end < e.total => end = off + PageSize[e.sid.tool]
    BY <1>1, PageEndBounds
  <1>4. /\ Served(off, e) = IF off < e.total THEN end - off ELSE 0
        /\ PageCursor(off, e) = IF end < e.total
             THEN [sid |-> e.sid, off |-> end, tool |-> e.sid.tool] ELSE NoCursor
    BY DEF Served, PageCursor, NextCursor
  <1> QED BY <1>1, <1>3, <1>4, SentinelAssumption DEF Cursors

\* The first response of a scan: how far it reaches, and where its cursor points.
LEMMA FirstBounds ==
    ASSUME NEW r \in RequestFields, NEW s \in Sids, s.tool = r.tool,
           NEW total \in Nat
    PROVE  /\ FirstEnd(r, total) \in Nat
           /\ FirstEnd(r, total) <= total
           /\ FirstCursor(r, s, total) # NoCursor =>
                /\ FirstCursor(r, s, total) \in Cursors
                /\ FirstCursor(r, s, total).sid = s
                /\ FirstCursor(r, s, total).off = FirstEnd(r, total)
           /\ FirstCursor(r, s, total) = NoCursor => FirstEnd(r, total) = total
  <1>1. /\ s.tool \in Tools /\ r.tool \in Tools
        /\ PageSize[r.tool] \in Nat \ {0} /\ r.limit \in Int
    BY PageSizeAssumption DEF Sids, RequestFields
  <1>2. EffectiveLimit(r, NoCursor) \in Int
    BY <1>1 DEF EffectiveLimit
  <1>3. CASE ~Flat(r)
    <2>1. FirstCursor(r, s, total) = [sid |-> s, off |-> 0, tool |-> s.tool]
      BY <1>3 DEF FirstCursor
    <2>2. FirstEnd(r, total) = 0
      BY <1>3 DEF FirstEnd
    <2> QED BY <1>1, <2>1, <2>2, SentinelAssumption DEF Cursors
  <1>4. CASE Flat(r)
    <2>1. PICK size \in Nat \ {0} : FirstEnd(r, total) = PageEnd(0, size, total)
      BY <1>1, <1>2, <1>4 DEF FirstEnd
    <2>2. FirstCursor(r, s, total) = NextCursor(s, FirstEnd(r, total), total)
      BY <1>4 DEF FirstCursor
    <2>3. FirstEnd(r, total) \in Nat /\ FirstEnd(r, total) <= total
      BY <2>1, PageEndBounds
    <2> QED BY <1>1, <2>2, <2>3, SentinelAssumption DEF Cursors, NextCursor
  <1> QED BY <1>3, <1>4

\* Of a key that was not reused there is only one session.
LEMMA OneSession ==
    ASSUME NEW e1 \in sessions, NEW e2 \in sessions,
           e1.sid = e2.sid, ~Reused(e1.sid)
    PROVE  e1 = e2
  BY DEF Reused

\* A server that has just been started satisfies the invariant: nothing is
\* cached, no call is in progress and no client follows a pagination.
LEMMA InitInv == Init => SessionInv
  BY BoundAssumption
  DEF Init, SessionInv, Evictor, TypeOK, HistoryInv, ChainInv, LoadedInv, SweepInv,
      LiveCached, PagesContiguous, CompleteMeansAll, LostOnlyByExpiry,
      EvictorOff, EvictorTypes, Answers

\* The evictor's own steps: it deletes only keys it saw expired.
LEMMA SweepStep == SessionInv /\ Sweep => SessionInv'
  <1> SUFFICES ASSUME SessionInv, Sweep PROVE SessionInv'
    OBVIOUS
  <1> USE DEF SessionInv
  <1>0. UNCHANGED <<now, epoch, started, pc, job, loaded, answer, chain, sessions>>
    BY DEF Sweep, SweepBegin, SweepVisit, SweepDelete, SweepEnd
  <1>1. cache' \subseteq cache
    BY DEF Sweep, SweepBegin, SweepVisit, SweepDelete, SweepEnd, Delete
  <1>2. evictor' \in EvictorTypes
    BY BoundAssumption
    DEF Sweep, SweepBegin, SweepVisit, SweepDelete, SweepEnd, Evictor, EvictorIdle,
        EvictorOff, EvictorTypes, TypeOK, Entries
  <1>3. TypeOK'
    BY <1>0, <1>1, <1>2 DEF TypeOK
  <1>4. HistoryInv' /\ ChainInv' /\ LoadedInv' /\ PagesContiguous'
        /\ CompleteMeansAll' /\ LostOnlyByExpiry'
    BY <1>0, <1>1 DEF HistoryInv, ChainInv, LoadedInv, PagesContiguous,
       CompleteMeansAll, LostOnlyByExpiry, Reused, Outlived
  <1>5. SweepInv'
    <2>1. CASE SweepBegin
      BY <1>0, <2>1 DEF SweepBegin, Evictor, SweepInv, TypeOK, Outlived
    <2>2. CASE \E s \in evictor.todo : SweepVisit(s)
      <3>1. PICK s \in evictor.todo : SweepVisit(s)
        BY <2>2
      <3>2. evictor'.at = evictor.at
        BY <3>1 DEF SweepVisit, Evictor
      <3>3. ASSUME NEW k \in evictor'.key
            PROVE \E e \in sessions : e.sid = k /\ now > e.at + TTL
        <4>1. k = s /\ \E e \in Holding(s) : Expired(e, evictor.at)
          BY <3>1, <3>3 DEF SweepVisit, Evictor
        <4>2. PICK e \in cache : e.sid = s /\ evictor.at > e.at + TTL
          BY <4>1 DEF Holding, Expired
        <4>3. e \in sessions /\ e \in Entries
          BY <4>2 DEF HistoryInv, TypeOK
        <4>4. now > e.at + TTL
          BY <4>2, <4>3, BoundAssumption
          DEF SweepInv, TypeOK, EvictorTypes, Entries
        <4> QED BY <4>1, <4>2, <4>3, <4>4
      <3> QED BY <1>0, <3>2, <3>3 DEF SweepInv, Outlived, Expired
    <2>3. CASE \E s \in evictor.key : SweepDelete(s)
      BY <1>0, <2>3 DEF SweepDelete, Evictor, SweepInv, Outlived
    <2>4. CASE SweepEnd
      BY <1>0, <2>4 DEF SweepEnd, SweepInv, Evictor, EvictorIdle, EvictorOff, TypeOK,
         Outlived
    <2> QED BY <2>1, <2>2, <2>3, <2>4 DEF Sweep
  <1>6. LiveCached'
    <2>1. CASE cache' = cache
      BY <1>0, <2>1 DEF LiveCached, Holding, Outlived
    <2>2. CASE \E s \in evictor.key : SweepDelete(s)
      <3>1. PICK s \in evictor.key : cache' = {e \in cache : e.sid # s}
        BY <2>2 DEF SweepDelete, Delete
      <3>2. Outlived(s)
        BY DEF SweepInv
      <3>3. ASSUME NEW e \in sessions, e.epoch = epoch, e.sid # s
            PROVE  {x \in cache' : x.sid = e.sid} # {} \/ Outlived(e.sid)
        BY <3>1, <3>3 DEF LiveCached, Holding
      <3> QED BY <1>0, <3>2, <3>3 DEF LiveCached, Holding, Outlived
    <2> QED BY <2>1, <2>2 DEF Sweep, SweepBegin, SweepVisit, SweepEnd
  <1> QED BY <1>3, <1>4, <1>5, <1>6

\* Time passes, or the process is restarted: sessions only get older.
LEMMA TimeStep == SessionInv /\ (Tick \/ Restart) => SessionInv'
  <1> SUFFICES ASSUME SessionInv, Tick \/ Restart PROVE SessionInv'
    OBVIOUS
  <1> USE DEF SessionInv
  <1>0. sessions \subseteq Entries /\ TTL \in Nat
    BY BoundAssumption DEF TypeOK
  <1>1. CASE Tick
    <2>1. TypeOK' /\ HistoryInv' /\ ChainInv' /\ LoadedInv' /\ PagesContiguous'
          /\ CompleteMeansAll'
      BY <1>1, <1>0 DEF Tick, TypeOK, HistoryInv, ChainInv, LoadedInv,
         PagesContiguous, CompleteMeansAll, Reused, Entries
    <2>2. \A s : Outlived(s) => Outlived(s)'
      BY <1>1, <1>0 DEF Tick, TypeOK, Outlived, Expired, Entries
    <2>3. SweepInv' /\ LiveCached' /\ LostOnlyByExpiry'
      BY <1>1, <1>0, <2>2 DEF Tick, TypeOK, SweepInv, LiveCached, LostOnlyByExpiry,
         Holding, EvictorTypes
    <2> QED BY <2>1, <2>2, <2>3
  <1>2. CASE Restart
    <2>1. TypeOK' /\ HistoryInv' /\ ChainInv' /\ LoadedInv' /\ PagesContiguous'
          /\ CompleteMeansAll'
      BY <1>2, <1>0 DEF Restart, Evictor, TypeOK, HistoryInv, ChainInv, LoadedInv,
         PagesContiguous, CompleteMeansAll, Reused, Entries, EvictorOff,
         EvictorTypes
    <2>2. SweepInv' /\ LiveCached'
      BY <1>2, <1>0 DEF Restart, Evictor, TypeOK, HistoryInv, SweepInv, LiveCached,
         Entries, EvictorOff
    <2>3. LostOnlyByExpiry'
      <3> SUFFICES ASSUME NEW c \in Clients, chain[c] # NoChain, chain[c].st = "lost"
                   PROVE epoch' > chain[c].own.epoch \/ Outlived(chain[c].own.sid)
        BY <1>2 DEF Restart, LostOnlyByExpiry, Outlived
      <3>1. chain[c].own \in Entries
        BY DEF ChainInv, TypeOK
      <3> QED BY <1>0, <1>2, <3>1 DEF Restart, LostOnlyByExpiry, TypeOK, Entries
    <2> QED BY <2>1, <2>2, <2>3
  <1> QED BY <1>1, <1>2

\* Refused calls, starting scans and failing scans leave sessions alone; a
\* client that starts a scan gives its pagination up.
LEMMA CallStep ==
    ASSUME SessionInv, NEW c \in Clients,
           \/ \E r \in Requests, cur \in {NoCursor, CursorOf(c)} : Reject(c, r, cur)
           \/ \E r \in Requests : Begin(c, r)
           \/ ScanError(c)
    PROVE  SessionInv'
  <1> USE DEF SessionInv
  <1>1. ASSUME NEW r \in Requests, NEW cur, Reject(c, r, cur) PROVE SessionInv'
    <2>1. Verdict(r, cur) \in Answers
      BY <1>1 DEF Reject, Verdict, Answers
    <2> QED
      BY <1>1, <2>1 DEF Reject, TypeOK, HistoryInv, ChainInv, LoadedInv, SweepInv,
         LiveCached, PagesContiguous, CompleteMeansAll, LostOnlyByExpiry, Reused,
         Outlived, Holding
  <1>2. ASSUME NEW r \in Requests, Begin(c, r) PROVE SessionInv'
    <2>1. [req |-> r, ts |-> now, serial |-> started + 1] \in Jobs
      BY RequestAssumption DEF TypeOK, Jobs
    <2>2. TypeOK'
      BY <1>2, <2>1 DEF Begin, TypeOK
    <2> QED
      BY <1>2, <2>2 DEF Begin, TypeOK, HistoryInv, ChainInv, LoadedInv, SweepInv,
         LiveCached, PagesContiguous, CompleteMeansAll, LostOnlyByExpiry, Reused,
         Outlived, Holding
  <1>3. CASE ScanError(c)
      BY <1>3 DEF ScanError, TypeOK, HistoryInv, ChainInv, LoadedInv, SweepInv,
         LiveCached, PagesContiguous, CompleteMeansAll, LostOnlyByExpiry, Reused,
         Outlived, Holding, Answers
  <1> QED BY <1>1, <1>2, <1>3

\* A finished scan: its entry is Put, its client starts to follow it. A key
\* that already has a session counts as reused from here on.
LEMMA ScanDoneStep ==
    ASSUME SessionInv, NEW c \in Clients, NEW total \in Nat, ScanDone(c, total)
    PROVE  SessionInv'
  <1> USE DEF SessionInv
  <1>1. DEFINE e == NewEntry(job[c], total)
               r == job[c].req
               cur == FirstCursor(r, e.sid, total)
  <1>2. /\ job[c] \in Jobs /\ r \in RequestFields
        /\ e \in Entries /\ e.sid \in Sids /\ e.sid.tool = r.tool
        /\ e.total = total /\ e.at = now /\ e.epoch = epoch
    BY DEF ScanDone, TypeOK, NewEntry, SessionKey, Jobs, RequestFields, Entries, Sids
  <1>3. /\ FirstEnd(r, total) \in Nat
        /\ FirstEnd(r, total) <= total
        /\ cur # NoCursor =>
             /\ cur \in Cursors
             /\ cur.sid = e.sid
             /\ cur.off = FirstEnd(r, total)
        /\ cur = NoCursor => FirstEnd(r, total) = total
    BY <1>2, FirstBounds
  <1> DEFINE ch == [st |-> IF cur = NoCursor THEN "complete" ELSE "open",
                    own |-> e, got |-> FirstEnd(r, total), from |-> {e},
                    cursor |-> cur]
  <1>4. /\ cache' = {x \in cache : x.sid # e.sid} \cup {e}
        /\ sessions' = sessions \cup {e}
        /\ evictor' = IF evictor.phase = "off" THEN EvictorIdle ELSE evictor
        /\ chain' = [chain EXCEPT ![c] = ch]
        /\ answer' \in [Clients -> Answers]
        /\ pc' = [pc EXCEPT ![c] = "idle"]
        /\ job' = [job EXCEPT ![c] = NoJob]
        /\ UNCHANGED <<now, epoch, started, loaded>>
    BY DEF ScanDone, Put, TypeOK, Answers
  <1>5. ch \in Chains
    BY <1>2, <1>3 DEF Chains
  <1> HIDE DEF e, r, cur
  <1>6. \A s : (Reused(s) => Reused(s)') /\ (Outlived(s) => Outlived(s)')
    BY <1>4 DEF Reused, Outlived
  <1>7. evictor' \in EvictorTypes /\ evictor'.key \subseteq evictor.key
        /\ (evictor'.at = evictor.at \/ evictor'.at = 0)
    BY <1>4 DEF TypeOK, EvictorTypes, EvictorIdle, Evictor
  <1>17. chain'[c] = ch /\ \A d \in Clients : d # c => chain'[d] = chain[d]
    BY <1>4 DEF TypeOK
  <1>8. TypeOK'
    <2>1. chain' \in [Clients -> Chains \cup {NoChain}]
      BY <1>4, <1>5 DEF TypeOK
    <2>2. \A d \in Clients : chain'[d] # NoChain /\ chain'[d].st = "open"
                               => chain'[d].cursor \in Cursors
      BY <1>3, <1>4 DEF TypeOK
    <2> QED BY <1>2, <1>4, <1>7, <2>1, <2>2 DEF TypeOK
  <1>9. HistoryInv'
    BY <1>2, <1>4 DEF HistoryInv, TypeOK
  <1>10. ChainInv'
    <2>1. ASSUME NEW d \in Clients, d # c, chain[d] # NoChain, chain[d].st = "open"
          PROVE  \/ chain[d].got <= chain[d].own.total
                 \/ Reused(chain[d].own.sid)'
      BY <1>4, <1>17, <2>1 DEF ChainInv, Reused
    <2>2. e \in sessions'
      BY <1>4
    <2> QED BY <1>2, <1>3, <1>4, <1>17, <2>1, <2>2 DEF ChainInv
  <1>11. LoadedInv'
    BY <1>4, <1>17 DEF LoadedInv, TypeOK
  <1>12. SweepInv'
    BY <1>4, <1>6, <1>7 DEF SweepInv, TypeOK
  <1>13. LiveCached'
    <2> SUFFICES ASSUME NEW x \in sessions', x.epoch = epoch
                 PROVE  Holding(x.sid)' # {} \/ Outlived(x.sid)'
      BY <1>4 DEF LiveCached
    <2>1. CASE x.sid = e.sid
      BY <1>4, <2>1 DEF Holding
    <2>2. CASE x.sid # e.sid
      BY <1>4, <1>6, <2>2 DEF LiveCached, Holding
    <2> QED BY <2>1, <2>2
  <1>14. PagesContiguous'
    <2>1. ASSUME NEW d \in Clients, d # c, chain[d] # NoChain, chain[d].st = "open"
          PROVE  /\ chain[d].cursor.off = chain[d].got
                 /\ chain[d].from = {chain[d].own} \/ Reused(chain[d].own.sid)'
      BY <1>4, <1>6, <1>17, <2>1 DEF PagesContiguous
    <2> QED BY <1>3, <1>17, <2>1 DEF PagesContiguous
  <1>15. CompleteMeansAll'
    <2>1. ASSUME NEW d \in Clients, d # c, chain[d] # NoChain,
                 chain[d].st = "complete"
          PROVE  \/ Reused(chain[d].own.sid)'
                 \/ /\ chain[d].got = chain[d].own.total
                    /\ chain[d].from = {chain[d].own}
      BY <1>4, <1>17, <2>1 DEF CompleteMeansAll, Reused
    <2> QED BY <1>2, <1>3, <1>17, <2>1 DEF CompleteMeansAll
  <1>16. LostOnlyByExpiry'
    <2>1. ASSUME NEW d \in Clients, d # c, chain[d] # NoChain, chain[d].st = "lost"
          PROVE  epoch > chain[d].own.epoch \/ Outlived(chain[d].own.sid)'
      BY <1>6, <1>17, <2>1 DEF LostOnlyByExpiry
    <2> QED BY <1>4, <1>17, <2>1 DEF LostOnlyByExpiry
  <1> QED BY <1>8, <1>9, <1>10, <1>11, <1>12, <1>13, <1>14, <1>15, <1>16

\* A call with a cursor: a miss in the cache means that the session expired,
\* belonged to an earlier process or shared its key.
LEMMA FollowStep ==
    ASSUME SessionInv, NEW c \in Clients, Follow(c)
    PROVE  SessionInv'
  <1> USE DEF SessionInv
  <1>1. ASSUME NEW r \in Requests, GetMiss(c, r) PROVE SessionInv'
    <2>1. /\ chain[c] # NoChain /\ chain[c].st = "open" /\ chain[c] \in Chains
          /\ chain[c].own \in sessions /\ chain[c].own \in Entries
          /\ chain[c].cursor.sid = chain[c].own.sid
          /\ pc[c] = "idle"
      BY <1>1 DEF GetMiss, Following, TypeOK, ChainInv
    <2>2. Holding(chain[c].own.sid) = {}
      BY <1>1, <2>1 DEF GetMiss
    <2>3. epoch > chain[c].own.epoch \/ Outlived(chain[c].own.sid)
      <3>1. epoch \in Nat /\ chain[c].own.epoch \in Nat /\ chain[c].own.epoch <= epoch
        BY <2>1 DEF TypeOK, HistoryInv, Entries
      <3>2. chain[c].own.epoch # epoch \/ Outlived(chain[c].own.sid)
        BY <2>1, <2>2 DEF LiveCached
      <3> QED BY <3>1, <3>2
    <2> DEFINE ch == [st |-> "lost", own |-> chain[c].own, got |-> chain[c].got,
                      from |-> chain[c].from, cursor |-> NoCursor]
    <2>4. /\ chain' = [chain EXCEPT ![c] = ch]
          /\ ch \in Chains
          /\ answer' \in [Clients -> Answers]
          /\ UNCHANGED <<now, epoch, cache, evictor, started, pc, job, loaded, sessions>>
      BY <1>1, <2>1 DEF GetMiss, CursorLost, TypeOK, Answers, Chains
    <2>5. TypeOK' /\ HistoryInv' /\ ChainInv' /\ LoadedInv' /\ SweepInv' /\ LiveCached'
      BY <2>1, <2>4 DEF TypeOK, Chains, HistoryInv, ChainInv, LoadedInv, SweepInv,
         LiveCached, Reused, Holding, Outlived
    <2>6. PagesContiguous' /\ CompleteMeansAll' /\ LostOnlyByExpiry'
      BY <2>1, <2>3, <2>4 DEF TypeOK, Chains, PagesContiguous, CompleteMeansAll,
         LostOnlyByExpiry, Reused, Outlived
    <2> QED BY <2>5, <2>6
  <1>2. ASSUME NEW r \in Requests, NEW e \in cache, GetLoad(c, r, e) PROVE SessionInv'
    BY <1>2 DEF GetLoad, Following, Holding, TypeOK, HistoryInv, ChainInv, LoadedInv,
       SweepInv, LiveCached, PagesContiguous, CompleteMeansAll, LostOnlyByExpiry, Reused,
         Outlived, Holding
  <1> QED BY <1>1, <1>2 DEF Follow

\* The check after the load: the key is deleted only if an entry that was
\* stored under it has expired; otherwise one page is added to what the
\* client has.
LEMMA GetCheckStep ==
    ASSUME SessionInv, NEW c \in Clients, GetCheck(c)
    PROVE  SessionInv'
  <1> USE DEF SessionInv
  <1>1. /\ pc[c] = "loaded" /\ loaded[c] \in Entries /\ loaded[c] \in sessions
        /\ chain[c] # NoChain /\ chain[c].st = "open" /\ chain[c] \in Chains
        /\ chain[c].own \in sessions /\ chain[c].own \in Entries
        /\ chain[c].cursor \in Cursors
        /\ chain[c].cursor.sid = chain[c].own.sid
        /\ loaded[c].sid = chain[c].own.sid
    BY DEF GetCheck, GetExpired, GetPage, TypeOK, HistoryInv, ChainInv, LoadedInv
  <1>2. CASE GetExpired(c)
    <2> DEFINE ch == [st |-> "lost", own |-> chain[c].own, got |-> chain[c].got,
                      from |-> chain[c].from, cursor |-> NoCursor]
    <2>1. /\ chain' = [chain EXCEPT ![c] = ch]
          /\ ch \in Chains
          /\ cache' = {x \in cache : x.sid # chain[c].own.sid}
          /\ answer' \in [Clients -> Answers]
          /\ pc' = [pc EXCEPT ![c] = "idle"]
          /\ loaded' = [loaded EXCEPT ![c] = NoEntry]
          /\ UNCHANGED <<now, epoch, evictor, started, job, sessions>>
          /\ now > loaded[c].at + TTL
      BY <1>1, <1>2 DEF GetExpired, CursorLost, Delete, Expired, TypeOK, Answers,
         Chains
    <2>2. Outlived(chain[c].own.sid)
      BY <1>1, <2>1 DEF Outlived, Expired
    <2>3. TypeOK' /\ HistoryInv' /\ ChainInv' /\ LoadedInv' /\ SweepInv'
      BY <1>1, <2>1 DEF TypeOK, Chains, HistoryInv, ChainInv, LoadedInv, SweepInv, Reused,
         Outlived
    <2>4. LiveCached'
      <3> SUFFICES ASSUME NEW x \in sessions, x.epoch = epoch
                   PROVE  {y \in cache' : y.sid = x.sid} # {} \/ Outlived(x.sid)
        BY <2>1 DEF LiveCached, Holding, Outlived
      <3>1. CASE x.sid = chain[c].own.sid
        BY <2>2, <3>1
      <3>2. CASE x.sid # chain[c].own.sid
        BY <2>1, <3>2 DEF LiveCached, Holding
      <3> QED BY <3>1, <3>2
    <2>5. PagesContiguous' /\ CompleteMeansAll' /\ LostOnlyByExpiry'
      BY <1>1, <2>1, <2>2 DEF TypeOK, Chains, PagesContiguous, CompleteMeansAll,
         LostOnlyByExpiry, Reused, Outlived
    <2> QED BY <2>3, <2>4, <2>5
  <1>3. CASE GetPage(c)
    <2> DEFINE off == chain[c].cursor.off
               e == loaded[c]
               ch == [st |-> IF PageCursor(off, e) = NoCursor THEN "complete" ELSE "open",
                      own |-> chain[c].own,
                      got |-> chain[c].got + Served(off, e),
                      from |-> chain[c].from \cup {e},
                      cursor |-> PageCursor(off, e)]
    <2>1. /\ chain' = [chain EXCEPT ![c] = ch]
          /\ answer' \in [Clients -> Answers]
          /\ pc' = [pc EXCEPT ![c] = "idle"]
          /\ loaded' = [loaded EXCEPT ![c] = NoEntry]
          /\ UNCHANGED <<now, epoch, cache, evictor, started, job, sessions>>
      BY <1>3 DEF GetPage, TypeOK, Answers
    <2>2. off \in Nat /\ e \in Entries /\ chain[c].got = off
      BY <1>1 DEF Cursors, PagesContiguous
    <2>3. /\ Served(off, e) \in Nat
          /\ PageCursor(off, e) # NoCursor =>
               /\ PageCursor(off, e) \in Cursors
               /\ PageCursor(off, e).sid = e.sid
               /\ PageCursor(off, e).off = off + Served(off, e)
               /\ PageCursor(off, e).off <= e.total
          /\ PageCursor(off, e) = NoCursor /\ off <= e.total =>
               off + Served(off, e) = e.total
      BY <2>2, ServedBounds
    <2>4. e = chain[c].own \/ Reused(chain[c].own.sid)
      BY <1>1, OneSession
    <2>5. ch \in Chains
      BY <1>1, <2>2, <2>3 DEF Chains
    <2> HIDE DEF off, e
    <2>6. TypeOK'
      <3>1. chain' \in [Clients -> Chains \cup {NoChain}]
        BY <2>1, <2>5 DEF TypeOK
      <3>2. \A d \in Clients : chain'[d] # NoChain /\ chain'[d].st = "open"
                                 => chain'[d].cursor \in Cursors
        BY <2>1, <2>3 DEF TypeOK
      <3> QED BY <2>1, <3>1, <3>2 DEF TypeOK
    <2>7. HistoryInv' /\ LoadedInv' /\ SweepInv' /\ LiveCached'
      BY <2>1 DEF TypeOK, HistoryInv, LoadedInv, SweepInv, LiveCached, Holding, Outlived
    <2>8. chain'[c] = ch /\ \A d \in Clients : d # c => chain'[d] = chain[d]
      BY <2>1 DEF TypeOK
    <2>9. ChainInv'
      <3>1. /\ ch.own \in sessions /\ ch.from \subseteq sessions /\ ch.own \in ch.from
            /\ \A x \in ch.from : x.sid = ch.own.sid
        BY <1>1 DEF ChainInv, e
      <3>2. ch.st = "open" =>
              /\ ch.cursor.sid = ch.own.sid
              /\ ch.got <= ch.own.total \/ Reused(ch.own.sid)
        <4>1. loaded[c].sid = chain[c].own.sid
          BY <1>1
        <4> QED BY <2>2, <2>3, <2>4, <4>1 DEF e
      <3> QED BY <2>1, <2>8, <3>1, <3>2 DEF ChainInv, Reused
    <2>10. PagesContiguous'
      <3>1. ch.from = {ch.own} \/ Reused(ch.own.sid)
        BY <1>1, <2>4 DEF PagesContiguous
      <3> QED BY <2>1, <2>2, <2>3, <2>8, <3>1 DEF PagesContiguous, Reused
    <2>11. CompleteMeansAll'
      <3>1. ch.st = "complete" =>
              \/ Reused(ch.own.sid)
              \/ ch.got = ch.own.total /\ ch.from = {ch.own}
        <4> SUFFICES ASSUME ch.st = "complete", ~Reused(chain[c].own.sid)
                     PROVE  ch.got = ch.own.total /\ ch.from = {ch.own}
          OBVIOUS
        <4>1. e = chain[c].own /\ PageCursor(off, e) = NoCursor
          BY <2>4
        <4>2. off <= e.total
          BY <1>1, <2>2, <4>1 DEF ChainInv
        <4>3. chain[c].from = {chain[c].own}
          BY <1>1, OneSession DEF ChainInv
        <4> QED BY <2>2, <2>3, <4>1, <4>2, <4>3
      <3> QED BY <2>1, <2>8, <3>1 DEF CompleteMeansAll, Reused
    <2>12. LostOnlyByExpiry'
      BY <2>1, <2>8 DEF LostOnlyByExpiry, Outlived
    <2> QED BY <2>6, <2>7, <2>9, <2>10, <2>11, <2>12
  <1> QED BY <1>2, <1>3 DEF GetCheck

\* A step that changes no variable keeps the invariant.
LEMMA StutterStep == SessionInv /\ UNCHANGED vars => SessionInv'
  BY DEF vars, SessionInv, TypeOK, HistoryInv, ChainInv, LoadedInv, SweepInv,
     LiveCached, PagesContiguous, CompleteMeansAll, LostOnlyByExpiry, Reused,
         Outlived, Holding

\* SessionInv holds in every reachable state: the joint argument about the
\* cache, the evictor and the clients' cursors.
THEOREM SessionInvariant == Spec => []SessionInv
  <1>1. SessionInv /\ [Next]_vars => SessionInv'
    <2> SUFFICES ASSUME SessionInv, [Next]_vars PROVE SessionInv'
      OBVIOUS
    <2>1. CASE Tick \/ Restart
      BY <2>1, TimeStep
    <2>2. CASE Sweep
      BY <2>2, SweepStep
    <2>3. ASSUME NEW c \in Clients,
                 \/ \E r \in Requests : Begin(c, r)
                 \/ \E r \in Requests, cur \in {NoCursor, CursorOf(c)} : Reject(c, r, cur)
                 \/ ScanError(c)
          PROVE  SessionInv'
      BY <2>3, CallStep
    <2>4. ASSUME NEW c \in Clients, NEW total \in 0..MaxTotal, ScanDone(c, total)
          PROVE  SessionInv'
      <3>1. total \in Nat
        BY BoundAssumption
      <3> QED BY <2>4, <3>1, ScanDoneStep
    <2>5. ASSUME NEW c \in Clients, Follow(c) PROVE SessionInv'
      BY <2>5, FollowStep
    <2>6. ASSUME NEW c \in Clients, GetCheck(c) PROVE SessionInv'
      BY <2>6, GetCheckStep
    <2>7. CASE UNCHANGED vars
      BY <2>7, StutterStep
    <2> QED BY <2>1, <2>2, <2>3, <2>4, <2>5, <2>6, <2>7 DEF Next, Scan
  <1> QED BY <1>1, InitInv, PTL DEF Spec

\* Every state the cache, the evictor and the calls reach is well typed.
THEOREM TypeCorrect == Spec => []TypeOK
  BY SessionInvariant, PTL DEF SessionInv

\* Pages are contiguous for every page size, limit and number of callers.
THEOREM Contiguous == Spec => []PagesContiguous
  BY SessionInvariant, PTL DEF SessionInv

\* The last page completes the client's own scan, unless its key was reused.
THEOREM Complete == Spec => []CompleteMeansAll
  BY SessionInvariant, PTL DEF SessionInv

\* Judging an entry and deleting its key in two steps never costs a client a
\* session of the running process, unless a session of that key is past its TTL.
THEOREM LostOnlyThen == Spec => []LostOnlyByExpiry
  BY SessionInvariant, PTL DEF SessionInv

-----------------------------------------------------------------------------
(* Taint engines.                                                          *)

\* An empty cache satisfies the invariant.
LEMMA EngineInitInv == EngineInit => EngineInv
  <1> SUFFICES ASSUME EngineInit PROVE EngineInv
    OBVIOUS
  <1>1. EngineTypeOK
    BY TimeAssumption DEF EngineInit, EngineTypeOK, EngineEntries, Workers, Calls, Engines, Absent,
       Entry, Worker, Call
  <1>2. LoaderInv /\ LoadsInv /\ AnswerInv /\ DeadlineInv
    BY DEF EngineInit, LoaderInv, LoadsInv, AnswerInv, DeadlineInv, Absent, Entry, Call
  <1> QED BY <1>1, <1>2 DEF EngineInv

\* A call that was answered nil without an entry disturbs nothing.
LEMMA InvalidRootInv ==
    ASSUME EngineInv, NEW c \in Callers, InvalidRoot(c)
    PROVE  EngineInv'
  <1>1. EngineTypeOK'
    BY NilAssumption DEF EngineInv, EngineTypeOK, InvalidRoot, Calls, Call, Engines
  <1>2. \A d \in Callers : d # c => call'[d] = call[d]
    BY DEF EngineInv, EngineTypeOK, InvalidRoot
  <1>3. /\ call'[c] = Call("answered", NoRoot, clock, TRUE, NoEngine)
        /\ call[c].pc \in {"idle", "answered"}
        /\ UNCHANGED <<clock, entry, worker, loads>>
    BY DEF EngineInv, EngineTypeOK, InvalidRoot, Resting
  <1>4. LoaderInv' /\ LoadsInv' /\ AnswerInv' /\ DeadlineInv'
    BY <1>2, <1>3, NilAssumption
       DEF EngineInv, LoaderInv, LoadsInv, AnswerInv, DeadlineInv, Call
  <1> QED BY <1>1, <1>4 DEF EngineInv

\* A new caller finds an entry or creates one, at this moment.
LEMMA GetEntryInv ==
    ASSUME EngineInv, NEW c \in Callers, NEW r \in Roots, GetEntry(c, r)
    PROVE  EngineInv'
  <1>1. /\ \A d \in Callers : d # c => call'[d] = call[d]
        /\ call'[c] = Call("once", r, clock, TRUE, NoEngine)
        /\ call[c].pc \in {"idle", "answered"}
        /\ UNCHANGED <<clock, worker, loads>>
    BY DEF EngineInv, EngineTypeOK, GetEntry, Resting
  <1>2. /\ \A q \in Roots : q # r => entry'[q] = entry[q]
        /\ entry[r].st = "absent" => entry'[r] = Created
        /\ entry[r].st # "absent" => entry'[r] = entry[r]
    BY DEF EngineInv, EngineTypeOK, GetEntry
  <1>3. EngineTypeOK'
    <2>1. entry' \in [Roots -> EngineEntries] /\ call' \in [Callers -> Calls]
      BY DEF EngineInv, EngineTypeOK, GetEntry, EngineEntries, Entry, Created, Calls, Call, Engines
    <2>2. \A d \in Callers :
            call'[d].pc \in {"once", "select"} =>
              call'[d].root \in Roots /\ entry'[call'[d].root].st # "absent"
      BY <1>1, <1>2 DEF EngineInv, EngineTypeOK, Created, Entry, Call
    <2> QED BY <1>1, <2>1, <2>2 DEF EngineInv, EngineTypeOK
  <1>4. LoaderInv'
    BY <1>1, <1>2 DEF EngineInv, EngineTypeOK, LoaderInv, Created, Entry, Call
  <1>5. LoadsInv'
    BY <1>1, <1>2 DEF EngineInv, LoadsInv, Created, Entry
  <1>6. AnswerInv'
    BY <1>1, <1>2 DEF EngineInv, AnswerInv, Created, Entry, Call
  <1>7. DeadlineInv'
    <2>1. ASSUME NEW d \in Callers, d # c, call'[d].pc \in {"once", "select"}
          PROVE  entry'[call'[d].root] = entry[call[d].root]
      BY <1>1, <1>2, <2>1 DEF EngineInv, EngineTypeOK
    <2>2. entry[r].st = "loading" =>
            clock <= entry[r].deadline /\ entry[r].deadline <= clock + LoadTimeout
      <3> SUFFICES ASSUME entry[r].st = "loading"
                   PROVE  clock <= entry[r].deadline /\ entry[r].deadline <= clock + LoadTimeout
        OBVIOUS
      <3>1. PICK d \in Callers : call[d].pc = "select" /\ call[d].root = r
        BY DEF EngineInv, LoaderInv
      <3>2. clock <= entry[r].deadline /\ entry[r].deadline <= call[d].since + LoadTimeout
        BY <3>1 DEF EngineInv, DeadlineInv
      <3>3. call[d].since <= clock
        BY <3>1 DEF EngineInv, DeadlineInv
      <3>4. clock \in Nat /\ call[d].since \in Nat /\ entry[r].deadline \in Nat
        BY DEF EngineInv, EngineTypeOK, EngineEntries, Calls
      <3> QED BY <3>2, <3>3, <3>4, TimeAssumption
    <2>3. clock \in Nat /\ clock <= clock + LoadTimeout
      BY TimeAssumption DEF EngineInv, EngineTypeOK
    <2>4. CASE entry[r].st = "absent"
      BY <1>1, <1>2, <2>1, <2>3, <2>4 DEF EngineInv, DeadlineInv, Created, Entry, Call
    <2>5. CASE entry[r].st # "absent"
      BY <1>1, <1>2, <2>1, <2>2, <2>3, <2>5 DEF EngineInv, DeadlineInv, Call
    <2> QED BY <2>4, <2>5
  <1> QED BY <1>3, <1>4, <1>5, <1>6, <1>7 DEF EngineInv

\* The load starts: its deadline is one timeout from now, and every caller that
\* waits for it came just now.
LEMMA OnceDoInv ==
    ASSUME EngineInv, NEW c \in Callers, OnceDo(c)
    PROVE  EngineInv'
  <1> DEFINE r == call[c].root
  <1>1. /\ r \in Roots /\ call[c] \in Calls
        /\ call[c].pc = "once" /\ entry[r].st = "new"
        /\ clock \in Nat /\ loads[r] \in Nat
    BY DEF EngineInv, EngineTypeOK, OnceDo
  <1>2. /\ \A d \in Callers : d # c => call'[d] = call[d]
        /\ call'[c] = Call("select", r, call[c].since, call[c].live, NoEngine)
    BY DEF EngineInv, EngineTypeOK, OnceDo
  <1>3. /\ \A q \in Roots : q # r => entry'[q] = entry[q] /\ loads'[q] = loads[q]
        /\ entry'[r] = Entry("loading", clock + LoadTimeout, NoEngine, "none")
        /\ loads'[r] = loads[r] + 1
        /\ clock' = clock
    BY <1>1 DEF EngineInv, EngineTypeOK, OnceDo
  <1>4. EngineTypeOK'
    <2>1. Entry("loading", clock + LoadTimeout, NoEngine, "none") \in EngineEntries
      BY <1>1, TimeAssumption DEF Entry, EngineEntries, Engines
    <2>2. Call("select", r, call[c].since, call[c].live, NoEngine) \in Calls
      BY <1>1 DEF Call, Calls, Engines
    <2>3. Worker("running", 0) \in Workers
      BY DEF Worker, Workers
    <2>4. /\ entry' \in [Roots -> EngineEntries] /\ call' \in [Callers -> Calls]
          /\ worker' \in [Roots -> Workers] /\ loads' \in [Roots -> Nat]
      BY <1>1, <2>1, <2>2, <2>3 DEF EngineInv, EngineTypeOK, OnceDo
    <2>5. \A d \in Callers :
            call'[d].pc \in {"once", "select"} =>
              call'[d].root \in Roots /\ entry'[call'[d].root].st # "absent"
      BY <1>1, <1>2, <1>3 DEF EngineInv, EngineTypeOK, Entry, Call
    <2> QED BY <1>3, <2>4, <2>5 DEF EngineInv, EngineTypeOK
  <1>5. LoaderInv'
    BY <1>1, <1>2, <1>3 DEF EngineInv, LoaderInv, EngineTypeOK, Entry, Call
  <1>6. LoadsInv'
    BY <1>1, <1>3 DEF EngineInv, LoadsInv, Entry
  <1>7. AnswerInv'
    BY <1>1, <1>2, <1>3 DEF EngineInv, AnswerInv, Call
  <1>8. DeadlineInv'
    <2>1. clock <= clock + LoadTimeout
      BY <1>1, TimeAssumption
    <2>2. \A d \in Callers :
            call[d].pc \in {"once", "select"} /\ call[d].root = r => call[d].since = clock
      BY <1>1 DEF EngineInv, DeadlineInv
    <2>3. \A d \in Callers :
            call'[d].pc \in {"once", "select"} =>
              /\ call[d].pc \in {"once", "select"} /\ call[d].root \in Roots
              /\ call'[d].root = call[d].root /\ call'[d].since = call[d].since
      BY <1>1, <1>2 DEF EngineInv, EngineTypeOK, Call
    <2>4. ASSUME NEW d \in Callers, call'[d].pc \in {"once", "select"}, call[d].root = r
          PROVE  /\ call'[d].since = clock /\ entry'[call'[d].root].st = "loading"
                 /\ entry'[call'[d].root].deadline = clock + LoadTimeout
      BY <1>3, <2>2, <2>3, <2>4 DEF Entry
    <2>5. ASSUME NEW d \in Callers, call'[d].pc \in {"once", "select"}, call[d].root # r
          PROVE  entry'[call'[d].root] = entry[call[d].root]
      BY <1>3, <2>3, <2>5
    <2> SUFFICES ASSUME NEW d \in Callers, call'[d].pc \in {"once", "select"}
                 PROVE  LET e == entry'[call'[d].root]
                        IN  /\ call'[d].since <= clock'
                            /\ e.st = "new" => call'[d].since = clock'
                            /\ e.st = "loading" =>
                                 /\ clock' <= e.deadline
                                 /\ e.deadline <= call'[d].since + LoadTimeout
                            /\ e.st = "done" => clock' <= call'[d].since + LoadTimeout
      BY DEF DeadlineInv
    <2>6. CASE call[d].root = r
      <3>1. clock + LoadTimeout \in Nat
        BY <1>1, TimeAssumption
      <3> QED BY <1>1, <1>3, <2>1, <2>4, <2>6, <3>1
    <2>7. CASE call[d].root # r
      <3>1. call[d].pc \in {"once", "select"} /\ call'[d].since = call[d].since
        BY <2>3
      <3> QED BY <1>3, <2>5, <2>7, <3>1 DEF EngineInv, DeadlineInv
    <2> QED BY <2>6, <2>7
  <1> QED BY <1>4, <1>5, <1>6, <1>7, <1>8 DEF EngineInv

\* A caller that waited returns with the engine of the settled entry.
LEMMA OnceReturnInv ==
    ASSUME EngineInv, NEW c \in Callers, OnceReturn(c)
    PROVE  EngineInv'
  <1> DEFINE r == call[c].root
  <1>1. /\ r \in Roots /\ call[c] \in Calls /\ entry[r] \in EngineEntries
        /\ call[c].pc = "once" /\ entry[r].st = "done"
        /\ UNCHANGED <<clock, entry, worker, loads>>
    BY DEF EngineInv, EngineTypeOK, OnceReturn
  <1>2. /\ \A d \in Callers : d # c => call'[d] = call[d]
        /\ call'[c] = Call("answered", r, call[c].since, call[c].live, entry[r].engine)
    BY DEF EngineInv, EngineTypeOK, OnceReturn
  <1>3. EngineTypeOK'
    <2>1. Call("answered", r, call[c].since, call[c].live, entry[r].engine) \in Calls
      BY <1>1 DEF Call, Calls, EngineEntries
    <2>2. call' \in [Callers -> Calls]
      BY <1>1, <2>1 DEF EngineInv, EngineTypeOK, OnceReturn
    <2> QED BY <1>1, <1>2, <2>2 DEF EngineInv, EngineTypeOK, Call
  <1>4. LoaderInv'
    BY <1>1, <1>2 DEF EngineInv, LoaderInv, Call
  <1>5. LoadsInv'
    BY <1>1 DEF EngineInv, LoadsInv
  <1>6. AnswerInv'
    BY <1>1, <1>2 DEF EngineInv, AnswerInv, Call
  <1>7. DeadlineInv'
    BY <1>1, <1>2 DEF EngineInv, DeadlineInv, Call
  <1> QED BY <1>3, <1>4, <1>5, <1>6, <1>7 DEF EngineInv

\* The goroutine's result waits in the channel; nobody has read it yet.
LEMMA LoadReturnsInv ==
    ASSUME EngineInv, NEW r \in Roots, NEW ok \in BOOLEAN, LoadReturns(r, ok)
    PROVE  EngineInv'
  <1>1. UNCHANGED <<clock, entry, loads, call>> /\ worker' \in [Roots -> Workers]
    BY DEF EngineInv, EngineTypeOK, LoadReturns, Workers, Worker
  <1> QED BY <1>1 DEF EngineInv, EngineTypeOK, LoaderInv, LoadsInv, AnswerInv, DeadlineInv

\* The loader leaves once.Do and settles the entry, whatever select took.
LEMMA FinishInv ==
    ASSUME EngineInv, NEW c \in Callers, NEW engine \in Engines,
           NEW why \in {"loaded", "failed", "timeout", "cancelled"},
           call[c].pc = "select", Finish(c, engine, why)
    PROVE  EngineInv'
  <1> DEFINE r == call[c].root
  <1>1. /\ r \in Roots /\ call[c] \in Calls /\ entry[r].st = "loading"
        /\ UNCHANGED <<clock, worker, loads>>
    BY DEF EngineInv, EngineTypeOK, LoaderInv, Finish
  <1>2. /\ \A d \in Callers : d # c => call'[d] = call[d]
        /\ call'[c] = Call("answered", r, call[c].since, call[c].live, engine)
        /\ \A q \in Roots : q # r => entry'[q] = entry[q]
        /\ entry'[r] = Entry("done", 0, engine, why)
    BY <1>1 DEF EngineInv, EngineTypeOK, Finish, Settled
  <1>3. EngineTypeOK'
    <2>1. /\ Call("answered", r, call[c].since, call[c].live, engine) \in Calls
          /\ Entry("done", 0, engine, why) \in EngineEntries
      BY <1>1 DEF Call, Calls, Entry, EngineEntries
    <2>2. entry' \in [Roots -> EngineEntries] /\ call' \in [Callers -> Calls]
      BY <1>1, <2>1 DEF EngineInv, EngineTypeOK, Finish, Settled
    <2>3. \A d \in Callers :
            call'[d].pc \in {"once", "select"} =>
              call'[d].root \in Roots /\ entry'[call'[d].root].st # "absent"
      BY <1>1, <1>2 DEF EngineInv, EngineTypeOK, Entry, Call
    <2> QED BY <1>1, <2>2, <2>3 DEF EngineInv, EngineTypeOK
  <1>4. LoaderInv'
    BY <1>1, <1>2 DEF EngineInv, LoaderInv, EngineTypeOK, Entry, Call
  <1>5. LoadsInv'
    BY <1>1, <1>2 DEF EngineInv, LoadsInv, Entry
  <1>6. AnswerInv'
    BY <1>1, <1>2 DEF EngineInv, AnswerInv, Entry, Call
  <1>7. DeadlineInv'
    <2>1. ASSUME NEW d \in Callers, call[d].pc \in {"once", "select"}, call[d].root = r
          PROVE  clock <= call[d].since + LoadTimeout
      <3>1. clock <= entry[r].deadline /\ entry[r].deadline <= call[d].since + LoadTimeout
        BY <1>1, <2>1 DEF EngineInv, DeadlineInv
      <3>2. clock \in Nat /\ call[d].since \in Nat /\ entry[r].deadline \in Nat
        BY <1>1 DEF EngineInv, EngineTypeOK, EngineEntries, Calls
      <3> QED BY <3>1, <3>2, TimeAssumption
    <2> QED BY <1>1, <1>2, <2>1 DEF EngineInv, DeadlineInv, EngineTypeOK, Entry, Call
  <1> QED BY <1>3, <1>4, <1>5, <1>6, <1>7 DEF EngineInv

\* Either branch of the select in doLoad keeps the invariant.
LEMMA SelectInv ==
    ASSUME EngineInv, NEW c \in Callers, SelectResult(c) \/ SelectDone(c)
    PROVE  EngineInv'
  <1>1. NoEngine \in Engines
    BY DEF Engines
  <1>2. CASE SelectResult(c)
    <2>1. call[c].pc = "select" /\ call[c].root \in Roots
      BY <1>2 DEF EngineInv, EngineTypeOK, SelectResult
    <2>2. worker[call[c].root].at \in Engines
      BY <2>1 DEF EngineInv, EngineTypeOK, Workers, Engines
    <2> QED BY <1>1, <1>2, <2>1, <2>2, FinishInv DEF SelectResult
  <1>3. CASE SelectDone(c)
    BY <1>1, <1>3, FinishInv DEF SelectDone
  <1> QED BY <1>2, <1>3

\* A client that goes away keeps the invariant.
LEMMA CancelInv ==
    ASSUME EngineInv, NEW c \in Callers, Cancel(c)
    PROVE  EngineInv'
  <1>1. /\ UNCHANGED <<clock, entry, worker, loads>> /\ call[c] \in Calls
        /\ call[c].pc # "answered"
        /\ \A d \in Callers : d # c => call'[d] = call[d]
        /\ call'[c] = Call(call[c].pc, call[c].root, call[c].since, FALSE, call[c].engine)
    BY DEF EngineInv, EngineTypeOK, Cancel, Resting
  <1>2. call' \in [Callers -> Calls]
    BY <1>1 DEF EngineInv, EngineTypeOK, Cancel, Call, Calls
  <1>3. \A d \in Callers : /\ call'[d].pc = call[d].pc /\ call'[d].root = call[d].root
                           /\ call'[d].since = call[d].since
                           /\ call'[d].engine = call[d].engine
    BY <1>1 DEF Call
  <1>4. EngineTypeOK'
    BY <1>1, <1>2, <1>3 DEF EngineInv, EngineTypeOK
  <1>5. LoaderInv' /\ LoadsInv' /\ AnswerInv' /\ DeadlineInv'
    BY <1>1, <1>3 DEF EngineInv, LoaderInv, LoadsInv, AnswerInv, DeadlineInv
  <1> QED BY <1>4, <1>5 DEF EngineInv

\* Time passes only if nobody can move: then every call under way waits for a
\* load whose deadline is still ahead.
LEMMA TickInv ==
    ASSUME EngineInv, EngineTick
    PROVE  EngineInv'
  <1>1. /\ clock \in Nat /\ clock' = clock + 1 /\ clock' \in 0..MaxClock
        /\ UNCHANGED <<entry, worker, loads, call>>
    BY TimeAssumption DEF EngineInv, EngineTypeOK, EngineTick
  <1>2. ASSUME NEW d \in Callers, call[d].pc = "select"
        PROVE  clock < entry[call[d].root].deadline
    <2>1. ~(clock >= entry[call[d].root].deadline)
      BY <1>2 DEF EngineTick, Ready
    <2>2. entry[call[d].root].deadline \in Nat
      BY <1>2 DEF EngineInv, EngineTypeOK, EngineEntries
    <2> QED BY <1>1, <2>1, <2>2
  <1>3. ASSUME NEW c \in Callers, call[c].pc \in {"once", "select"}
        PROVE  /\ entry[call[c].root].st = "loading"
               /\ clock + 1 <= entry[call[c].root].deadline
               /\ call[c].since <= clock + 1
    <2>1. entry[call[c].root].st = "loading" /\ call[c].root \in Roots
      BY <1>3 DEF EngineInv, EngineTypeOK, LoaderInv, EngineTick, Ready
    <2>2. PICK d \in Callers : call[d].pc = "select" /\ call[d].root = call[c].root
      BY <2>1 DEF EngineInv, LoaderInv
    <2>3. clock < entry[call[c].root].deadline
      BY <1>2, <2>2
    <2>4. entry[call[c].root].deadline \in Nat /\ call[c].since \in Nat
      BY <2>1 DEF EngineInv, EngineTypeOK, EngineEntries, Calls
    <2>5. call[c].since <= clock
      BY <1>3 DEF EngineInv, DeadlineInv
    <2> QED BY <1>1, <2>1, <2>3, <2>4, <2>5
  <1>4. EngineTypeOK' /\ LoaderInv' /\ LoadsInv' /\ AnswerInv'
    BY <1>1 DEF EngineInv, EngineTypeOK, LoaderInv, LoadsInv, AnswerInv
  <1>5. DeadlineInv'
    BY <1>1, <1>3 DEF EngineInv, DeadlineInv
  <1> QED BY <1>4, <1>5 DEF EngineInv

\* The invariant holds in every reachable state, for every set of callers and
\* roots and every timeout.
THEOREM EngineInvariant == EngineSpec => []EngineInv
  <1>1. EngineInit => EngineInv
    BY EngineInitInv
  <1>2. EngineInv /\ [EngineNext]_engineVars => EngineInv'
    <2> SUFFICES ASSUME EngineInv, [EngineNext]_engineVars PROVE EngineInv'
      OBVIOUS
    <2>1. CASE EngineTick
      BY <2>1, TickInv
    <2>2. ASSUME NEW c \in Callers, InvalidRoot(c) PROVE EngineInv'
      BY <2>2, InvalidRootInv
    <2>3. ASSUME NEW c \in Callers, NEW r \in Roots, GetEntry(c, r) PROVE EngineInv'
      BY <2>3, GetEntryInv
    <2>4. ASSUME NEW c \in Callers, Step(c) PROVE EngineInv'
      BY <2>4, OnceDoInv, OnceReturnInv, SelectInv DEF Step
    <2>5. ASSUME NEW c \in Callers, Cancel(c) PROVE EngineInv'
      BY <2>5, CancelInv
    <2>6. ASSUME NEW r \in Roots, NEW ok \in BOOLEAN, LoadReturns(r, ok)
          PROVE  EngineInv'
      BY <2>6, LoadReturnsInv
    <2>7. CASE UNCHANGED engineVars
      BY <2>7 DEF engineVars, EngineInv, EngineTypeOK, LoaderInv, LoadsInv, AnswerInv, DeadlineInv
    <2> QED BY <2>1, <2>2, <2>3, <2>4, <2>5, <2>6, <2>7 DEF EngineNext
  <1> QED BY <1>1, <1>2, PTL DEF EngineSpec

\* engine.go engineEntry: the entries, the calls and the clock stay within their
\* types; an entry that is used was made.
THEOREM EngineTypes == EngineSpec => []EngineTypeOK
  <1>1. EngineInv => EngineTypeOK
    BY DEF EngineInv
  <1> QED BY <1>1, EngineInvariant, PTL

\* engine.go: one goroutine in packages.Load per root, ever, so that no number
\* of concurrent callers compounds the leak of a hung load.
THEOREM OneLoadEver == EngineSpec => []OneLoadPerRoot
  <1>1. EngineInv => OneLoadPerRoot
    BY DEF EngineInv, LoadsInv, OneLoadPerRoot
  <1> QED BY <1>1, EngineInvariant, PTL

\* engine.go GetOrInit: all callers of a root are given the same engine.
THEOREM CallersAgree == EngineSpec => []SameEngine
  <1>1. EngineInv => SameEngine
    BY DEF EngineInv, AnswerInv, SameEngine
  <1> QED BY <1>1, EngineInvariant, PTL

\* engine.go doLoad: the load timeout bounds the wait of the loading caller and
\* of everyone who joined it, even if packages.Load never returns.
THEOREM LatencyBounded == EngineSpec => []WaitBounded
  <1>1. EngineInv => WaitBounded
    <2> SUFFICES ASSUME EngineInv, NEW c \in Callers, call[c].pc \in {"once", "select"}
                 PROVE  clock - call[c].since <= LoadTimeout
      BY DEF WaitBounded
    <2>1. /\ clock \in Nat /\ call[c].since \in Nat /\ call[c].root \in Roots
          /\ entry[call[c].root] \in EngineEntries /\ entry[call[c].root].st # "absent"
      BY DEF EngineInv, EngineTypeOK, Calls
    <2>2. clock <= call[c].since + LoadTimeout
      <3>1. CASE entry[call[c].root].st = "new"
        BY <2>1, <3>1, TimeAssumption DEF EngineInv, DeadlineInv
      <3>2. CASE entry[call[c].root].st = "loading"
        <4>1. /\ clock <= entry[call[c].root].deadline
              /\ entry[call[c].root].deadline <= call[c].since + LoadTimeout
          BY <3>2 DEF EngineInv, DeadlineInv
        <4>2. entry[call[c].root].deadline \in Nat
          BY <2>1 DEF EngineEntries
        <4> QED BY <2>1, <4>1, <4>2, TimeAssumption
      <3>3. CASE entry[call[c].root].st = "done"
        BY <3>3 DEF EngineInv, DeadlineInv
      <3> QED BY <2>1, <3>1, <3>2, <3>3 DEF EngineEntries
    <2> QED BY <2>1, <2>2, TimeAssumption
  <1> QED BY <1>1, EngineInvariant, PTL
=============================================================================
