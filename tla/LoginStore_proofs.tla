-------------------------- MODULE LoginStore_proofs --------------------------
(***************************************************************************)
(* Proofs about LoginStore: for any processes, hosts, commands and bounds, *)
(* no interleaving alone spends a refresh token twice, and what is stored  *)
(* can be refreshed; and logins that are only used are kept.               *)
(***************************************************************************)
EXTENDS LoginStore, SequenceTheorems, FunctionTheorems, FiniteSetTheorems, TLAPS

-----------------------------------------------------------------------------
(* The inductive invariant.                                                *)

\* The values the variables hold, after n sessions were granted.
Stores == {"keyring", "file"}
Sessions == [gen : Nat, revoked : BOOLEAN]
Pairs(n) == [sess : 1..n, gen : Nat]
Records(n) == [sess : 1..n, gen : Nat, kind : Stores]
HostFiles(n) == [Hosts -> Records(n) \cup {None}]
Locals(n) ==
  [host : Hosts \cup {None}, rec : Records(n) \cup {None}, sec : Pairs(n) \cup {None},
   rejected : Pairs(n) \cup {None}, new : Pairs(n) \cup {None}, kind : Stores \cup {None},
   file : HostFiles(n) \cup {None}]

\* The places between the lock and the record written; where a process knows its
\* record, its tokens, the new ones, the store it chose and the file.
Refreshing == {"locked_record", "locked_secrets", "refresh", "upd_secrets", "upd_read", "upd_write"}
WithRec == {"secrets", "locked_secrets", "refresh", "upd_secrets", "upd_read", "upd_write",
            "prev_secrets", "prev_revoke", "out_secrets", "out_revoke"}
WithSec == {"request", "refresh", "prev_revoke", "out_revoke"}
Saving == {"save_read", "save_store", "save_drop", "save_write"}
WithNew == {"upd_secrets", "upd_read", "upd_write", "prev", "prev_secrets", "prev_revoke", "save"}
             \cup Saving
WithFile == {"upd_write", "save_store", "save_drop", "save_write", "del_keyring", "del_file", "del_write"}
Places == {"idle", "record", "lock", "locked_record", "grant", "out_record", "del_read"}
            \cup WithRec \cup WithSec \cup WithNew \cup WithFile

Fits(l, m, n) ==
  /\ l # "idle" => m.host \in Hosts
  /\ l \in WithRec => m.rec \in Records(n)
  /\ l \in WithSec => m.sec \in Pairs(n)
  /\ l \in WithNew => m.new \in Pairs(n)
  /\ l \in Saving => m.kind \in Stores
  /\ l \in WithFile => m.file \in HostFiles(n)

Types ==
  /\ server \in Seq(Sessions)
  /\ hosts \in HostFiles(Len(server))
  /\ creds \in [Stores -> [Hosts -> Pairs(Len(server)) \cup {None}]]
  /\ lock \in [Hosts -> Procs \cup {None}]
  /\ pc \in [Procs -> Places] /\ my \in [Procs -> Locals(Len(server))]
  /\ \A p \in Procs : Fits(pc[p], my[p], Len(server))

\* A refresh holds its host's lock.
Locked == \A p \in Procs : pc[p] \in Refreshing => lock[my[p].host] = p

\* A process that is about to spend a session's token, or has its next one.
Carrying(p) == pc[p] \in {"refresh", "upd_secrets"}
Carried(p) == IF pc[p] = "refresh" THEN my[p].sec.sess ELSE my[p].new.sess

\* A session is stored in one place, and spent only from there and by one process.
OnePlace ==
  /\ \A k, l \in Stores, g, h \in Hosts :
       (creds[k][g] # None /\ creds[l][h] # None /\ creds[k][g].sess = creds[l][h].sess)
         => k = l /\ g = h
  /\ \A p \in Procs, k \in Stores, h \in Hosts :
       (Carrying(p) /\ creds[k][h] # None /\ creds[k][h].sess = Carried(p))
         => k = my[p].rec.kind /\ h = my[p].host
  /\ \A p, q \in Procs : Carrying(p) /\ Carrying(q) /\ Carried(p) = Carried(q) => p = q

\* What is stored or about to be spent is current, unless a rotation was cut off.
Current ==
  /\ StoredIsCurrent
  /\ \A p \in Procs : pc[p] = "refresh" /\ my[p].sec.sess \notin interrupted
       => my[p].sec.gen = server[my[p].sec.sess].gen
  /\ \A p \in Procs : pc[p] = "upd_secrets" => my[p].new.gen = server[my[p].new.sess].gen

\* A login that has not stored its tokens.
Unsaved(p) ==
  \/ pc[p] \in {"prev", "prev_secrets", "prev_revoke", "save"}
  \/ pc[p] \in {"save_read", "save_store"} /\ my[p].kind = "file"

\* Nobody else has the session of a login that is not stored yet.
Private ==
  \A p \in Procs : Unsaved(p) =>
    LET s == my[p].new.sess
    IN  /\ my[p].new.gen = 0 /\ server[s].gen = 0
        /\ \A k \in Stores, h \in Hosts : creds[k][h] # None => creds[k][h].sess # s
        /\ \A q \in Procs : Carrying(q) => Carried(q) # s
        /\ \A q \in Procs : Unsaved(q) /\ my[q].new.sess = s => q = p

IInv == Types /\ Locked /\ OnePlace /\ Current /\ Private /\ ReuseOnlyAfterInterruption

\* Logins that are only used: the record, the tokens and every copy of the file in
\* hand agree on the session, and no copy is ahead of the stored tokens.
Kept(h, rec) ==
  /\ rec # None /\ rec.sess = Started[h] /\ rec.kind = "file"
  /\ rec.gen <= creds["file"][h].gen

UsePlaces == {"idle", "record", "secrets", "request", "lock", "locked_record", "locked_secrets",
              "refresh", "upd_secrets", "upd_read", "upd_write"}

\* What a process at place l with local variables m knows of the login it uses.
InUse(l, m) ==
  LET stored == creds["file"][m.host]
  IN  /\ l \in UsePlaces
      /\ l \in WithRec => m.host \in LoggedIn /\ m.rec.kind = "file"
      /\ l = "refresh" => m.sec = stored
      /\ l = "upd_secrets" => m.new.sess = Started[m.host] /\ m.new.gen = stored.gen + 1
      /\ l \in {"upd_read", "upd_write"} => m.new = stored
      /\ l = "upd_write" =>
           /\ \A h \in LoggedIn : Kept(h, m.file[h])
           /\ \A h \in Hosts \ LoggedIn : m.file[h] = None

Used ==
  /\ \A h \in LoggedIn :
       creds["file"][h] # None /\ creds["file"][h].sess = Started[h] /\ Kept(h, hosts[h])
  /\ \A h \in Hosts \ LoggedIn : hosts[h] = None
  /\ \A p \in Procs : InUse(pc[p], my[p])

-----------------------------------------------------------------------------
(* Typing.                                                                 *)

\* More sessions, more values.
LEMMA Grows ==
  ASSUME NEW n \in Nat, NEW m \in Nat, n <= m
  PROVE  /\ Pairs(n) \subseteq Pairs(m) /\ Records(n) \subseteq Records(m)
         /\ HostFiles(n) \subseteq HostFiles(m) /\ Locals(n) \subseteq Locals(m)
         /\ \A l, x : Fits(l, x, n) => Fits(l, x, m)
<1>1. Pairs(n) \subseteq Pairs(m) /\ Records(n) \subseteq Records(m) BY DEF Pairs, Records
<1>2. HostFiles(n) \subseteq HostFiles(m) BY <1>1 DEF HostFiles
<1>3. Locals(n) \subseteq Locals(m) BY <1>1, <1>2 DEF Locals
<1>4. \A l, x : Fits(l, x, n) => Fits(l, x, m) BY <1>1, <1>2 DEF Fits
<1>. QED BY <1>1, <1>2, <1>3, <1>4

\* A move of one process to a place that fits what it knows there.
LEMMA MoveTypes ==
  ASSUME Types, NEW p \in Procs, NEW l \in Places, NEW m, Goto(p, l, m),
         Len(server) <= Len(server'), Len(server') \in Nat,
         m \in Locals(Len(server')), Fits(l, m, Len(server'))
  PROVE  /\ pc' \in [Procs -> Places] /\ my' \in [Procs -> Locals(Len(server'))]
         /\ \A q \in Procs : Fits(pc'[q], my'[q], Len(server'))
         /\ pc'[p] = l /\ my'[p] = m
         /\ \A q \in Procs : q # p => pc'[q] = pc[q] /\ my'[q] = my[q]
<1>1. /\ pc \in [Procs -> Places] /\ my \in [Procs -> Locals(Len(server))]
      /\ \A q \in Procs : Fits(pc[q], my[q], Len(server))
  BY DEF Types
<1>2. pc' = [pc EXCEPT ![p] = l] /\ my' = [my EXCEPT ![p] = m] BY DEF Goto
<1>3. Len(server) \in Nat BY LenProperties DEF Types
<1>4. /\ Locals(Len(server)) \subseteq Locals(Len(server'))
      /\ \A k, x : Fits(k, x, Len(server)) => Fits(k, x, Len(server'))
  BY <1>3, Grows
<1>5. /\ pc'[p] = l /\ my'[p] = m
      /\ \A q \in Procs : q # p => pc'[q] = pc[q] /\ my'[q] = my[q]
  BY <1>1, <1>2
<1>6. pc' \in [Procs -> Places] BY <1>1, <1>2
<1>7. my \in [Procs -> Locals(Len(server'))] BY <1>1, <1>4
<1>8. my' \in [Procs -> Locals(Len(server'))] BY <1>2, <1>7
<1>9. \A q \in Procs : Fits(pc'[q], my'[q], Len(server')) BY <1>1, <1>4, <1>5
<1>. QED BY <1>5, <1>6, <1>8, <1>9

\* What a process at a place knows.
LEMMA Knows ==
  ASSUME IInv, NEW p \in Procs
  PROVE  LET n == Len(server)
         IN  /\ n \in Nat /\ DOMAIN server = 1..n
             /\ \A s \in 1..n : server[s] \in Sessions
             /\ pc[p] \in Places /\ my[p] \in Locals(n) /\ Fits(pc[p], my[p], n)
<1>1. server \in Seq(Sessions) BY DEF IInv, Types
<1>2. Len(server) \in Nat /\ DOMAIN server = 1..Len(server) BY <1>1, LenProperties
<1>3. \A s \in 1..Len(server) : server[s] \in Sessions BY <1>1, ElementOfSeq
<1>. QED BY <1>2, <1>3 DEF IInv, Types

-----------------------------------------------------------------------------
(* A step that neither spends a token nor stores one.                      *)

\* The tokens stored are those before or fewer, no session's generation changes, and a
\* rotation that is given up is counted as cut off.
LEMMA QuietKeeps ==
  ASSUME IInv, NEW p \in Procs, NEW l \in Places, NEW m, Goto(p, l, m),
         server' \in Seq(Sessions), Len(server') = Len(server),
         \A s \in DOMAIN server : server'[s].gen = server[s].gen,
         hosts' \in HostFiles(Len(server)),
         creds' \in [Stores -> [Hosts -> Pairs(Len(server)) \cup {None}]],
         \A k \in Stores, h \in Hosts : creds'[k][h] # None => creds'[k][h] = creds[k][h],
         lock' \in [Hosts -> Procs \cup {None}],
         \A h \in Hosts : lock[h] \notin {p, None} => lock'[h] = lock[h],
         interrupted \subseteq interrupted', reused' \subseteq interrupted',
         m \in Locals(Len(server)), Fits(l, m, Len(server)),
         l \notin {"refresh", "upd_secrets"},
         pc[p] = "upd_secrets" => my[p].new.sess \in interrupted',
         l \in Refreshing => lock'[m.host] = p,
         Unsaved(p)' => Unsaved(p) /\ m.new = my[p].new
  PROVE  IInv'
<1>1. Len(server) \in Nat /\ DOMAIN server = 1..Len(server) /\ DOMAIN server' = DOMAIN server
  BY Knows, LenProperties
<1>2. /\ pc' \in [Procs -> Places] /\ my' \in [Procs -> Locals(Len(server'))]
      /\ \A q \in Procs : Fits(pc'[q], my'[q], Len(server'))
      /\ pc'[p] = l /\ my'[p] = m
      /\ \A q \in Procs : q # p => pc'[q] = pc[q] /\ my'[q] = my[q]
  BY <1>1, MoveTypes DEF IInv
<1>3. Types' BY <1>2 DEF Types
<1>4. Locked'
  <2>. SUFFICES ASSUME NEW q \in Procs, pc'[q] \in Refreshing PROVE lock'[my'[q].host] = q
    BY DEF Locked
  <2>1. CASE q = p BY <2>1, <1>2
  <2>2. CASE q # p
    <3>1. pc[q] \in Refreshing /\ my'[q] = my[q] BY <2>2, <1>2
    <3>2. lock[my[q].host] = q BY <3>1 DEF IInv, Locked
    <3>3. my[q].host \in Hosts BY <3>1, Knows DEF Fits, Refreshing
    <3>. QED BY <2>2, <3>1, <3>2, <3>3, LoginAssumption
  <2>. QED BY <2>1, <2>2
<1>5. \A q \in Procs : Carrying(q)' => q # p /\ Carrying(q) /\ Carried(q)' = Carried(q) /\ my'[q] = my[q]
  BY <1>2 DEF Carrying, Carried
<1>6. OnePlace'
  <2>1. ASSUME NEW k \in Stores, NEW j \in Stores, NEW g \in Hosts, NEW h \in Hosts,
               creds'[k][g] # None, creds'[j][h] # None, creds'[k][g].sess = creds'[j][h].sess
        PROVE  k = j /\ g = h
    <3>1. creds'[k][g] = creds[k][g] /\ creds'[j][h] = creds[j][h] BY <2>1
    <3>. QED BY <2>1, <3>1 DEF IInv, OnePlace
  <2>2. ASSUME NEW q \in Procs, NEW k \in Stores, NEW h \in Hosts,
               Carrying(q)', creds'[k][h] # None, creds'[k][h].sess = Carried(q)'
        PROVE  k = my'[q].rec.kind /\ h = my'[q].host
    <3>1. creds'[k][h] = creds[k][h] BY <2>2
    <3>2. Carrying(q) /\ Carried(q)' = Carried(q) /\ my'[q] = my[q] BY <2>2, <1>5
    <3>. QED BY <2>2, <3>1, <3>2 DEF IInv, OnePlace
  <2>3. ASSUME NEW q \in Procs, NEW r \in Procs, Carrying(q)', Carrying(r)', Carried(q)' = Carried(r)'
        PROVE  q = r
    BY <2>3, <1>5 DEF IInv, OnePlace
  <2>. QED BY <2>1, <2>2, <2>3 DEF OnePlace
<1>7. Current'
  <2>1. ASSUME NEW k \in Stores, NEW h \in Hosts, creds'[k][h] # None,
               creds'[k][h].sess \notin interrupted',
               \A q \in Procs : ~(pc'[q] = "upd_secrets" /\ my'[q].new.sess = creds'[k][h].sess)
        PROVE  creds'[k][h].gen = server'[creds'[k][h].sess].gen
    <3>1. creds'[k][h] = creds[k][h] /\ creds[k][h].sess \in DOMAIN server BY <2>1, <1>1 DEF Pairs
    <3>2. ~Storing(creds[k][h].sess) BY <2>1, <3>1, <1>2 DEF Storing, At
    <3>3. DOMAIN creds = Stores BY DEF IInv, Types
    <3>4. creds[k][h].gen = server[creds[k][h].sess].gen
      BY <2>1, <3>1, <3>2, <3>3 DEF IInv, Current, StoredIsCurrent
    <3>. QED BY <3>1, <3>4
  <2>2. StoredIsCurrent'
    <3>1. DOMAIN creds' = Stores OBVIOUS
    <3>. QED BY <2>1, <3>1 DEF StoredIsCurrent, Storing, At
  <2>3. ASSUME NEW q \in Procs, pc'[q] = "refresh", my'[q].sec.sess \notin interrupted'
        PROVE  my'[q].sec.gen = server'[my'[q].sec.sess].gen
    <3>1. pc[q] = "refresh" /\ my'[q] = my[q] BY <2>3, <1>2
    <3>2. my[q].sec.sess \in DOMAIN server BY <3>1, <1>1, Knows DEF Fits, Pairs, WithSec
    <3>. QED BY <2>3, <3>1, <3>2 DEF IInv, Current
  <2>4. ASSUME NEW q \in Procs, pc'[q] = "upd_secrets"
        PROVE  my'[q].new.gen = server'[my'[q].new.sess].gen
    <3>1. pc[q] = "upd_secrets" /\ my'[q] = my[q] BY <2>4, <1>2
    <3>2. my[q].new.sess \in DOMAIN server BY <3>1, <1>1, Knows DEF Fits, Pairs, WithNew
    <3>. QED BY <3>1, <3>2 DEF IInv, Current
  <2>. QED BY <2>2, <2>3, <2>4 DEF Current
<1>8. Private'
  <2>1. \A q \in Procs : Unsaved(q)' => Unsaved(q) /\ my'[q].new = my[q].new
    BY <1>2 DEF Unsaved
  <2>2. \A q \in Procs : Unsaved(q) => my[q].new.sess \in DOMAIN server
    BY <1>1, Knows DEF Unsaved, Fits, WithNew, Saving, Pairs
  <2>3. ASSUME NEW q \in Procs, Unsaved(q)'
        PROVE  /\ my'[q].new.gen = 0 /\ server'[my'[q].new.sess].gen = 0
               /\ \A k \in Stores, h \in Hosts :
                    creds'[k][h] # None => creds'[k][h].sess # my'[q].new.sess
               /\ \A r \in Procs : Carrying(r)' => Carried(r)' # my'[q].new.sess
               /\ \A r \in Procs : Unsaved(r)' /\ my'[r].new.sess = my'[q].new.sess => r = q
    <3>. DEFINE s == my[q].new.sess
    <3>1. Unsaved(q) /\ my'[q].new = my[q].new /\ s \in DOMAIN server BY <2>1, <2>2, <2>3
    <3>2. /\ my[q].new.gen = 0 /\ server[s].gen = 0
          /\ \A k \in Stores, h \in Hosts : creds[k][h] # None => creds[k][h].sess # s
          /\ \A r \in Procs : Carrying(r) => Carried(r) # s
          /\ \A r \in Procs : Unsaved(r) /\ my[r].new.sess = s => r = q
      BY <3>1 DEF IInv, Private
    <3>3. \A k \in Stores, h \in Hosts : creds'[k][h] # None => creds'[k][h].sess # s BY <3>2
    <3>4. \A r \in Procs : Carrying(r)' => Carried(r)' # s BY <1>5, <3>2
    <3>5. \A r \in Procs : Unsaved(r)' /\ my'[r].new.sess = s => r = q BY <2>1, <3>2
    <3>. QED BY <3>1, <3>2, <3>3, <3>4, <3>5
  <2>. QED BY <2>3 DEF Private
<1>. QED BY <1>3, <1>4, <1>6, <1>7, <1>8 DEF IInv, ReuseOnlyAfterInterruption

-----------------------------------------------------------------------------
(* What the steps change.                                                  *)

\* One local variable is set.
LEMMA SetLocal ==
  ASSUME NEW n \in Nat, NEW m \in Locals(n)
  PROVE  /\ \A v \in Hosts : [m EXCEPT !.host = v] \in Locals(n)
         /\ \A v \in Records(n) \cup {None} :
              /\ [m EXCEPT !.rec = v] \in Locals(n)
              /\ [m EXCEPT !.rec = v].rec = v /\ [m EXCEPT !.rec = v].host = m.host
              /\ [m EXCEPT !.rec = v].new = m.new
         /\ \A v \in Pairs(n) \cup {None} :
              /\ [m EXCEPT !.sec = v] \in Locals(n)
              /\ [m EXCEPT !.sec = v].sec = v /\ [m EXCEPT !.sec = v].host = m.host
              /\ [m EXCEPT !.sec = v].rec = m.rec /\ [m EXCEPT !.sec = v].new = m.new
         /\ \A v \in Pairs(n) \cup {None} :
              /\ [m EXCEPT !.rejected = v] \in Locals(n)
              /\ [m EXCEPT !.rejected = v].host = m.host
         /\ \A v \in Pairs(n) \cup {None} :
              /\ [m EXCEPT !.new = v] \in Locals(n)
              /\ [m EXCEPT !.new = v].new = v /\ [m EXCEPT !.new = v].host = m.host
              /\ [m EXCEPT !.new = v].rec = m.rec
         /\ \A v \in Stores :
              /\ [m EXCEPT !.kind = v] \in Locals(n)
              /\ [m EXCEPT !.kind = v].kind = v /\ [m EXCEPT !.kind = v].host = m.host
              /\ [m EXCEPT !.kind = v].new = m.new
         /\ \A v \in HostFiles(n) \cup {None} :
              /\ [m EXCEPT !.file = v] \in Locals(n)
              /\ [m EXCEPT !.file = v].file = v /\ [m EXCEPT !.file = v].host = m.host
              /\ [m EXCEPT !.file = v].rec = m.rec /\ [m EXCEPT !.file = v].new = m.new
              /\ [m EXCEPT !.file = v].kind = m.kind
<1>1. \A v \in Hosts : [m EXCEPT !.host = v] \in Locals(n) BY DEF Locals
<1>2. \A v \in Records(n) \cup {None} :
        /\ [m EXCEPT !.rec = v] \in Locals(n)
        /\ [m EXCEPT !.rec = v].rec = v /\ [m EXCEPT !.rec = v].host = m.host
        /\ [m EXCEPT !.rec = v].new = m.new
  BY DEF Locals
<1>3. \A v \in Pairs(n) \cup {None} :
        /\ [m EXCEPT !.sec = v] \in Locals(n)
        /\ [m EXCEPT !.sec = v].sec = v /\ [m EXCEPT !.sec = v].host = m.host
        /\ [m EXCEPT !.sec = v].rec = m.rec /\ [m EXCEPT !.sec = v].new = m.new
  BY DEF Locals
<1>4. \A v \in Pairs(n) \cup {None} :
        /\ [m EXCEPT !.rejected = v] \in Locals(n) /\ [m EXCEPT !.rejected = v].host = m.host
  BY DEF Locals
<1>5. \A v \in Pairs(n) \cup {None} :
        /\ [m EXCEPT !.new = v] \in Locals(n)
        /\ [m EXCEPT !.new = v].new = v /\ [m EXCEPT !.new = v].host = m.host
        /\ [m EXCEPT !.new = v].rec = m.rec
  BY DEF Locals
<1>6. \A v \in Stores :
        /\ [m EXCEPT !.kind = v] \in Locals(n)
        /\ [m EXCEPT !.kind = v].kind = v /\ [m EXCEPT !.kind = v].host = m.host
        /\ [m EXCEPT !.kind = v].new = m.new
  BY DEF Locals
<1>7. \A v \in HostFiles(n) \cup {None} :
        /\ [m EXCEPT !.file = v] \in Locals(n)
        /\ [m EXCEPT !.file = v].file = v /\ [m EXCEPT !.file = v].host = m.host
        /\ [m EXCEPT !.file = v].rec = m.rec /\ [m EXCEPT !.file = v].new = m.new
        /\ [m EXCEPT !.file = v].kind = m.kind
  BY DEF Locals
<1>. QED BY ONLY <1>1, <1>2, <1>3, <1>4, <1>5, <1>6, <1>7

\* No session is granted or rotated; no tokens are stored; no lock of another is taken.
Quiet(p) ==
  /\ server' \in Seq(Sessions) /\ Len(server') = Len(server)
  /\ \A s \in DOMAIN server : server'[s].gen = server[s].gen
  /\ hosts' \in HostFiles(Len(server))
  /\ creds' \in [Stores -> [Hosts -> Pairs(Len(server)) \cup {None}]]
  /\ \A k \in Stores, h \in Hosts : creds'[k][h] # None => creds'[k][h] = creds[k][h]
  /\ lock' \in [Hosts -> Procs \cup {None}]
  /\ \A h \in Hosts : lock[h] \notin {p, None} => lock'[h] = lock[h]

LEMMA ReleasedLock ==
  ASSUME IInv, NEW p \in Procs
  PROVE  /\ Released(p) \in [Hosts -> Procs \cup {None}]
         /\ \A h \in Hosts : lock[h] \notin {p, None} => Released(p)[h] = lock[h]
BY DEF IInv, Types, Released

\* A step that touches at most the lock.
LEMMA QuietLock ==
  ASSUME IInv, NEW p \in Procs, UNCHANGED <<files, server>>,
         lock' = lock \/ lock' = Released(p)
  PROVE  Quiet(p)
<1>1. lock' \in [Hosts -> Procs \cup {None}] /\ \A h \in Hosts : lock[h] \notin {p, None} => lock'[h] = lock[h]
  BY ReleasedLock DEF IInv, Types
<1>. QED BY <1>1 DEF Quiet, IInv, Types, files

\* A session is revoked.
LEMMA QuietRevoke ==
  ASSUME IInv, NEW p \in Procs, NEW s \in 1..Len(server), UNCHANGED files,
         server' = [server EXCEPT ![s].revoked = TRUE], lock' = lock \/ lock' = Released(p)
  PROVE  Quiet(p)
<1>1. lock' \in [Hosts -> Procs \cup {None}] /\ \A h \in Hosts : lock[h] \notin {p, None} => lock'[h] = lock[h]
  BY ReleasedLock DEF IInv, Types
<1>2. server \in Seq(Sessions) BY DEF IInv, Types
<1>3. server[s] \in Sessions BY <1>2, ElementOfSeq
<1>. DEFINE t == [server[s] EXCEPT !.revoked = TRUE]
<1>4. t \in Sessions /\ t.gen = server[s].gen BY <1>3 DEF Sessions
<1>5. server' = [server EXCEPT ![s] = t] OBVIOUS
<1>. HIDE DEF t
<1>6. server' \in Seq(Sessions) /\ Len(server') = Len(server) /\ DOMAIN server = 1..Len(server)
      /\ \A i \in 1..Len(server) : server'[i] = IF i = s THEN t ELSE server[i]
  <2>. DEFINE u == [server EXCEPT ![s] = t]
  <2>1. DOMAIN server = 1..Len(server) BY <1>2, LenProperties
  <2>2. u \in Seq(Sessions) /\ Len(u) = Len(server) BY <1>2, <1>4, ExceptSeq
  <2>3. \A i \in 1..Len(server) : u[i] = IF i = s THEN t ELSE server[i] BY ONLY <2>1
  <2>. QED BY <1>5, <2>1, <2>2, <2>3
<1>7. \A i \in DOMAIN server : server'[i].gen = server[i].gen BY <1>4, <1>6
<1>. QED BY <1>1, <1>6, <1>7 DEF Quiet, IInv, Types, files

\* An entry of a store is removed.
LEMMA QuietDrop ==
  ASSUME IInv, NEW p \in Procs, NEW k \in Stores, my[p].host \in Hosts, SetCreds(p, k, None),
         UNCHANGED <<hosts, server>>, lock' = lock \/ lock' = Released(p)
  PROVE  Quiet(p)
<1>1. lock' \in [Hosts -> Procs \cup {None}] /\ \A h \in Hosts : lock[h] \notin {p, None} => lock'[h] = lock[h]
  BY ReleasedLock DEF IInv, Types
<1>2. creds \in [Stores -> [Hosts -> Pairs(Len(server)) \cup {None}]] BY DEF IInv, Types
<1>3. creds' \in [Stores -> [Hosts -> Pairs(Len(server)) \cup {None}]]
      /\ \A j \in Stores, h \in Hosts : creds'[j][h] # None => creds'[j][h] = creds[j][h]
  BY <1>2 DEF SetCreds
<1>. QED BY <1>1, <1>3 DEF Quiet, IInv, Types

\* hosts.json is written.
LEMMA QuietWrite ==
  ASSUME IInv, NEW p \in Procs, my[p].host \in Hosts, my[p].file \in HostFiles(Len(server)),
         NEW rec \in Records(Len(server)) \cup {None}, hosts' = Written(p, rec),
         UNCHANGED <<creds, server>>, lock' = lock \/ lock' = Released(p)
  PROVE  Quiet(p)
<1>1. lock' \in [Hosts -> Procs \cup {None}] /\ \A h \in Hosts : lock[h] \notin {p, None} => lock'[h] = lock[h]
  BY ReleasedLock DEF IInv, Types
<1>2. hosts' \in HostFiles(Len(server)) BY DEF Written, HostFiles
<1>. QED BY <1>1, <1>2 DEF Quiet, IInv, Types

\* The command returns or fails.
LEMMA EndKeeps ==
  ASSUME IInv, NEW p \in Procs, End(p), Quiet(p),
         interrupted \subseteq interrupted', reused' \subseteq interrupted',
         pc[p] = "upd_secrets" => my[p].new.sess \in interrupted'
  PROVE  IInv'
<1>1. Goto(p, "idle", Blank) BY DEF End
<1>2. Blank \in Locals(Len(server)) /\ Fits("idle", Blank, Len(server))
  BY DEF Blank, Locals, Fits, WithRec, WithSec, WithNew, Saving, WithFile
<1>3. "idle" \in Places /\ "idle" \notin Refreshing BY DEF Places, Refreshing
<1>4. ~Unsaved(p)' BY <1>1 DEF Goto, Unsaved, IInv, Types
<1>. QED BY <1>1, <1>2, <1>3, <1>4, QuietKeeps DEF Quiet

\* The command goes on, without the lock.
LEMMA MoveKeeps ==
  ASSUME IInv, NEW p \in Procs, NEW l \in Places, NEW m, Goto(p, l, m), Quiet(p),
         interrupted' = interrupted, reused' = reused,
         m \in Locals(Len(server)), Fits(l, m, Len(server)),
         l \notin {"refresh", "upd_secrets"}, pc[p] # "upd_secrets",
         l \in Refreshing => pc[p] \in Refreshing /\ lock' = lock /\ m.host = my[p].host,
         (\/ l \in {"prev", "prev_secrets", "prev_revoke", "save"}
          \/ l \in {"save_read", "save_store"} /\ m.kind = "file") =>
           Unsaved(p) /\ m.new = my[p].new
  PROVE  IInv'
<1>1. l \in Refreshing => lock'[m.host] = p BY DEF IInv, Locked
<1>2. reused' \subseteq interrupted' BY DEF IInv, ReuseOnlyAfterInterruption
<1>3. pc'[p] = l /\ my'[p] = m BY DEF Goto, IInv, Types
<1>4. Unsaved(p)' => Unsaved(p) /\ m.new = my[p].new BY <1>3 DEF Unsaved
<1>. QED BY <1>1, <1>2, <1>4, QuietKeeps DEF Quiet

-----------------------------------------------------------------------------
(* Using a login.                                                          *)

LEMMA BeginKeeps ==
  ASSUME IInv, NEW p \in Procs, NEW c \in Commands, NEW h \in Hosts, Begin(p, c, h)
  PROVE  IInv'
<1>. DEFINE l == CASE c = "use" -> "record" [] c = "login" -> "grant" [] c = "logout" -> "out_record"
            m == [Blank EXCEPT !.host = h]
<1>1. At(p, "idle") /\ Goto(p, l, m) /\ UNCHANGED <<files, lock, server, interrupted, reused>>
  BY DEF Begin
<1>2. Quiet(p) BY <1>1, QuietLock
<1>3. l \in {"record", "grant", "out_record"} BY LoginAssumption
<1>4. m \in Locals(Len(server)) /\ m.host = h BY DEF Blank, Locals
<1>. HIDE DEF l, m
<1>5. Fits(l, m, Len(server)) BY <1>3, <1>4 DEF Fits, WithRec, WithSec, WithNew, Saving, WithFile
<1>. QED BY <1>1, <1>2, <1>3, <1>4, <1>5, MoveKeeps DEF At, Places, Refreshing

LEMMA ReadRecordKeeps ==
  ASSUME IInv, NEW p \in Procs, ReadRecord(p)
  PROVE  IInv'
<1>1. At(p, "record") /\ UNCHANGED <<files, server, interrupted, reused>> BY DEF ReadRecord, history
<1>2. my[p] \in Locals(Len(server)) /\ Len(server) \in Nat /\ my[p].host \in Hosts
  BY <1>1, Knows DEF At, Fits
<1>3. hosts[my[p].host] \in Records(Len(server)) \cup {None} BY <1>2 DEF IInv, Types, HostFiles
<1>4. CASE End(p)
  <2>1. Quiet(p) BY <1>1, <1>4, QuietLock DEF End
  <2>. QED BY <1>1, <1>4, <2>1, EndKeeps DEF At, IInv, ReuseOnlyAfterInterruption
<1>5. CASE ~End(p)
  <2>. DEFINE rec == hosts[my[p].host]
              l == IF StillValid(rec) THEN "secrets" ELSE "lock"
              m == [my[p] EXCEPT !.rec = rec]
  <2>1. rec # None /\ Goto(p, l, m) /\ UNCHANGED lock BY <1>5 DEF ReadRecord, RecordOf
  <2>2. rec \in Records(Len(server)) BY <2>1, <1>3
  <2>3. m \in Locals(Len(server)) /\ m.rec = rec /\ m.host = my[p].host
    BY <1>2, <2>2, SetLocal
  <2>4. l \in {"secrets", "lock"} OBVIOUS
  <2>5. Quiet(p) BY <1>1, <2>1, QuietLock
  <2>. HIDE DEF rec, l, m
  <2>6. Fits(l, m, Len(server))
    BY <1>2, <2>2, <2>3, <2>4 DEF Fits, WithRec, WithSec, WithNew, Saving, WithFile
  <2>. QED BY <1>1, <2>1, <2>3, <2>4, <2>5, <2>6, MoveKeeps DEF At, Places, Refreshing, WithRec
<1>. QED BY <1>4, <1>5

LEMMA ReadSecretsKeeps ==
  ASSUME IInv, NEW p \in Procs, ReadSecrets(p)
  PROVE  IInv'
<1>1. At(p, "secrets") /\ UNCHANGED <<files, server, interrupted, reused>> BY DEF ReadSecrets, history
<1>2. /\ my[p] \in Locals(Len(server)) /\ Len(server) \in Nat /\ my[p].host \in Hosts
      /\ my[p].rec \in Records(Len(server))
  BY <1>1, Knows DEF At, Fits, WithRec
<1>3. SecretsOf(p, my[p].rec) \in Pairs(Len(server)) \cup {None}
  BY <1>2 DEF IInv, Types, SecretsOf, Records
<1>4. CASE End(p)
  <2>1. Quiet(p) BY <1>1, <1>4, QuietLock DEF End
  <2>. QED BY <1>1, <1>4, <2>1, EndKeeps DEF At, IInv, ReuseOnlyAfterInterruption
<1>5. CASE ~End(p)
  <2>. DEFINE sec == SecretsOf(p, my[p].rec)
              m == [my[p] EXCEPT !.sec = sec]
  <2>1. sec # None /\ Goto(p, "request", m) /\ UNCHANGED lock BY <1>5 DEF ReadSecrets
  <2>2. sec \in Pairs(Len(server)) BY <2>1, <1>3
  <2>3. m \in Locals(Len(server)) /\ m.sec = sec /\ m.host = my[p].host
    BY <1>2, <2>2, SetLocal
  <2>5. Quiet(p) BY <1>1, <2>1, QuietLock
  <2>. HIDE DEF sec, m
  <2>6. Fits("request", m, Len(server))
    BY <1>2, <2>2, <2>3 DEF Fits, WithRec, WithSec, WithNew, Saving, WithFile
  <2>. QED BY <1>1, <2>1, <2>3, <2>5, <2>6, MoveKeeps DEF At, Places, Refreshing, WithSec
<1>. QED BY <1>4, <1>5

LEMMA RequestKeeps ==
  ASSUME IInv, NEW p \in Procs, Request(p)
  PROVE  IInv'
<1>1. At(p, "request") /\ UNCHANGED <<files, server, interrupted, reused>> BY DEF Request, history
<1>2. /\ my[p] \in Locals(Len(server)) /\ Len(server) \in Nat /\ my[p].host \in Hosts
      /\ my[p].sec \in Pairs(Len(server))
  BY <1>1, Knows DEF At, Fits, WithSec
<1>4. CASE End(p)
  <2>1. Quiet(p) BY <1>1, <1>4, QuietLock DEF End
  <2>. QED BY <1>1, <1>4, <2>1, EndKeeps DEF At, IInv, ReuseOnlyAfterInterruption
<1>5. CASE ~End(p)
  <2>. DEFINE m == [my[p] EXCEPT !.rejected = my[p].sec]
  <2>1. Goto(p, "lock", m) /\ UNCHANGED lock BY <1>5 DEF Request
  <2>3. m \in Locals(Len(server)) /\ m.host = my[p].host BY <1>2, SetLocal
  <2>5. Quiet(p) BY <1>1, <2>1, QuietLock
  <2>. HIDE DEF m
  <2>6. Fits("lock", m, Len(server))
    BY <1>2, <2>3 DEF Fits, WithRec, WithSec, WithNew, Saving, WithFile
  <2>. QED BY <1>1, <2>1, <2>3, <2>5, <2>6, MoveKeeps DEF At, Places, Refreshing
<1>. QED BY <1>4, <1>5

LEMMA TakeLockKeeps ==
  ASSUME IInv, NEW p \in Procs, TakeLock(p)
  PROVE  IInv'
<1>. DEFINE m == my[p]
<1>1. /\ At(p, "lock") /\ UNCHANGED <<files, server, interrupted, reused>>
      /\ lock[m.host] = None /\ lock' = [lock EXCEPT ![m.host] = p]
      /\ Goto(p, "locked_record", m)
  BY DEF TakeLock, history, Stay
<1>2. m \in Locals(Len(server)) /\ m.host \in Hosts BY <1>1, Knows DEF At, Fits
<1>3. /\ lock' \in [Hosts -> Procs \cup {None}] /\ lock'[m.host] = p
      /\ \A h \in Hosts : lock[h] \notin {p, None} => lock'[h] = lock[h]
  BY <1>1, <1>2 DEF IInv, Types
<1>4. Fits("locked_record", m, Len(server))
  BY <1>2 DEF Fits, WithRec, WithSec, WithNew, Saving, WithFile
<1>5. ~Unsaved(p)' BY <1>1 DEF Unsaved, Goto, IInv, Types
<1>6. pc[p] # "upd_secrets" BY <1>1 DEF At
<1>7. "locked_record" \in Places BY DEF Places
<1>. HIDE DEF m
<1>8. /\ server' \in Seq(Sessions) /\ Len(server') = Len(server)
      /\ \A s \in DOMAIN server : server'[s].gen = server[s].gen
      /\ hosts' \in HostFiles(Len(server))
      /\ creds' \in [Stores -> [Hosts -> Pairs(Len(server)) \cup {None}]]
      /\ \A k \in Stores, h \in Hosts : creds'[k][h] # None => creds'[k][h] = creds[k][h]
      /\ reused' \subseteq interrupted' /\ interrupted \subseteq interrupted'
  BY <1>1 DEF IInv, Types, files, ReuseOnlyAfterInterruption
<1>. QED BY <1>1, <1>2, <1>3, <1>4, <1>5, <1>6, <1>7, <1>8, QuietKeeps

LEMMA LockedRecordKeeps ==
  ASSUME IInv, NEW p \in Procs, LockedRecord(p)
  PROVE  IInv'
<1>1. At(p, "locked_record") /\ UNCHANGED <<files, server, interrupted, reused>>
  BY DEF LockedRecord, history
<1>2. my[p] \in Locals(Len(server)) /\ Len(server) \in Nat /\ my[p].host \in Hosts
  BY <1>1, Knows DEF At, Fits
<1>3. hosts[my[p].host] \in Records(Len(server)) \cup {None} BY <1>2 DEF IInv, Types, HostFiles
<1>4. CASE End(p)
  <2>1. Quiet(p) BY <1>1, <1>4, QuietLock DEF End
  <2>. QED BY <1>1, <1>4, <2>1, EndKeeps DEF At, IInv, ReuseOnlyAfterInterruption
<1>5. CASE ~End(p)
  <2>. DEFINE rec == hosts[my[p].host]
              m == [my[p] EXCEPT !.rec = rec]
  <2>1. rec # None /\ Goto(p, "locked_secrets", m) /\ UNCHANGED lock
    BY <1>5 DEF LockedRecord, RecordOf
  <2>2. rec \in Records(Len(server)) BY <2>1, <1>3
  <2>3. m \in Locals(Len(server)) /\ m.rec = rec /\ m.host = my[p].host
    BY <1>2, <2>2, SetLocal
  <2>5. Quiet(p) BY <1>1, <2>1, QuietLock
  <2>. HIDE DEF rec, m
  <2>6. Fits("locked_secrets", m, Len(server))
    BY <1>2, <2>2, <2>3 DEF Fits, WithRec, WithSec, WithNew, Saving, WithFile
  <2>. QED BY <1>1, <2>1, <2>3, <2>5, <2>6, MoveKeeps DEF At, Places, Refreshing, WithRec
<1>. QED BY <1>4, <1>5

\* The tokens read under the lock are about to be spent: nobody else is spending them,
\* since their one place is this host's store, and the lock is this process's.
LEMMA SpendKeeps ==
  ASSUME IInv, NEW p \in Procs, pc[p] = "locked_secrets",
         UNCHANGED <<files, server, lock, interrupted, reused>>,
         NEW sec \in Pairs(Len(server)), sec # None, sec = SecretsOf(p, my[p].rec),
         Goto(p, "refresh", [my[p] EXCEPT !.sec = sec])
  PROVE  IInv'
<1>. DEFINE m == [my[p] EXCEPT !.sec = sec]
            k0 == my[p].rec.kind
            h0 == my[p].host
            s == sec.sess
<1>1. /\ my[p] \in Locals(Len(server)) /\ Len(server) \in Nat /\ h0 \in Hosts
      /\ my[p].rec \in Records(Len(server)) /\ k0 \in Stores
  BY Knows DEF Fits, WithRec, Records
<1>2. /\ m \in Locals(Len(server)) /\ m.sec = sec /\ m.rec = my[p].rec /\ m.host = h0
  BY <1>1, SetLocal
<1>3. Fits("refresh", m, Len(server)) /\ "refresh" \in Places
  BY <1>1, <1>2 DEF Fits, WithRec, WithSec, WithNew, Saving, WithFile, Places
<1>4. creds[k0][h0] = sec BY DEF SecretsOf
<1>5. Goto(p, "refresh", m) OBVIOUS
<1>. HIDE DEF m
<1>6. /\ pc' \in [Procs -> Places] /\ my' \in [Procs -> Locals(Len(server'))]
      /\ \A q \in Procs : Fits(pc'[q], my'[q], Len(server'))
      /\ pc'[p] = "refresh" /\ my'[p] = m
      /\ \A q \in Procs : q # p => pc'[q] = pc[q] /\ my'[q] = my[q]
  BY <1>1, <1>2, <1>3, <1>5, MoveTypes DEF IInv
<1>7. Types' BY <1>6 DEF Types, IInv, files
<1>8. lock[h0] = p BY DEF IInv, Locked, Refreshing
<1>9. Locked' BY <1>2, <1>6, <1>8 DEF IInv, Locked
\* Nobody else carries these tokens.
<1>10. ASSUME NEW q \in Procs, Carrying(q), Carried(q) = s PROVE FALSE
  <2>1. my[q].host = h0 BY <1>1, <1>4, <1>10 DEF IInv, OnePlace
  <2>2. lock[my[q].host] = q BY <1>10 DEF IInv, Locked, Refreshing, Carrying
  <2>. QED BY <1>8, <1>10, <2>1, <2>2 DEF Carrying
<1>11. Carrying(p)' /\ Carried(p)' = s BY <1>2, <1>6 DEF Carrying, Carried
<1>12. \A q \in Procs : q # p => (Carrying(q)' <=> Carrying(q)) /\ Carried(q)' = Carried(q)
  BY <1>6 DEF Carrying, Carried
<1>13. OnePlace'
  <2>1. ASSUME NEW q \in Procs, NEW k \in Stores, NEW h \in Hosts,
               Carrying(q)', creds[k][h] # None, creds[k][h].sess = Carried(q)'
        PROVE  k = my'[q].rec.kind /\ h = my'[q].host
    <3>1. CASE q = p
      <4>1. creds[k][h].sess = creds[k0][h0].sess BY <2>1, <3>1, <1>4, <1>11
      <4>2. k = k0 /\ h = h0 BY <2>1, <4>1, <1>1, <1>4 DEF IInv, OnePlace
      <4>. QED BY <3>1, <4>2, <1>2, <1>6
    <3>2. CASE q # p
      <4>1. Carrying(q) /\ creds[k][h].sess = Carried(q) /\ my'[q] = my[q]
        BY <2>1, <3>2, <1>6, <1>12
      <4>. QED BY <2>1, <4>1 DEF IInv, OnePlace
    <3>. QED BY <3>1, <3>2
  <2>2. ASSUME NEW q \in Procs, NEW r \in Procs, Carrying(q)', Carrying(r)', Carried(q)' = Carried(r)'
        PROVE  q = r
    <3>1. CASE q # p /\ r # p BY <2>2, <3>1, <1>12 DEF IInv, OnePlace
    <3>2. CASE q = p /\ r # p BY <2>2, <3>2, <1>10, <1>11, <1>12
    <3>3. CASE q # p /\ r = p BY <2>2, <3>3, <1>10, <1>11, <1>12
    <3>. QED BY <3>1, <3>2, <3>3
  <2>. QED BY <2>1, <2>2 DEF OnePlace, IInv, files
<1>14. Current'
  <2>1. StoredIsCurrent'
    <3>1. \A t : (\E q \in Procs : pc'[q] = "upd_secrets" /\ my'[q].new.sess = t) <=> Storing(t)
      BY <1>6 DEF Storing, At
    <3>2. StoredIsCurrent BY DEF IInv, Current
    <3>. QED BY <3>1, <3>2 DEF StoredIsCurrent, Storing, At, files
  <2>2. s \notin interrupted => sec.gen = server[s].gen
    <3>1. ~Storing(s) BY <1>10 DEF Storing, At, Carrying, Carried
    <3>2. DOMAIN creds = Stores BY DEF IInv, Types
    <3>. QED BY <3>1, <3>2, <1>1, <1>4 DEF IInv, Current, StoredIsCurrent
  <2>3. ASSUME NEW q \in Procs, pc'[q] = "refresh", my'[q].sec.sess \notin interrupted
        PROVE  my'[q].sec.gen = server[my'[q].sec.sess].gen
    <3>1. CASE q = p BY <2>2, <2>3, <3>1, <1>2, <1>6
    <3>2. CASE q # p BY <2>3, <3>2, <1>6 DEF IInv, Current
    <3>. QED BY <3>1, <3>2
  <2>4. \A q \in Procs : pc'[q] = "upd_secrets" => my'[q].new.gen = server[my'[q].new.sess].gen
    BY <1>6 DEF IInv, Current
  <2>. QED BY <2>1, <2>3, <2>4 DEF Current
<1>15. Private'
  <2>1. \A q \in Procs : Unsaved(q)' => q # p /\ Unsaved(q) /\ my'[q] = my[q] BY <1>6 DEF Unsaved
  <2>2. ASSUME NEW q \in Procs, Unsaved(q)'
        PROVE  /\ my'[q].new.gen = 0 /\ server[my'[q].new.sess].gen = 0
               /\ \A k \in Stores, h \in Hosts :
                    creds[k][h] # None => creds[k][h].sess # my'[q].new.sess
               /\ \A r \in Procs : Carrying(r)' => Carried(r)' # my'[q].new.sess
               /\ \A r \in Procs : Unsaved(r)' /\ my'[r].new.sess = my'[q].new.sess => r = q
    <3>1. Unsaved(q) /\ my'[q] = my[q] BY <2>1, <2>2
    <3>2. /\ my[q].new.gen = 0 /\ server[my[q].new.sess].gen = 0
          /\ \A k \in Stores, h \in Hosts :
               creds[k][h] # None => creds[k][h].sess # my[q].new.sess
          /\ \A r \in Procs : Carrying(r) => Carried(r) # my[q].new.sess
          /\ \A r \in Procs : Unsaved(r) /\ my[r].new.sess = my[q].new.sess => r = q
      BY <3>1 DEF IInv, Private
    <3>3. s # my[q].new.sess BY <1>1, <1>4, <3>2
    <3>4. \A r \in Procs : Carrying(r)' => Carried(r)' # my[q].new.sess BY <1>11, <1>12, <3>2, <3>3
    <3>5. \A r \in Procs : Unsaved(r)' /\ my'[r].new.sess = my[q].new.sess => r = q BY <2>1, <3>2
    <3>. QED BY <3>1, <3>2, <3>4, <3>5
  <2>. QED BY <2>2 DEF Private, files
<1>. QED BY <1>7, <1>9, <1>13, <1>14, <1>15 DEF IInv, ReuseOnlyAfterInterruption

LEMMA LockedSecretsKeeps ==
  ASSUME IInv, NEW p \in Procs, LockedSecrets(p)
  PROVE  IInv'
<1>1. At(p, "locked_secrets") /\ UNCHANGED <<files, server, interrupted, reused>>
  BY DEF LockedSecrets, history
<1>2. /\ my[p] \in Locals(Len(server)) /\ Len(server) \in Nat /\ my[p].host \in Hosts
      /\ my[p].rec \in Records(Len(server))
  BY <1>1, Knows DEF At, Fits, WithRec
<1>. DEFINE sec == SecretsOf(p, my[p].rec)
            m == [my[p] EXCEPT !.sec = sec]
<1>3. sec \in Pairs(Len(server)) \cup {None}
  BY <1>2 DEF IInv, Types, SecretsOf, Records
<1>4. CASE End(p)
  <2>1. Quiet(p) BY <1>1, <1>4, QuietLock DEF End
  <2>. QED BY <1>1, <1>4, <2>1, EndKeeps DEF At, IInv, ReuseOnlyAfterInterruption
<1>5. CASE sec # None /\ Goto(p, "request", m) /\ lock' = Released(p)
  <2>2. sec \in Pairs(Len(server)) BY <1>5, <1>3
  <2>3. m \in Locals(Len(server)) /\ m.sec = sec /\ m.host = my[p].host
    BY <1>2, <2>2, SetLocal
  <2>5. Quiet(p) BY <1>1, <1>5, QuietLock
  <2>. HIDE DEF sec, m
  <2>6. Fits("request", m, Len(server))
    BY <1>2, <2>2, <2>3 DEF Fits, WithRec, WithSec, WithNew, Saving, WithFile
  <2>. QED BY <1>1, <1>5, <2>3, <2>5, <2>6, MoveKeeps DEF At, Places, Refreshing, WithSec
<1>6. CASE sec # None /\ Goto(p, "refresh", m) /\ UNCHANGED lock
  <2>1. sec \in Pairs(Len(server)) BY <1>6, <1>3
  <2>2. pc[p] = "locked_secrets" BY <1>1 DEF At
  <2>. QED BY <1>1, <1>6, <2>1, <2>2, SpendKeeps
<1>. QED BY <1>4, <1>5, <1>6 DEF LockedSecrets

\* The host rotates the token: the new tokens are in hand, or their loss is counted.
LEMMA RotatedKeeps ==
  ASSUME IInv, NEW p \in Procs, pc[p] = "refresh", NEW l, NEW m, Goto(p, l, m), NEW s,
         s = my[p].sec.sess, my[p].sec.gen = server[s].gen,
         server' = [server EXCEPT ![s].gen = @ + 1], UNCHANGED <<files, reused>>,
         \/ /\ l = "upd_secrets" /\ UNCHANGED <<lock, interrupted>>
            /\ m = [my[p] EXCEPT !.new = [sess |-> s, gen |-> my[p].sec.gen + 1]]
         \/ l = "idle" /\ m = Blank /\ lock' = Released(p) /\ interrupted' = interrupted \cup {s}
  PROVE  IInv'
<1>. DEFINE n == Len(server)
            g == server[s].gen
            t == [server[s] EXCEPT !.gen = g + 1]
            new == [sess |-> s, gen |-> my[p].sec.gen + 1]
            h0 == my[p].host
<1>1. /\ my[p] \in Locals(n) /\ n \in Nat /\ h0 \in Hosts
      /\ my[p].sec \in Pairs(n) /\ my[p].rec \in Records(n) /\ DOMAIN server = 1..n
  BY Knows DEF Fits, WithRec, WithSec
<1>2. s \in 1..n /\ my[p].sec.gen \in Nat BY <1>1 DEF Pairs
<1>3. server \in Seq(Sessions) /\ server[s] \in Sessions BY <1>2, Knows DEF IInv, Types
<1>4. t \in Sessions /\ t.gen = g + 1 /\ g \in Nat BY <1>3, SMTT(30) DEF Sessions
<1>5. new \in Pairs(n) BY <1>2 DEF Pairs
<1>6. server' \in Seq(Sessions) /\ Len(server') = n /\ DOMAIN server' = DOMAIN server
      /\ server'[s].gen = g + 1
      /\ \A i \in 1..n : i # s => server'[i] = server[i]
  <2>. DEFINE u == [server EXCEPT ![s] = t]
  <2>1. u \in Seq(Sessions) /\ Len(u) = n BY <1>2, <1>3, <1>4, ExceptSeq
  <2>2. u[s] = t /\ DOMAIN u = DOMAIN server /\ \A i \in 1..n : i # s => u[i] = server[i]
    BY ONLY <1>1, <1>2
  <2>3. server' = u OBVIOUS
  <2>. HIDE DEF u, t
  <2>. QED BY <2>1, <2>2, <2>3, <1>4
<1>7. l \in {"upd_secrets", "idle"} /\ l \in Places /\ m \in Locals(n) /\ Fits(l, m, n)
      /\ (l = "upd_secrets" => m.new = new /\ m.host = h0 /\ m.rec = my[p].rec)
      /\ (l = "upd_secrets" => lock' = lock)
      /\ (l # "upd_secrets" => s \in interrupted')
      /\ interrupted \subseteq interrupted'
      /\ lock' \in [Hosts -> Procs \cup {None}]
      /\ \A h \in Hosts : lock[h] \notin {p, None} => lock'[h] = lock[h]
  <2>1. CASE l = "upd_secrets" /\ UNCHANGED <<lock, interrupted>> /\ m = [my[p] EXCEPT !.new = new]
    <3>1. m \in Locals(n) /\ m.new = new /\ m.host = h0 /\ m.rec = my[p].rec
      BY <2>1, <1>1, <1>5, SetLocal
    <3>. HIDE DEF n, h0, new
    <3>2. Fits("upd_secrets", m, n)
      BY <3>1, <1>1, <1>5 DEF Fits, WithRec, WithSec, WithNew, Saving, WithFile
    <3>3. "upd_secrets" \in Places BY DEF Places, WithRec
    <3>4. lock \in [Hosts -> Procs \cup {None}] BY DEF IInv, Types
    <3>. QED BY <2>1, <3>1, <3>2, <3>3, <3>4
  <2>2. CASE l = "idle" /\ m = Blank /\ lock' = Released(p) /\ interrupted' = interrupted \cup {s}
    <3>1. m \in Locals(n) /\ Fits("idle", m, n) /\ "idle" \in Places
      BY <2>2, SMTT(30) DEF Blank, Locals, Fits, WithRec, WithSec, WithNew, Saving, WithFile, Places
    <3>. QED BY <2>2, <3>1, ReleasedLock
  <2>. QED BY <2>1, <2>2
<1>. HIDE DEF g, t, new
<1>8. /\ pc' \in [Procs -> Places] /\ my' \in [Procs -> Locals(Len(server'))]
      /\ \A q \in Procs : Fits(pc'[q], my'[q], Len(server'))
      /\ pc'[p] = l /\ my'[p] = m
      /\ \A q \in Procs : q # p => pc'[q] = pc[q] /\ my'[q] = my[q]
  BY <1>1, <1>6, <1>7, MoveTypes DEF IInv
<1>9. Types' BY <1>6, <1>7, <1>8 DEF Types, IInv, files
<1>10. Locked'
  <2>. SUFFICES ASSUME NEW q \in Procs, pc'[q] \in Refreshing PROVE lock'[my'[q].host] = q
    BY DEF Locked
  <2>1. CASE q = p
    <3>1. l = "upd_secrets" BY <2>1, <1>7, <1>8 DEF Refreshing
    <3>2. lock[h0] = p BY DEF IInv, Locked, Refreshing
    <3>. QED BY <2>1, <3>1, <3>2, <1>7, <1>8
  <2>2. CASE q # p
    <3>1. pc[q] \in Refreshing /\ my'[q] = my[q] BY <2>2, <1>8
    <3>2. lock[my[q].host] = q /\ my[q].host \in Hosts
      BY <3>1, Knows DEF IInv, Locked, Refreshing, Fits
    <3>. QED BY <2>2, <3>1, <3>2, <1>7, LoginAssumption
  <2>. QED BY <2>1, <2>2
<1>11. Carrying(p) /\ Carried(p) = s BY DEF Carrying, Carried
<1>12. \A q \in Procs : Carrying(q)' =>
         /\ Carrying(q) /\ Carried(q)' = Carried(q)
         /\ my'[q].host = my[q].host /\ my'[q].rec = my[q].rec
  <2>1. ASSUME Carrying(p)'
        PROVE  Carried(p)' = s /\ my'[p].host = my[p].host /\ my'[p].rec = my[p].rec
    <3>1. l = "upd_secrets" BY <2>1, <1>7, <1>8 DEF Carrying
    <3>. QED BY <3>1, <1>7, <1>8 DEF Carried, new
  <2>2. \A q \in Procs : q # p => (Carrying(q)' => Carrying(q)) /\ Carried(q)' = Carried(q) /\ my'[q] = my[q]
    BY <1>8 DEF Carrying, Carried
  <2>. QED BY <2>1, <2>2, <1>11
<1>13. OnePlace'
  <2>1. ASSUME NEW q \in Procs, NEW k \in Stores, NEW h \in Hosts,
               Carrying(q)', creds[k][h] # None, creds[k][h].sess = Carried(q)'
        PROVE  k = my'[q].rec.kind /\ h = my'[q].host
    BY <2>1, <1>12 DEF IInv, OnePlace
  <2>2. ASSUME NEW q \in Procs, NEW r \in Procs, Carrying(q)', Carrying(r)', Carried(q)' = Carried(r)'
        PROVE  q = r
    BY <2>2, <1>12, SMTT(30) DEF IInv, OnePlace
  <2>. QED BY <2>1, <2>2 DEF OnePlace, IInv, files
<1>14. Current'
  <2>1. ASSUME NEW k \in Stores, NEW h \in Hosts, creds[k][h] # None,
               creds[k][h].sess \notin interrupted',
               \A q \in Procs : ~(pc'[q] = "upd_secrets" /\ my'[q].new.sess = creds[k][h].sess)
        PROVE  creds[k][h].gen = server'[creds[k][h].sess].gen
    <3>1. creds[k][h].sess \in 1..n BY <2>1 DEF IInv, Types, Pairs
    <3>2. creds[k][h].sess # s
      <4>1. CASE l = "upd_secrets"
        <5>1. pc'[p] = "upd_secrets" /\ my'[p].new.sess = s BY <4>1, <1>7, <1>8 DEF new
        <5>. QED BY <2>1, <5>1
      <4>2. CASE l # "upd_secrets" BY <4>2, <2>1, <1>7
      <4>. QED BY <4>1, <4>2
    <3>3. ASSUME NEW q \in Procs, pc[q] = "upd_secrets", my[q].new.sess = creds[k][h].sess PROVE FALSE
      <4>1. q # p BY <3>3
      <4>. QED BY <2>1, <3>3, <4>1, <1>8
    <3>4. ~Storing(creds[k][h].sess) BY <3>3 DEF Storing, At
    <3>5. DOMAIN creds = Stores BY DEF IInv, Types
    <3>6. creds[k][h].gen = server[creds[k][h].sess].gen
      BY <2>1, <3>4, <3>5, <1>7 DEF IInv, Current, StoredIsCurrent
    <3>. QED BY <3>1, <3>2, <3>6, <1>6
  <2>2. StoredIsCurrent'
    <3>1. DOMAIN creds' = Stores /\ creds' = creds BY DEF IInv, Types, files
    <3>. QED BY <2>1, <3>1 DEF StoredIsCurrent, Storing, At
  <2>3. ASSUME NEW q \in Procs, pc'[q] = "refresh", my'[q].sec.sess \notin interrupted'
        PROVE  my'[q].sec.gen = server'[my'[q].sec.sess].gen
    <3>1. q # p /\ pc[q] = "refresh" /\ my'[q] = my[q] BY <2>3, <1>7, <1>8
    <3>2. my[q].sec.sess # s BY <3>1, <1>11 DEF IInv, OnePlace, Carrying, Carried
    <3>3. my[q].sec.sess \in 1..n BY <3>1, Knows DEF Fits, Pairs, WithSec
    <3>4. my[q].sec.gen = server[my[q].sec.sess].gen BY <2>3, <3>1, <1>7 DEF IInv, Current
    <3>. QED BY <3>1, <3>2, <3>3, <3>4, <1>6
  <2>4. ASSUME NEW q \in Procs, pc'[q] = "upd_secrets"
        PROVE  my'[q].new.gen = server'[my'[q].new.sess].gen
    <3>1. CASE q = p
      <4>1. my'[q].new = new BY <2>4, <3>1, <1>7, <1>8
      <4>. QED BY <4>1, <1>6 DEF new, g
    <3>2. CASE q # p
      <4>1. pc[q] = "upd_secrets" /\ my'[q] = my[q] BY <2>4, <3>2, <1>8
      <4>2. my[q].new.sess # s BY <3>2, <4>1, <1>11 DEF IInv, OnePlace, Carrying, Carried
      <4>3. my[q].new.sess \in 1..n BY <4>1, Knows DEF Fits, Pairs, WithNew
      <4>4. my[q].new.gen = server[my[q].new.sess].gen BY <4>1, SMTT(30) DEF IInv, Current
      <4>. QED BY <4>1, <4>2, <4>3, <4>4, <1>6
    <3>. QED BY <3>1, <3>2
  <2>. QED BY <2>2, <2>3, <2>4 DEF Current
<1>15. Private'
  <2>1. \A q \in Procs : Unsaved(q)' => Unsaved(q) /\ my'[q] = my[q] BY <1>7, <1>8 DEF Unsaved
  <2>2. ASSUME NEW q \in Procs, Unsaved(q)'
        PROVE  /\ my'[q].new.gen = 0 /\ server'[my'[q].new.sess].gen = 0
               /\ \A k \in Stores, h \in Hosts :
                    creds[k][h] # None => creds[k][h].sess # my'[q].new.sess
               /\ \A r \in Procs : Carrying(r)' => Carried(r)' # my'[q].new.sess
               /\ \A r \in Procs : Unsaved(r)' /\ my'[r].new.sess = my'[q].new.sess => r = q
    <3>1. Unsaved(q) /\ my'[q] = my[q] BY <2>1, <2>2
    <3>2. /\ my[q].new.gen = 0 /\ server[my[q].new.sess].gen = 0
          /\ \A k \in Stores, h \in Hosts :
               creds[k][h] # None => creds[k][h].sess # my[q].new.sess
          /\ \A r \in Procs : Carrying(r) => Carried(r) # my[q].new.sess
          /\ \A r \in Procs : Unsaved(r) /\ my[r].new.sess = my[q].new.sess => r = q
      BY <3>1 DEF IInv, Private
    <3>3. s # my[q].new.sess BY <1>11, <3>2
    <3>4. my[q].new.sess \in 1..n BY <3>1, Knows DEF Unsaved, Fits, WithNew, Saving, Pairs
    <3>5. server'[my[q].new.sess].gen = 0 BY <1>6, <3>2, <3>3, <3>4
    <3>6. \A r \in Procs : Carrying(r)' => Carried(r)' # my[q].new.sess BY <1>12, <3>2
    <3>7. \A r \in Procs : Unsaved(r)' /\ my'[r].new.sess = my[q].new.sess => r = q BY <2>1, <3>2
    <3>. QED BY <3>1, <3>2, <3>5, <3>6, <3>7
  <2>. QED BY <2>2 DEF Private, files
<1>16. ReuseOnlyAfterInterruption' BY <1>7, SMTT(30) DEF IInv, ReuseOnlyAfterInterruption
<1>. QED BY <1>9, <1>10, <1>13, <1>14, <1>15, <1>16 DEF IInv

\* A token that is refused as spent belongs to a session whose rotation was cut off.
LEMMA RefreshKeeps ==
  ASSUME IInv, NEW p \in Procs, Refresh(p)
  PROVE  IInv'
<1>. DEFINE s == my[p].sec.sess
            rotated == ~server[s].revoked /\ my[p].sec.gen = server[s].gen
<1>1. At(p, "refresh") /\ UNCHANGED files BY DEF Refresh
<1>2. s \in 1..Len(server) BY <1>1, Knows DEF At, Fits, WithSec, Pairs
<1>3. CASE rotated /\ server' = [server EXCEPT ![s].gen = @ + 1] /\ UNCHANGED reused
           /\ (\/ /\ Goto(p, "upd_secrets", [my[p] EXCEPT !.new = [sess |-> s, gen |-> my[p].sec.gen + 1]])
                  /\ UNCHANGED <<lock, interrupted>>
               \/ Lossy /\ End(p) /\ interrupted' = interrupted \cup {s})
  <2>1. pc[p] = "refresh" /\ my[p].sec.gen = server[s].gen BY <1>1, <1>3, SMTT(30) DEF At
  <2>2. CASE /\ Goto(p, "upd_secrets", [my[p] EXCEPT !.new = [sess |-> s, gen |-> my[p].sec.gen + 1]])
             /\ UNCHANGED <<lock, interrupted>>
    BY <1>1, <1>3, <2>1, <2>2, RotatedKeeps
  <2>3. CASE End(p) /\ interrupted' = interrupted \cup {s}
    <3>1. Goto(p, "idle", Blank) /\ lock' = Released(p) BY <2>3 DEF End
    <3>. QED BY <1>1, <1>3, <2>1, <2>3, <3>1, RotatedKeeps
  <2>. QED BY <1>3, <2>2, <2>3
<1>4. CASE ~rotated /\ server' = [server EXCEPT ![s].revoked = TRUE] /\ End(p) /\ UNCHANGED interrupted
           /\ reused' = IF server[s].revoked THEN reused ELSE reused \cup {s}
  <2>1. Quiet(p) BY <1>1, <1>2, <1>4, QuietRevoke DEF End
  <2>2. ~server[s].revoked => s \in interrupted BY <1>1, <1>4 DEF At, IInv, Current
  <2>3. reused' \subseteq interrupted' BY <1>4, <2>2 DEF IInv, ReuseOnlyAfterInterruption
  <2>. QED BY <1>1, <1>4, <2>1, <2>3, EndKeeps DEF At
<1>5. CASE End(p) /\ UNCHANGED <<server, interrupted, reused>>
  <2>1. Quiet(p) BY <1>1, <1>5, QuietLock DEF End
  <2>. QED BY <1>1, <1>5, <2>1, EndKeeps DEF At, IInv, ReuseOnlyAfterInterruption
<1>. QED BY <1>3, <1>4, <1>5 DEF Refresh

\* Current tokens that no other process has are stored, in the place they were spent from
\* or, for a new session, anywhere.
LEMMA StoreKeeps ==
  ASSUME IInv, NEW p \in Procs, NEW l \in Places, NEW m, Goto(p, l, m), NEW k0 \in Stores,
         UNCHANGED <<hosts, server, lock, interrupted, reused>>,
         my[p].host \in Hosts, my[p].new \in Pairs(Len(server)),
         SetCreds(p, k0, my[p].new),
         my[p].new.gen = server[my[p].new.sess].gen,
         \A k \in Stores, h \in Hosts :
           creds[k][h] # None /\ creds[k][h].sess = my[p].new.sess => k = k0 /\ h = my[p].host,
         \A q \in Procs : q # p /\ Carrying(q) => Carried(q) # my[p].new.sess,
         \A q \in Procs : q # p /\ Unsaved(q) => my[q].new.sess # my[p].new.sess,
         m \in Locals(Len(server)), Fits(l, m, Len(server)),
         l \notin {"refresh", "upd_secrets"}, pc[p] # "refresh",
         l \in Refreshing => lock[m.host] = p,
         ~Unsaved(p)'
  PROVE  IInv'
<1>. DEFINE n == Len(server)
            new == my[p].new
            s == my[p].new.sess
            h0 == my[p].host
<1>1. n \in Nat /\ DOMAIN server = 1..n BY Knows
<1>2. /\ pc' \in [Procs -> Places] /\ my' \in [Procs -> Locals(Len(server'))]
      /\ \A q \in Procs : Fits(pc'[q], my'[q], Len(server'))
      /\ pc'[p] = l /\ my'[p] = m
      /\ \A q \in Procs : q # p => pc'[q] = pc[q] /\ my'[q] = my[q]
  BY <1>1, MoveTypes DEF IInv
<1>3. /\ creds' \in [Stores -> [Hosts -> Pairs(n) \cup {None}]]
      /\ creds'[k0][h0] = new
      /\ \A k \in Stores, h \in Hosts : k # k0 \/ h # h0 => creds'[k][h] = creds[k][h]
  BY DEF SetCreds, IInv, Types
<1>4. Types' BY <1>2, <1>3 DEF Types, IInv
<1>5. Locked' BY <1>2 DEF IInv, Locked
<1>6. \A q \in Procs : Carrying(q)' => q # p /\ Carrying(q) /\ Carried(q)' = Carried(q) /\ my'[q] = my[q]
  BY <1>2 DEF Carrying, Carried
<1>7. OnePlace'
  <2>1. ASSUME NEW k \in Stores, NEW j \in Stores, NEW g \in Hosts, NEW h \in Hosts,
               creds'[k][g] # None, creds'[j][h] # None, creds'[k][g].sess = creds'[j][h].sess
        PROVE  k = j /\ g = h
    <3>1. CASE (k = k0 /\ g = h0) /\ ~(j = k0 /\ h = h0) BY <2>1, <3>1, <1>3
    <3>2. CASE ~(k = k0 /\ g = h0) /\ (j = k0 /\ h = h0) BY <2>1, <3>2, <1>3
    <3>3. CASE ~(k = k0 /\ g = h0) /\ ~(j = k0 /\ h = h0)
      BY <2>1, <3>3, <1>3 DEF IInv, OnePlace
    <3>. QED BY <3>1, <3>2, <3>3
  <2>2. ASSUME NEW q \in Procs, NEW k \in Stores, NEW h \in Hosts,
               Carrying(q)', creds'[k][h] # None, creds'[k][h].sess = Carried(q)'
        PROVE  k = my'[q].rec.kind /\ h = my'[q].host
    <3>1. q # p /\ Carrying(q) /\ Carried(q)' = Carried(q) /\ my'[q] = my[q] BY <2>2, <1>6
    <3>2. ~(k = k0 /\ h = h0) BY <2>2, <3>1, <1>3
    <3>. QED BY <2>2, <3>1, <3>2, <1>3 DEF IInv, OnePlace
  <2>3. ASSUME NEW q \in Procs, NEW r \in Procs, Carrying(q)', Carrying(r)', Carried(q)' = Carried(r)'
        PROVE  q = r
    BY <2>3, <1>6 DEF IInv, OnePlace
  <2>. QED BY <2>1, <2>2, <2>3 DEF OnePlace
<1>8. Current'
  <2>1. ASSUME NEW k \in Stores, NEW h \in Hosts, creds'[k][h] # None,
               creds'[k][h].sess \notin interrupted,
               \A q \in Procs : ~(pc'[q] = "upd_secrets" /\ my'[q].new.sess = creds'[k][h].sess)
        PROVE  creds'[k][h].gen = server[creds'[k][h].sess].gen
    <3>1. CASE k = k0 /\ h = h0 BY <3>1, <1>3
    <3>2. CASE ~(k = k0 /\ h = h0)
      <4>1. creds'[k][h] = creds[k][h] BY <3>2, <1>3
      <4>2. creds[k][h].sess # s BY <2>1, <3>2, <4>1
      <4>3. ASSUME NEW q \in Procs, pc[q] = "upd_secrets", my[q].new.sess = creds[k][h].sess
            PROVE  FALSE
        <5>1. q # p BY <4>2, <4>3
        <5>. QED BY <2>1, <4>1, <4>3, <5>1, <1>2
      <4>4. ~Storing(creds[k][h].sess) BY <4>3 DEF Storing, At
      <4>5. DOMAIN creds = Stores BY DEF IInv, Types
      <4>. QED BY <2>1, <4>1, <4>4, <4>5 DEF IInv, Current, StoredIsCurrent
    <3>. QED BY <3>1, <3>2
  <2>2. StoredIsCurrent'
    <3>1. DOMAIN creds' = Stores BY <1>3
    <3>. QED BY <2>1, <3>1 DEF StoredIsCurrent, Storing, At
  <2>3. \A q \in Procs : pc'[q] = "refresh" /\ my'[q].sec.sess \notin interrupted'
          => my'[q].sec.gen = server'[my'[q].sec.sess].gen
    BY <1>2 DEF IInv, Current
  <2>4. \A q \in Procs : pc'[q] = "upd_secrets" => my'[q].new.gen = server'[my'[q].new.sess].gen
    BY <1>2 DEF IInv, Current
  <2>. QED BY <2>2, <2>3, <2>4 DEF Current
<1>9. Private'
  <2>1. \A q \in Procs : Unsaved(q)' => q # p /\ Unsaved(q) /\ my'[q] = my[q] BY <1>2 DEF Unsaved
  <2>2. ASSUME NEW q \in Procs, Unsaved(q)'
        PROVE  /\ my'[q].new.gen = 0 /\ server[my'[q].new.sess].gen = 0
               /\ \A k \in Stores, h \in Hosts :
                    creds'[k][h] # None => creds'[k][h].sess # my'[q].new.sess
               /\ \A r \in Procs : Carrying(r)' => Carried(r)' # my'[q].new.sess
               /\ \A r \in Procs : Unsaved(r)' /\ my'[r].new.sess = my'[q].new.sess => r = q
    <3>1. q # p /\ Unsaved(q) /\ my'[q] = my[q] BY <2>1, <2>2
    <3>2. /\ my[q].new.gen = 0 /\ server[my[q].new.sess].gen = 0
          /\ \A k \in Stores, h \in Hosts :
               creds[k][h] # None => creds[k][h].sess # my[q].new.sess
          /\ \A r \in Procs : Carrying(r) => Carried(r) # my[q].new.sess
          /\ \A r \in Procs : Unsaved(r) /\ my[r].new.sess = my[q].new.sess => r = q
      BY <3>1 DEF IInv, Private
    <3>3. s # my[q].new.sess BY <3>1
    <3>4. \A k \in Stores, h \in Hosts : creds'[k][h] # None => creds'[k][h].sess # my[q].new.sess
      BY <3>2, <3>3, <1>3
    <3>5. \A r \in Procs : Carrying(r)' => Carried(r)' # my[q].new.sess BY <1>6, <3>2
    <3>6. \A r \in Procs : Unsaved(r)' /\ my'[r].new.sess = my[q].new.sess => r = q BY <2>1, <3>2
    <3>. QED BY <3>1, <3>2, <3>4, <3>5, <3>6
  <2>. QED BY <2>2 DEF Private
<1>. QED BY <1>4, <1>5, <1>7, <1>8, <1>9 DEF IInv, ReuseOnlyAfterInterruption

LEMMA UpdSecretsKeeps ==
  ASSUME IInv, NEW p \in Procs, UpdSecrets(p)
  PROVE  IInv'
<1>1. pc[p] = "upd_secrets" /\ UNCHANGED <<hosts, server, reused>> BY DEF UpdSecrets, At
<1>2. /\ my[p] \in Locals(Len(server)) /\ Len(server) \in Nat /\ my[p].host \in Hosts
      /\ my[p].rec \in Records(Len(server)) /\ my[p].new \in Pairs(Len(server))
  BY <1>1, Knows DEF Fits, WithRec, WithNew
<1>3. CASE SetCreds(p, my[p].rec.kind, my[p].new) /\ Stay(p, "upd_read") /\ UNCHANGED <<lock, interrupted>>
  <2>1. my[p].rec.kind \in Stores BY <1>2 DEF Records
  <2>2. Carrying(p) /\ Carried(p) = my[p].new.sess BY <1>1 DEF Carrying, Carried
  <2>3. \A k \in Stores, h \in Hosts :
          creds[k][h] # None /\ creds[k][h].sess = my[p].new.sess => k = my[p].rec.kind /\ h = my[p].host
    BY <2>2 DEF IInv, OnePlace
  <2>4. \A q \in Procs : q # p /\ Carrying(q) => Carried(q) # my[p].new.sess
    BY <2>2 DEF IInv, OnePlace
  <2>5. \A q \in Procs : q # p /\ Unsaved(q) => my[q].new.sess # my[p].new.sess
    BY <2>2 DEF IInv, Private
  <2>6. my[p].new.gen = server[my[p].new.sess].gen BY <1>1 DEF IInv, Current
  <2>7. Fits("upd_read", my[p], Len(server)) /\ "upd_read" \in Places
    BY <1>2 DEF Fits, WithRec, WithSec, WithNew, Saving, WithFile, Places
  <2>8. lock[my[p].host] = p BY <1>1 DEF IInv, Locked, Refreshing
  <2>9. ~Unsaved(p)' BY <1>3 DEF Stay, Goto, Unsaved, IInv, Types
  <2>10. Goto(p, "upd_read", my[p]) BY <1>3 DEF Stay
  <2>. QED
    BY <1>1, <1>2, <1>3, <2>1, <2>3, <2>4, <2>5, <2>6, <2>7, <2>8, <2>9, <2>10, StoreKeeps
<1>4. CASE End(p) /\ interrupted' = interrupted \cup {my[p].new.sess} /\ UNCHANGED creds
  <2>1. Quiet(p) BY <1>1, <1>4, QuietLock DEF End, files
  <2>. QED BY <1>1, <1>4, <2>1, EndKeeps DEF IInv, ReuseOnlyAfterInterruption
<1>. QED BY <1>3, <1>4 DEF UpdSecrets

LEMMA UpdReadKeeps ==
  ASSUME IInv, NEW p \in Procs, UpdRead(p)
  PROVE  IInv'
<1>. DEFINE m == [my[p] EXCEPT !.file = hosts]
<1>1. /\ At(p, "upd_read") /\ Goto(p, "upd_write", m)
      /\ UNCHANGED <<files, lock, server, interrupted, reused>>
  BY DEF UpdRead, ReadFile, history
<1>2. /\ my[p] \in Locals(Len(server)) /\ Len(server) \in Nat /\ my[p].host \in Hosts
      /\ my[p].rec \in Records(Len(server)) /\ my[p].new \in Pairs(Len(server))
      /\ hosts \in HostFiles(Len(server))
  BY <1>1, Knows DEF At, Fits, WithRec, WithNew, IInv, Types
<1>3. /\ m \in Locals(Len(server)) /\ m.host = my[p].host /\ m.rec = my[p].rec
      /\ m.new = my[p].new /\ m.file = hosts
  BY <1>2, SetLocal
<1>4. Quiet(p) BY <1>1, QuietLock
<1>. HIDE DEF m
<1>5. Fits("upd_write", m, Len(server))
  BY <1>2, <1>3 DEF Fits, WithRec, WithSec, WithNew, Saving, WithFile
<1>. QED BY <1>1, <1>3, <1>4, <1>5, MoveKeeps DEF At, Places, Refreshing, WithRec

LEMMA UpdWriteKeeps ==
  ASSUME IInv, NEW p \in Procs, UpdWrite(p)
  PROVE  IInv'
<1>. DEFINE rec == Record(my[p].new, my[p].rec.kind)
            m == [my[p] EXCEPT !.sec = my[p].new, !.new = None, !.file = None]
<1>1. /\ At(p, "upd_write") /\ Goto(p, "request", m) /\ hosts' = Written(p, rec)
      /\ lock' = Released(p) /\ UNCHANGED <<creds, server, interrupted, reused>>
  BY DEF UpdWrite, history
<1>2. /\ my[p] \in Locals(Len(server)) /\ Len(server) \in Nat /\ my[p].host \in Hosts
      /\ my[p].rec \in Records(Len(server)) /\ my[p].new \in Pairs(Len(server))
      /\ my[p].file \in HostFiles(Len(server))
  BY <1>1, Knows DEF At, Fits, WithRec, WithNew, WithFile
<1>3. rec \in Records(Len(server)) BY <1>2 DEF Record, Records, Pairs
<1>4. m \in Locals(Len(server)) /\ m.host = my[p].host /\ m.sec = my[p].new
  BY <1>2 DEF Locals
<1>5. Quiet(p) BY <1>1, <1>2, <1>3, QuietWrite
<1>. HIDE DEF rec, m
<1>6. Fits("request", m, Len(server))
  BY <1>2, <1>4 DEF Fits, WithRec, WithSec, WithNew, Saving, WithFile
<1>. QED BY <1>1, <1>4, <1>5, <1>6, MoveKeeps DEF At, Places, Refreshing, WithSec

LEMMA UseKeeps ==
  ASSUME IInv, NEW p \in Procs, Use(p)
  PROVE  IInv'
BY ReadRecordKeeps, ReadSecretsKeeps, RequestKeeps, TakeLockKeeps, LockedRecordKeeps,
   LockedSecretsKeeps, RefreshKeeps, UpdSecretsKeeps, UpdReadKeeps, UpdWriteKeeps DEF Use

-----------------------------------------------------------------------------
(* Logging in and out.                                                     *)

\* A session just granted is known to nobody else.
LEMMA GrantedKeeps ==
  ASSUME IInv, NEW p \in Procs, pc[p] = "grant", NEW m,
         server' = Append(server, [gen |-> 0, revoked |-> FALSE]),
         m = [my[p] EXCEPT !.new = [sess |-> Len(server) + 1, gen |-> 0]],
         Goto(p, "prev", m), UNCHANGED <<files, lock, interrupted, reused>>
  PROVE  IInv'
<1>. DEFINE n == Len(server)
            s == n + 1
            new == [sess |-> s, gen |-> 0]
            t == [gen |-> 0, revoked |-> FALSE]
<1>1. /\ my[p] \in Locals(n) /\ n \in Nat /\ my[p].host \in Hosts /\ DOMAIN server = 1..n
      /\ server \in Seq(Sessions)
  BY Knows DEF Fits, IInv, Types
<1>2. t \in Sessions BY DEF Sessions
<1>3. /\ server' \in Seq(Sessions) /\ Len(server') = n + 1 /\ server'[s] = t
      /\ \A i \in 1..n : server'[i] = server[i]
  BY <1>1, <1>2, AppendProperties
<1>4. /\ Pairs(n) \subseteq Pairs(s) /\ Records(n) \subseteq Records(s)
      /\ HostFiles(n) \subseteq HostFiles(s) /\ Locals(n) \subseteq Locals(s)
  BY <1>1, Grows
<1>5. new \in Pairs(s) BY <1>1 DEF Pairs
<1>6. m \in Locals(s) /\ m.new = new /\ m.host = my[p].host
  BY <1>1, <1>4, <1>5, SetLocal
<1>. HIDE DEF new, t
<1>7. Fits("prev", m, s) /\ "prev" \in Places
  BY <1>1, <1>5, <1>6 DEF Fits, WithRec, WithSec, WithNew, Saving, WithFile, Places
<1>8. /\ pc' \in [Procs -> Places] /\ my' \in [Procs -> Locals(Len(server'))]
      /\ \A q \in Procs : Fits(pc'[q], my'[q], Len(server'))
      /\ pc'[p] = "prev" /\ my'[p] = m
      /\ \A q \in Procs : q # p => pc'[q] = pc[q] /\ my'[q] = my[q]
  BY <1>1, <1>3, <1>6, <1>7, MoveTypes DEF IInv
<1>9. Types'
  <2>1. hosts' \in HostFiles(s) BY <1>4 DEF IInv, Types, files
  <2>2. creds' \in [Stores -> [Hosts -> Pairs(s) \cup {None}]] BY <1>4 DEF IInv, Types, files
  <2>. QED BY <2>1, <2>2, <1>3, <1>8 DEF Types, IInv
<1>10. Locked' BY <1>8 DEF IInv, Locked, Refreshing
<1>11. \A q \in Procs : Carrying(q)' => q # p /\ Carrying(q) /\ Carried(q)' = Carried(q) /\ my'[q] = my[q]
  BY <1>8 DEF Carrying, Carried
<1>12. OnePlace'
  <2>1. ASSUME NEW q \in Procs, NEW k \in Stores, NEW h \in Hosts,
               Carrying(q)', creds[k][h] # None, creds[k][h].sess = Carried(q)'
        PROVE  k = my'[q].rec.kind /\ h = my'[q].host
    BY <2>1, <1>11 DEF IInv, OnePlace
  <2>2. ASSUME NEW q \in Procs, NEW r \in Procs, Carrying(q)', Carrying(r)', Carried(q)' = Carried(r)'
        PROVE  q = r
    BY <2>2, <1>11 DEF IInv, OnePlace
  <2>. QED BY <2>1, <2>2 DEF OnePlace, IInv, files
\* The session is new.
<1>13. \A k \in Stores, h \in Hosts : creds[k][h] # None => creds[k][h].sess \in 1..n
  BY DEF IInv, Types, Pairs
<1>14. \A q \in Procs : Carrying(q) => Carried(q) \in 1..n
  <2>1. ASSUME NEW q \in Procs, pc[q] = "refresh" PROVE my[q].sec.sess \in 1..n
    BY <2>1, Knows DEF Fits, WithSec, Pairs
  <2>2. ASSUME NEW q \in Procs, pc[q] = "upd_secrets" PROVE my[q].new.sess \in 1..n
    BY <2>2, Knows DEF Fits, WithNew, Pairs
  <2>. QED BY <2>1, <2>2 DEF Carrying, Carried
<1>15. \A q \in Procs : Unsaved(q) => my[q].new.sess \in 1..n
  BY Knows DEF Unsaved, Fits, WithNew, Saving, Pairs
<1>16. s \notin 1..n BY <1>1
<1>17. Current'
  <2>1. ASSUME NEW k \in Stores, NEW h \in Hosts, creds[k][h] # None,
               creds[k][h].sess \notin interrupted,
               \A q \in Procs : ~(pc'[q] = "upd_secrets" /\ my'[q].new.sess = creds[k][h].sess)
        PROVE  creds[k][h].gen = server'[creds[k][h].sess].gen
    <3>1. ~Storing(creds[k][h].sess) BY <2>1, <1>8 DEF Storing, At
    <3>2. DOMAIN creds = Stores BY DEF IInv, Types
    <3>3. creds[k][h].gen = server[creds[k][h].sess].gen
      BY <2>1, <3>1, <3>2 DEF IInv, Current, StoredIsCurrent
    <3>. QED BY <2>1, <3>3, <1>3, <1>13
  <2>2. StoredIsCurrent'
    <3>1. DOMAIN creds' = Stores /\ creds' = creds BY DEF IInv, Types, files
    <3>. QED BY <2>1, <3>1 DEF StoredIsCurrent, Storing, At
  <2>3. ASSUME NEW q \in Procs, pc'[q] = "refresh", my'[q].sec.sess \notin interrupted'
        PROVE  my'[q].sec.gen = server'[my'[q].sec.sess].gen
    <3>1. pc[q] = "refresh" /\ my'[q] = my[q] BY <2>3, <1>8
    <3>2. my[q].sec.sess \in 1..n BY <3>1, <1>14 DEF Carrying, Carried
    <3>. QED BY <2>3, <3>1, <3>2, <1>3 DEF IInv, Current
  <2>4. ASSUME NEW q \in Procs, pc'[q] = "upd_secrets"
        PROVE  my'[q].new.gen = server'[my'[q].new.sess].gen
    <3>1. pc[q] = "upd_secrets" /\ my'[q] = my[q] BY <2>4, <1>8
    <3>2. my[q].new.sess \in 1..n BY <3>1, <1>14 DEF Carrying, Carried
    <3>. QED BY <3>1, <3>2, <1>3 DEF IInv, Current
  <2>. QED BY <2>2, <2>3, <2>4 DEF Current
<1>18. Private'
  <2>1. \A q \in Procs : Unsaved(q)' /\ q # p => Unsaved(q) /\ my'[q] = my[q] BY <1>8 DEF Unsaved
  <2>2. ASSUME NEW q \in Procs, Unsaved(q)'
        PROVE  /\ my'[q].new.gen = 0 /\ server'[my'[q].new.sess].gen = 0
               /\ \A k \in Stores, h \in Hosts :
                    creds[k][h] # None => creds[k][h].sess # my'[q].new.sess
               /\ \A r \in Procs : Carrying(r)' => Carried(r)' # my'[q].new.sess
               /\ \A r \in Procs : Unsaved(r)' /\ my'[r].new.sess = my'[q].new.sess => r = q
    <3>1. CASE q = p
      <4>1. my'[q].new.sess = s /\ my'[q].new.gen = 0 BY <3>1, <1>6, <1>8 DEF new
      <4>2. server'[s].gen = 0 BY <1>3 DEF t
      <4>3. \A k \in Stores, h \in Hosts : creds[k][h] # None => creds[k][h].sess # s
        BY <1>13, <1>16
      <4>4. \A r \in Procs : Carrying(r)' => Carried(r)' # s BY <1>11, <1>14, <1>16
      <4>5. \A r \in Procs : Unsaved(r)' /\ my'[r].new.sess = s => r = q
        BY <2>1, <3>1, <1>15, <1>16
      <4>. QED BY <4>1, <4>2, <4>3, <4>4, <4>5
    <3>2. CASE q # p
      <4>1. Unsaved(q) /\ my'[q] = my[q] /\ my[q].new.sess \in 1..n BY <2>1, <2>2, <3>2, <1>15
      <4>2. /\ my[q].new.gen = 0 /\ server[my[q].new.sess].gen = 0
            /\ \A k \in Stores, h \in Hosts :
                 creds[k][h] # None => creds[k][h].sess # my[q].new.sess
            /\ \A r \in Procs : Carrying(r) => Carried(r) # my[q].new.sess
            /\ \A r \in Procs : Unsaved(r) /\ my[r].new.sess = my[q].new.sess => r = q
        BY <4>1 DEF IInv, Private
      <4>3. server'[my[q].new.sess].gen = 0 BY <4>1, <4>2, <1>3
      <4>4. \A r \in Procs : Carrying(r)' => Carried(r)' # my[q].new.sess BY <1>11, <4>2
      <4>5. my'[p].new.sess # my[q].new.sess BY <4>1, <1>6, <1>8, <1>16 DEF new
      <4>6. \A r \in Procs : Unsaved(r)' /\ my'[r].new.sess = my[q].new.sess => r = q
        BY <2>1, <4>2, <4>5
      <4>. QED BY <4>1, <4>2, <4>3, <4>4, <4>6
    <3>. QED BY <3>1, <3>2
  <2>. QED BY <2>2 DEF Private, files
<1>. QED BY <1>9, <1>10, <1>12, <1>17, <1>18 DEF IInv, ReuseOnlyAfterInterruption

LEMMA GrantKeeps ==
  ASSUME IInv, NEW p \in Procs, Grant(p)
  PROVE  IInv'
<1>1. At(p, "grant") /\ UNCHANGED <<files, interrupted, reused>> BY DEF Grant, history
<1>2. CASE End(p) /\ UNCHANGED server
  <2>1. Quiet(p) BY <1>1, <1>2, QuietLock DEF End
  <2>. QED BY <1>1, <1>2, <2>1, EndKeeps DEF At, IInv, ReuseOnlyAfterInterruption
<1>3. CASE /\ server' = Append(server, [gen |-> 0, revoked |-> FALSE])
           /\ Goto(p, "prev", [my[p] EXCEPT !.new = [sess |-> Len(server) + 1, gen |-> 0]])
           /\ UNCHANGED lock
  BY <1>1, <1>3, GrantedKeeps DEF At
<1>. QED BY <1>2, <1>3 DEF Grant

LEMMA PrevRecordKeeps ==
  ASSUME IInv, NEW p \in Procs, PrevRecord(p)
  PROVE  IInv'
<1>. DEFINE rec == hosts[my[p].host]
            l == IF rec # None THEN "prev_secrets" ELSE "save"
            m == [my[p] EXCEPT !.rec = rec]
<1>1. /\ pc[p] = "prev" /\ Goto(p, l, m) /\ UNCHANGED <<files, lock, server, interrupted, reused>>
  BY DEF PrevRecord, RecordOf, history, At
<1>2. /\ my[p] \in Locals(Len(server)) /\ Len(server) \in Nat /\ my[p].host \in Hosts
      /\ my[p].new \in Pairs(Len(server)) /\ Unsaved(p)
  BY <1>1, Knows DEF Fits, WithNew, Unsaved
<1>3. rec \in Records(Len(server)) \cup {None} BY <1>2 DEF IInv, Types, HostFiles
<1>4. m \in Locals(Len(server)) /\ m.rec = rec /\ m.host = my[p].host /\ m.new = my[p].new
  BY <1>2, <1>3, SetLocal
<1>5. Quiet(p) BY <1>1, QuietLock
<1>6. \/ l = "prev_secrets" /\ rec \in Records(Len(server))
      \/ l = "save"
  BY <1>3
<1>. HIDE DEF rec, l, m
<1>7. Fits(l, m, Len(server))
  BY <1>2, <1>4, <1>6 DEF Fits, WithRec, WithSec, WithNew, Saving, WithFile
<1>. QED BY <1>1, <1>2, <1>4, <1>5, <1>6, <1>7, MoveKeeps DEF Places, Refreshing, WithNew

LEMMA SecretsToRevokeKeeps ==
  ASSUME IInv, NEW p \in Procs, NEW from, NEW revoke, NEW skip,
         \/ from = "prev_secrets" /\ revoke = "prev_revoke" /\ skip = "save"
         \/ from = "out_secrets" /\ revoke = "out_revoke" /\ skip = "del_read",
         SecretsToRevoke(p, from, revoke, skip)
  PROVE  IInv'
<1>. DEFINE sec == SecretsOf(p, my[p].rec)
            l == IF sec # None THEN revoke ELSE skip
            m == [my[p] EXCEPT !.sec = sec]
<1>1. pc[p] = from /\ Goto(p, l, m) /\ UNCHANGED <<files, lock, server, interrupted, reused>>
  BY DEF SecretsToRevoke, history, At
<1>2. /\ my[p] \in Locals(Len(server)) /\ Len(server) \in Nat /\ my[p].host \in Hosts
      /\ my[p].rec \in Records(Len(server))
      /\ (from = "prev_secrets" => my[p].new \in Pairs(Len(server)) /\ Unsaved(p))
  BY <1>1, Knows DEF Fits, WithNew, WithRec, Unsaved
<1>3. sec \in Pairs(Len(server)) \cup {None}
  BY <1>2 DEF IInv, Types, SecretsOf, Records
<1>4. /\ m \in Locals(Len(server)) /\ m.sec = sec /\ m.host = my[p].host
      /\ m.rec = my[p].rec /\ m.new = my[p].new
  BY <1>2, <1>3, SetLocal
<1>5. Quiet(p) BY <1>1, QuietLock
<1>6. \/ l = "prev_revoke" /\ from = "prev_secrets" /\ sec \in Pairs(Len(server))
      \/ l = "out_revoke" /\ sec \in Pairs(Len(server))
      \/ l = "save" /\ from = "prev_secrets"
      \/ l = "del_read"
  BY <1>3
<1>. HIDE DEF sec, l, m
<1>7. Fits(l, m, Len(server))
  BY <1>2, <1>4, <1>6 DEF Fits, WithRec, WithSec, WithNew, Saving, WithFile
<1>8. l \in Places \ (Refreshing \cup Saving) /\ pc[p] # "upd_secrets"
  BY <1>1, <1>6 DEF Places, Refreshing, Saving, WithNew, WithSec
<1>9. l \in {"prev", "prev_secrets", "prev_revoke", "save"} => Unsaved(p) /\ m.new = my[p].new
  BY <1>2, <1>4, <1>6
<1>. QED BY <1>1, <1>4, <1>5, <1>6, <1>7, <1>8, <1>9, MoveKeeps DEF Saving

LEMMA RevokeKeeps ==
  ASSUME IInv, NEW p \in Procs, NEW from, NEW to,
         \/ from = "prev_revoke" /\ to = "save"
         \/ from = "out_revoke" /\ to = "del_read",
         Revoke(p, from, to)
  PROVE  IInv'
<1>1. pc[p] = from /\ Goto(p, to, my[p]) /\ UNCHANGED <<files, lock, interrupted, reused>>
  BY DEF Revoke, history, At, Stay
<1>2. /\ my[p] \in Locals(Len(server)) /\ Len(server) \in Nat /\ my[p].host \in Hosts
      /\ my[p].sec \in Pairs(Len(server))
      /\ (from = "prev_revoke" => my[p].new \in Pairs(Len(server)) /\ Unsaved(p))
  BY <1>1, Knows DEF Fits, WithNew, WithSec, Unsaved
<1>3. my[p].sec.sess \in 1..Len(server) BY <1>2 DEF Pairs
<1>4. Quiet(p)
  <2>1. CASE server' = [server EXCEPT ![my[p].sec.sess].revoked = TRUE]
    BY <1>1, <1>3, <2>1, QuietRevoke
  <2>2. CASE UNCHANGED server BY <1>1, <2>2, QuietLock
  <2>. QED BY <2>1, <2>2 DEF Revoke
<1>5. Fits(to, my[p], Len(server))
  BY <1>2 DEF Fits, WithRec, WithSec, WithNew, Saving, WithFile
<1>6. to \in {"save", "del_read"} /\ (to = "save" => Unsaved(p)) BY <1>2
<1>7. to \in Places \ (Refreshing \cup Saving) /\ pc[p] # "upd_secrets"
  BY <1>1, <1>6 DEF Places, Refreshing, Saving, WithNew
<1>. QED BY <1>1, <1>2, <1>4, <1>5, <1>6, <1>7, MoveKeeps DEF Saving

\* A login's session, until its tokens are stored, is in no other hands.
LEMMA UnsavedAlone ==
  ASSUME IInv, NEW p \in Procs, Unsaved(p)
  PROVE  /\ my[p].new.gen = server[my[p].new.sess].gen
         /\ \A k \in Stores, h \in Hosts : creds[k][h] # None => creds[k][h].sess # my[p].new.sess
         /\ \A q \in Procs : q # p /\ Carrying(q) => Carried(q) # my[p].new.sess
         /\ \A q \in Procs : q # p /\ Unsaved(q) => my[q].new.sess # my[p].new.sess
<1>1. /\ my[p].new.gen = 0 /\ server[my[p].new.sess].gen = 0
      /\ \A k \in Stores, h \in Hosts : creds[k][h] # None => creds[k][h].sess # my[p].new.sess
      /\ \A q \in Procs : Carrying(q) => Carried(q) # my[p].new.sess
      /\ \A q \in Procs : Unsaved(q) /\ my[q].new.sess = my[p].new.sess => q = p
  BY DEF IInv, Private
<1>. QED BY <1>1

LEMMA SaveKeeps ==
  ASSUME IInv, NEW p \in Procs, Save(p)
  PROVE  IInv'
<1>1. pc[p] = "save" /\ UNCHANGED <<hosts, lock, server, interrupted, reused>>
  BY DEF Save, history, At
<1>2. /\ my[p] \in Locals(Len(server)) /\ Len(server) \in Nat /\ my[p].host \in Hosts
      /\ my[p].new \in Pairs(Len(server)) /\ Unsaved(p)
  BY <1>1, Knows DEF Fits, WithNew, Unsaved
<1>3. ASSUME NEW k \in Stores
      PROVE  LET m == [my[p] EXCEPT !.kind = k]
             IN  m \in Locals(Len(server)) /\ m.kind = k /\ m.host = my[p].host
                 /\ m.new = my[p].new /\ Fits("save_read", m, Len(server))
  <2>. DEFINE m == [my[p] EXCEPT !.kind = k]
  <2>1. m \in Locals(Len(server)) /\ m.kind = k /\ m.host = my[p].host /\ m.new = my[p].new
    BY <1>2, SetLocal
  <2>. HIDE DEF m
  <2>2. Fits("save_read", m, Len(server))
    BY <2>1, <1>2 DEF Fits, WithRec, WithSec, WithNew, Saving, WithFile
  <2>. QED BY <2>1, <2>2 DEF m
<1>4. "save_read" \in Places /\ "save_read" \notin Refreshing
  BY DEF Places, WithNew, Saving, Refreshing
<1>5. CASE SetCreds(p, "keyring", my[p].new) /\ Goto(p, "save_read", [my[p] EXCEPT !.kind = "keyring"])
  <2>. DEFINE m == [my[p] EXCEPT !.kind = "keyring"]
  <2>1. "keyring" \in Stores BY DEF Stores
  <2>2. m \in Locals(Len(server)) /\ m.kind = "keyring" /\ Fits("save_read", m, Len(server))
    BY <1>3, <2>1
  <2>3. Goto(p, "save_read", m) BY <1>5
  <2>. HIDE DEF m
  <2>4. ~Unsaved(p)' BY <2>2, <2>3 DEF Goto, Unsaved, IInv, Types
  <2>. QED BY <1>1, <1>2, <1>4, <1>5, <2>1, <2>2, <2>3, <2>4, UnsavedAlone, StoreKeeps
<1>6. CASE Goto(p, "save_read", [my[p] EXCEPT !.kind = "file"]) /\ UNCHANGED creds
  <2>. DEFINE m == [my[p] EXCEPT !.kind = "file"]
  <2>1. "file" \in Stores BY DEF Stores
  <2>2. m \in Locals(Len(server)) /\ m.new = my[p].new /\ Fits("save_read", m, Len(server))
    BY <1>3, <2>1
  <2>3. Goto(p, "save_read", m) /\ Quiet(p) BY <1>1, <1>6, QuietLock DEF files
  <2>. HIDE DEF m
  <2>. QED BY <1>1, <1>2, <1>4, <2>2, <2>3, MoveKeeps
<1>. QED BY <1>5, <1>6 DEF Save

LEMMA SaveReadKeeps ==
  ASSUME IInv, NEW p \in Procs, SaveRead(p)
  PROVE  IInv'
<1>. DEFINE m == [my[p] EXCEPT !.file = hosts]
<1>1. /\ pc[p] = "save_read" /\ Goto(p, "save_store", m)
      /\ UNCHANGED <<files, lock, server, interrupted, reused>>
  BY DEF SaveRead, ReadFile, history, At
<1>2. /\ my[p] \in Locals(Len(server)) /\ Len(server) \in Nat /\ my[p].host \in Hosts
      /\ my[p].new \in Pairs(Len(server)) /\ my[p].kind \in Stores
      /\ hosts \in HostFiles(Len(server))
  BY <1>1, Knows DEF Fits, WithNew, Saving, IInv, Types
<1>3. /\ m \in Locals(Len(server)) /\ m.host = my[p].host /\ m.kind = my[p].kind
      /\ m.new = my[p].new /\ m.file = hosts
  BY <1>2, SetLocal
<1>4. Quiet(p) BY <1>1, QuietLock
<1>. HIDE DEF m
<1>5. Fits("save_store", m, Len(server))
  BY <1>2, <1>3 DEF Fits, WithRec, WithSec, WithNew, Saving, WithFile
<1>6. "save_store" \in Places \ Refreshing BY DEF Places, Refreshing, WithNew, Saving
<1>7. m.kind = "file" => Unsaved(p) BY <1>1, <1>3 DEF Unsaved
<1>. QED BY <1>1, <1>3, <1>4, <1>5, <1>6, <1>7, MoveKeeps

LEMMA SaveStoreKeeps ==
  ASSUME IInv, NEW p \in Procs, SaveStore(p)
  PROVE  IInv'
<1>1. pc[p] = "save_store" /\ UNCHANGED <<hosts, lock, server, interrupted, reused>>
  BY DEF SaveStore, history, At
<1>2. /\ my[p] \in Locals(Len(server)) /\ Len(server) \in Nat /\ my[p].host \in Hosts
      /\ my[p].new \in Pairs(Len(server)) /\ my[p].kind \in Stores
      /\ my[p].file \in HostFiles(Len(server))
  BY <1>1, Knows DEF Fits, WithNew, Saving, WithFile
<1>3. ASSUME NEW l \in {"save_drop", "save_write"}
      PROVE  l \in Places \ Refreshing /\ Fits(l, my[p], Len(server))
  BY <1>2 DEF Places, Refreshing, Fits, WithRec, WithSec, WithNew, Saving, WithFile
<1>4. "file" \in Stores BY DEF Stores
<1>5. CASE my[p].kind = "file"
  <2>1. PICK l \in {"save_drop", "save_write"} : SetCreds(p, "file", my[p].new) /\ Goto(p, l, my[p])
    BY <1>5 DEF SaveStore, Stay
  <2>2. Unsaved(p) BY <1>1, <1>5 DEF Unsaved
  <2>3. ~Unsaved(p)' BY <2>1 DEF Goto, Unsaved, IInv, Types
  <2>. QED BY <1>1, <1>2, <1>3, <1>4, <2>1, <2>2, <2>3, UnsavedAlone, StoreKeeps
<1>6. CASE my[p].kind # "file"
  <2>1. SetCreds(p, "file", None) /\ Goto(p, "save_write", my[p]) BY <1>6 DEF SaveStore, Stay
  <2>2. Quiet(p) BY <1>1, <1>2, <1>4, <2>1, QuietDrop
  <2>. QED BY <1>1, <1>2, <1>3, <2>1, <2>2, MoveKeeps
<1>. QED BY <1>5, <1>6

LEMMA SaveDropKeeps ==
  ASSUME IInv, NEW p \in Procs, SaveDrop(p)
  PROVE  IInv'
<1>1. /\ pc[p] = "save_drop" /\ UNCHANGED <<hosts, lock, server, interrupted, reused>>
      /\ SetCreds(p, "keyring", None) /\ Goto(p, "save_write", my[p])
  BY DEF SaveDrop, history, At, Stay
<1>2. /\ my[p] \in Locals(Len(server)) /\ Len(server) \in Nat /\ my[p].host \in Hosts
      /\ my[p].new \in Pairs(Len(server)) /\ my[p].kind \in Stores
      /\ my[p].file \in HostFiles(Len(server))
  BY <1>1, Knows DEF Fits, WithNew, Saving, WithFile
<1>3. "save_write" \in Places \ Refreshing /\ Fits("save_write", my[p], Len(server))
  BY <1>2 DEF Places, Refreshing, Fits, WithRec, WithSec, WithNew, Saving, WithFile
<1>4. Quiet(p) BY <1>1, <1>2, QuietDrop DEF Stores
<1>. QED BY <1>1, <1>2, <1>3, <1>4, MoveKeeps

LEMMA SaveWriteKeeps ==
  ASSUME IInv, NEW p \in Procs, SaveWrite(p)
  PROVE  IInv'
<1>. DEFINE rec == Record(my[p].new, my[p].kind)
<1>1. /\ pc[p] = "save_write" /\ UNCHANGED <<creds, server, interrupted, reused>>
      /\ hosts' = Written(p, rec) /\ End(p)
  BY DEF SaveWrite, At
<1>2. /\ Len(server) \in Nat /\ my[p].host \in Hosts
      /\ my[p].new \in Pairs(Len(server)) /\ my[p].kind \in Stores
      /\ my[p].file \in HostFiles(Len(server))
  BY <1>1, Knows DEF Fits, WithNew, Saving, WithFile
<1>3. rec \in Records(Len(server)) BY <1>2 DEF Record, Records, Pairs
<1>. HIDE DEF rec
<1>4. Quiet(p) BY <1>1, <1>2, <1>3, QuietWrite DEF End
<1>. QED BY <1>1, <1>4, EndKeeps DEF IInv, ReuseOnlyAfterInterruption

LEMMA LoginKeeps ==
  ASSUME IInv, NEW p \in Procs, Login(p)
  PROVE  IInv'
BY GrantKeeps, PrevRecordKeeps, SecretsToRevokeKeeps, RevokeKeeps, SaveKeeps, SaveReadKeeps,
   SaveStoreKeeps, SaveDropKeeps, SaveWriteKeeps DEF Login, PrevSecrets, PrevRevoke

LEMMA OutRecordKeeps ==
  ASSUME IInv, NEW p \in Procs, OutRecord(p)
  PROVE  IInv'
<1>1. pc[p] = "out_record" /\ UNCHANGED <<files, server, interrupted, reused>>
  BY DEF OutRecord, history, At
<1>2. my[p] \in Locals(Len(server)) /\ Len(server) \in Nat /\ my[p].host \in Hosts
  BY <1>1, Knows DEF Fits
<1>3. hosts[my[p].host] \in Records(Len(server)) \cup {None} BY <1>2 DEF IInv, Types, HostFiles
<1>4. CASE End(p)
  <2>1. Quiet(p) BY <1>1, <1>4, QuietLock DEF End
  <2>. QED BY <1>1, <1>4, <2>1, EndKeeps DEF IInv, ReuseOnlyAfterInterruption
<1>5. CASE ~End(p)
  <2>. DEFINE rec == hosts[my[p].host]
              m == [my[p] EXCEPT !.rec = rec]
  <2>1. rec # None /\ Goto(p, "out_secrets", m) /\ UNCHANGED lock BY <1>5 DEF OutRecord, RecordOf
  <2>2. rec \in Records(Len(server)) BY <2>1, <1>3
  <2>3. m \in Locals(Len(server)) /\ m.rec = rec /\ m.host = my[p].host
    BY <1>2, <2>2, SetLocal
  <2>4. Quiet(p) BY <1>1, <2>1, QuietLock
  <2>. HIDE DEF rec, m
  <2>5. Fits("out_secrets", m, Len(server))
    BY <1>2, <2>2, <2>3 DEF Fits, WithRec, WithSec, WithNew, Saving, WithFile
  <2>. QED BY <1>1, <2>1, <2>3, <2>4, <2>5, MoveKeeps DEF Places, Refreshing, WithRec
<1>. QED BY <1>4, <1>5

LEMMA DelReadKeeps ==
  ASSUME IInv, NEW p \in Procs, DelRead(p)
  PROVE  IInv'
<1>. DEFINE rec == hosts[my[p].host]
            l == IF rec # None /\ rec.kind = "keyring" THEN "del_keyring" ELSE "del_file"
            m == [my[p] EXCEPT !.file = hosts]
<1>1. pc[p] = "del_read" /\ Goto(p, l, m) /\ UNCHANGED <<files, lock, server, interrupted, reused>>
  BY DEF DelRead, ReadFile, history, At
<1>2. /\ my[p] \in Locals(Len(server)) /\ Len(server) \in Nat /\ my[p].host \in Hosts
      /\ hosts \in HostFiles(Len(server))
  BY <1>1, Knows DEF Fits, IInv, Types
<1>3. m \in Locals(Len(server)) /\ m.host = my[p].host /\ m.file = hosts
  BY <1>2, SetLocal
<1>4. l \in {"del_keyring", "del_file"} OBVIOUS
<1>5. Quiet(p) BY <1>1, QuietLock
<1>. HIDE DEF l, m
<1>6. Fits(l, m, Len(server))
  BY <1>2, <1>3, <1>4 DEF Fits, WithRec, WithSec, WithNew, Saving, WithFile
<1>. QED BY <1>1, <1>3, <1>4, <1>5, <1>6, MoveKeeps DEF Places, Refreshing, WithFile

LEMMA DelKeyringKeeps ==
  ASSUME IInv, NEW p \in Procs, DelKeyring(p)
  PROVE  IInv'
<1>1. /\ pc[p] = "del_keyring" /\ UNCHANGED <<hosts, lock, server, interrupted, reused>>
      /\ SetCreds(p, "keyring", None) /\ Goto(p, "del_file", my[p])
  BY DEF DelKeyring, history, At, Stay
<1>2. /\ my[p] \in Locals(Len(server)) /\ my[p].host \in Hosts
      /\ my[p].file \in HostFiles(Len(server))
  BY <1>1, Knows DEF Fits, WithFile
<1>3. "del_file" \in Places \ Refreshing /\ Fits("del_file", my[p], Len(server))
  BY <1>2 DEF Places, Refreshing, Fits, WithRec, WithSec, WithNew, Saving, WithFile
<1>4. Quiet(p) BY <1>1, <1>2, QuietDrop DEF Stores
<1>. QED BY <1>1, <1>2, <1>3, <1>4, MoveKeeps

LEMMA DelFileKeeps ==
  ASSUME IInv, NEW p \in Procs, DelFile(p)
  PROVE  IInv'
<1>1. /\ pc[p] = "del_file" /\ UNCHANGED <<hosts, server, interrupted, reused>>
      /\ SetCreds(p, "file", None)
  BY DEF DelFile, history, At
<1>2. /\ my[p] \in Locals(Len(server)) /\ my[p].host \in Hosts
      /\ my[p].file \in HostFiles(Len(server))
  BY <1>1, Knows DEF Fits, WithFile
<1>3. CASE End(p)
  <2>1. Quiet(p) BY <1>1, <1>2, <1>3, QuietDrop DEF End, Stores
  <2>. QED BY <1>1, <1>3, <2>1, EndKeeps DEF IInv, ReuseOnlyAfterInterruption
<1>4. CASE Goto(p, "del_write", my[p]) /\ UNCHANGED lock
  <2>1. "del_write" \in Places \ Refreshing /\ Fits("del_write", my[p], Len(server))
    BY <1>2 DEF Places, Refreshing, Fits, WithRec, WithSec, WithNew, Saving, WithFile
  <2>2. Quiet(p) BY <1>1, <1>2, <1>4, QuietDrop DEF Stores
  <2>. QED BY <1>1, <1>2, <1>4, <2>1, <2>2, MoveKeeps
<1>. QED BY <1>3, <1>4 DEF DelFile, Stay

LEMMA DelWriteKeeps ==
  ASSUME IInv, NEW p \in Procs, DelWrite(p)
  PROVE  IInv'
<1>1. /\ pc[p] = "del_write" /\ UNCHANGED <<creds, server, interrupted, reused>>
      /\ hosts' = Written(p, None) /\ End(p)
  BY DEF DelWrite, At
<1>2. my[p].host \in Hosts /\ my[p].file \in HostFiles(Len(server))
  BY <1>1, Knows DEF Fits, WithFile
<1>3. Quiet(p) BY <1>1, <1>2, QuietWrite DEF End
<1>. QED BY <1>1, <1>3, EndKeeps DEF IInv, ReuseOnlyAfterInterruption

LEMMA LogoutKeeps ==
  ASSUME IInv, NEW p \in Procs, Logout(p)
  PROVE  IInv'
BY OutRecordKeeps, SecretsToRevokeKeeps, RevokeKeeps, DelReadKeeps, DelKeyringKeeps,
   DelFileKeeps, DelWriteKeeps DEF Logout, OutSecrets, OutRevoke

LEMMA CrashKeeps ==
  ASSUME IInv, NEW p \in Procs, Crash(p)
  PROVE  IInv'
<1>1. /\ End(p) /\ UNCHANGED <<files, server, reused>>
      /\ interrupted' = IF pc[p] = "upd_secrets" THEN interrupted \cup {my[p].new.sess} ELSE interrupted
  BY DEF Crash, At
<1>2. Quiet(p) BY <1>1, QuietLock DEF End
<1>. QED BY <1>1, <1>2, EndKeeps DEF IInv, ReuseOnlyAfterInterruption

-----------------------------------------------------------------------------
(* The invariant holds.                                                    *)

\* Each host logged in at the start has a session of its own.
LEMMA StartedApart ==
  /\ Cardinality(LoggedIn) \in Nat
  /\ Started \in [LoggedIn -> 1..Cardinality(LoggedIn)]
  /\ \A g, h \in LoggedIn : Started[g] = Started[h] => g = h
<1>. DEFINE n == Cardinality(LoggedIn)
<1>1. IsFiniteSet(LoggedIn) BY FS_Subset, LoginAssumption
<1>2. n \in Nat /\ ExistsBijection(1..n, LoggedIn) BY <1>1, FS_CardinalityType
<1>3. PICK b \in [1..n -> LoggedIn] : \A h \in LoggedIn : \E i \in 1..n : b[i] = h
  BY <1>2 DEF ExistsBijection, Bijection, Surjection
<1>. DEFINE f == [h \in LoggedIn |-> CHOOSE i \in 1..n : b[i] = h]
<1>4. \A h \in LoggedIn : f[h] \in 1..n /\ b[f[h]] = h BY <1>3
<1>5. f \in [LoggedIn -> 1..n] BY <1>4
<1>6. \A g, h \in LoggedIn : f[g] = f[h] => g = h BY <1>4
<1>. HIDE DEF f
<1>7. \E x \in [LoggedIn -> 1..n] : \A g, h \in LoggedIn : x[g] = x[h] => g = h BY <1>5, <1>6
<1>. QED BY <1>2, <1>7 DEF Started

LEMMA InitHolds ==
  ASSUME Init
  PROVE  IInv
<1>. DEFINE n == Cardinality(LoggedIn)
<1>1. /\ n \in Nat /\ Started \in [LoggedIn -> 1..n]
      /\ \A g, h \in LoggedIn : Started[g] = Started[h] => g = h
  BY StartedApart
<1>2. server = [s \in 1..n |-> [gen |-> 0, revoked |-> FALSE]] BY DEF Init
<1>. HIDE DEF n
<1>3. server \in Seq(Sessions) /\ Len(server) = n
  <2>1. \A s \in 1..n : server[s] \in Sessions BY <1>2 DEF Sessions
  <2>2. server \in [1..n -> Sessions] BY <1>2, <2>1
  <2>. QED BY <1>1, <2>2, LenProperties
<1>4. pc = [p \in Procs |-> "idle"] /\ my = [p \in Procs |-> Blank] BY DEF Init
<1>5. Types
  <2>1. hosts \in HostFiles(n) BY <1>1 DEF Init, HostFiles, Records, Record, Stores
  <2>2. creds \in [Stores -> [Hosts -> Pairs(n) \cup {None}]] BY <1>1 DEF Init, Pairs, Stores
  <2>3. Blank \in Locals(n) /\ Fits("idle", Blank, n)
    BY DEF Blank, Locals, Fits, WithRec, WithSec, WithNew, Saving, WithFile
  <2>4. /\ pc \in [Procs -> Places] /\ my \in [Procs -> Locals(n)]
        /\ \A p \in Procs : Fits(pc[p], my[p], n)
    BY <1>4, <2>3 DEF Places
  <2>5. lock \in [Hosts -> Procs \cup {None}] BY DEF Init
  <2>. QED BY <1>3, <2>1, <2>2, <2>4, <2>5 DEF Types
<1>6. Locked BY <1>4 DEF Locked, Refreshing
<1>7. \A k \in Stores, h \in Hosts : creds[k][h] # None =>
        k = "file" /\ h \in LoggedIn /\ creds[k][h].sess = Started[h] /\ creds[k][h].gen = 0
  <2>. SUFFICES ASSUME NEW k \in Stores, NEW h \in Hosts, creds[k][h] # None
       PROVE  k = "file" /\ h \in LoggedIn /\ creds[k][h].sess = Started[h] /\ creds[k][h].gen = 0
    OBVIOUS
  <2>1. k = "file" /\ h \in LoggedIn /\ creds[k][h] = [sess |-> Started[h], gen |-> 0]
    BY DEF Init, Stores
  <2>2. creds[k][h].sess = Started[h] BY ONLY <2>1
  <2>3. creds[k][h].gen = 0 BY ONLY <2>1
  <2>. QED BY <2>1, <2>2, <2>3
<1>8. OnePlace
  <2>1. ASSUME NEW k \in Stores, NEW l \in Stores, NEW g \in Hosts, NEW h \in Hosts,
               creds[k][g] # None, creds[l][h] # None, creds[k][g].sess = creds[l][h].sess
        PROVE  k = l /\ g = h
    <3>1. k = "file" /\ g \in LoggedIn /\ creds[k][g].sess = Started[g] BY <2>1, <1>7
    <3>2. l = "file" /\ h \in LoggedIn /\ creds[l][h].sess = Started[h] BY <2>1, <1>7
    <3>3. Started[g] = Started[h] BY ONLY <2>1, <3>1, <3>2
    <3>. QED BY ONLY <1>1, <3>1, <3>2, <3>3
  <2>2. \A q \in Procs : ~Carrying(q) BY <1>4 DEF Carrying
  <2>. QED BY <2>1, <2>2 DEF OnePlace
<1>9. Current
  <2>1. ASSUME NEW k \in Stores, NEW h \in Hosts, creds[k][h] # None
        PROVE  creds[k][h].gen = server[creds[k][h].sess].gen
    <3>1. creds[k][h].gen = 0 /\ h \in LoggedIn /\ creds[k][h].sess = Started[h] BY <2>1, <1>7
    <3>2. creds[k][h].sess \in 1..n BY ONLY <3>1, <1>1
    <3>. QED BY <3>1, <3>2, <1>2
  <2>2. DOMAIN creds = Stores BY DEF Init, Stores
  <2>3. StoredIsCurrent BY <2>1, <2>2 DEF StoredIsCurrent
  <2>. QED BY <2>3, <1>4 DEF Current
<1>10. Private BY <1>4 DEF Private, Unsaved
<1>11. ReuseOnlyAfterInterruption BY DEF Init, ReuseOnlyAfterInterruption
<1>. QED BY <1>5, <1>6, <1>8, <1>9, <1>10, <1>11 DEF IInv

LEMMA NextKeeps ==
  ASSUME IInv, [Next]_vars
  PROVE  IInv'
<1>1. CASE UNCHANGED vars
  BY <1>1 DEF vars, IInv, Types, Locked, OnePlace, Carrying, Carried, Current, StoredIsCurrent,
              Storing, At, Private, Unsaved, ReuseOnlyAfterInterruption
<1>2. CASE Age
  BY <1>2 DEF Age, files, history, IInv, Types, Locked, OnePlace, Carrying, Carried, Current,
              StoredIsCurrent, Storing, At, Private, Unsaved, ReuseOnlyAfterInterruption
<1>3. ASSUME NEW p \in Procs, Step(p) PROVE IInv'
  BY <1>3, UseKeeps, LoginKeeps, LogoutKeeps DEF Step
<1>4. ASSUME NEW p \in Procs, Crash(p) PROVE IInv' BY <1>4, CrashKeeps
<1>5. ASSUME NEW p \in Procs, NEW c \in Commands, NEW h \in Hosts, Begin(p, c, h) PROVE IInv'
  BY <1>5, BeginKeeps
<1>. QED BY <1>1, <1>2, <1>3, <1>4, <1>5 DEF Next

\* The inductive invariant holds.
THEOREM Invariant == Spec => []IInv
<1>1. Init => IInv BY InitHolds
<1>2. IInv /\ [Next]_vars => IInv' BY NextKeeps
<1>. QED BY <1>1, <1>2, PTL DEF Spec

\* No interleaving of refreshes, logins, logouts and crashes spends a refresh token twice:
\* the host sees a spent one again only for a session whose rotation was cut off
\* (refresh_locked).
THEOREM SpentOnce == Spec => []ReuseOnlyAfterInterruption
<1>1. IInv => ReuseOnlyAfterInterruption BY DEF IInv
<1>. QED BY <1>1, Invariant, PTL

\* What a store holds can be refreshed: it is the pair its session accepts, except while a
\* rotation is being stored and after one was cut off (Store::update, Store::save).
THEOREM Refreshable == Spec => []StoredIsCurrent
<1>1. IInv => StoredIsCurrent BY DEF IInv, Current
<1>. QED BY <1>1, Invariant, PTL

-----------------------------------------------------------------------------
(* Logins that are only used.                                              *)

\* A step of a process that changes no file.
LEMMA UsedMove ==
  ASSUME IInv, Used, NEW p \in Procs, NEW l, NEW m, Goto(p, l, m), InUse(l, m),
         UNCHANGED <<hosts, creds>>
  PROVE  Used'
<1>1. \A q \in Procs : InUse(pc'[q], my'[q])
  <2>1. pc' = [pc EXCEPT ![p] = l] /\ my' = [my EXCEPT ![p] = m] BY DEF Goto
  <2>2. pc'[p] = l /\ my'[p] = m /\ \A q \in Procs : q # p => pc'[q] = pc[q] /\ my'[q] = my[q]
    BY <2>1 DEF IInv, Types
  <2>. QED BY <2>2 DEF Used
<1>2. \A q \in Procs : InUse(pc[q], my[q])' BY <1>1 DEF InUse, Kept
<1>3. \A h \in LoggedIn : Kept(h, hosts[h])' BY DEF Used, Kept
<1>. QED BY <1>2, <1>3 DEF Used

LEMMA UsedEnd ==
  ASSUME IInv, Used, NEW p \in Procs, End(p), UNCHANGED <<hosts, creds>>
  PROVE  Used'
<1>1. InUse("idle", Blank) BY DEF InUse, UsePlaces, WithRec
<1>. QED BY <1>1, UsedMove DEF End

\* The stored tokens of a host with a login.
LEMMA UsedStored ==
  ASSUME IInv, Used, NEW h \in LoggedIn
  PROVE  /\ h \in Hosts /\ creds["file"][h] \in Pairs(Len(server)) /\ creds["file"][h].gen \in Nat
         /\ creds["file"][h] # None
<1>1. h \in Hosts BY LoginAssumption
<1>2. creds["file"][h] \in Pairs(Len(server)) BY <1>1 DEF IInv, Types, Used, Stores
<1>. QED BY <1>1, <1>2 DEF Pairs, Used

\* A pair or a record is something.
LEMMA Something ==
  ASSUME IInv
  PROVE  None \notin Pairs(Len(server)) /\ None \notin Records(Len(server))
<1>1. Len(server) \in Nat BY LenProperties DEF IInv, Types
<1>2. 1..Len(server) \subseteq Nat BY <1>1
<1>3. Pairs(Len(server)) \subseteq [sess : Nat, gen : Nat] BY <1>2 DEF Pairs
<1>4. Records(Len(server)) \subseteq [sess : Nat, gen : Nat, kind : {"keyring", "file"}]
  BY <1>2 DEF Records, Stores
<1>. QED BY <1>3, <1>4, LoginAssumption

LEMMA UsedReadRecord ==
  ASSUME IInv, Used, NEW p \in Procs, ReadRecord(p) \/ LockedRecord(p)
  PROVE  Used'
<1>1. pc[p] \in {"record", "locked_record"} /\ UNCHANGED <<hosts, creds>>
  BY DEF ReadRecord, LockedRecord, At, files
<1>2. CASE End(p) BY <1>1, <1>2, UsedEnd
<1>3. CASE ~End(p)
  <2>. DEFINE rec == hosts[my[p].host]
              m == [my[p] EXCEPT !.rec = rec]
  <2>1. PICK l \in {"secrets", "lock", "locked_secrets"} : rec # None /\ Goto(p, l, m)
    BY <1>3 DEF ReadRecord, LockedRecord, RecordOf
  <2>2. my[p] \in Locals(Len(server)) /\ Len(server) \in Nat /\ my[p].host \in Hosts
    BY <1>1, Knows DEF Fits
  <2>3. rec \in Records(Len(server)) BY <2>1, <2>2 DEF IInv, Types, HostFiles
  <2>4. m.rec = rec /\ m.host = my[p].host BY <2>2, <2>3, SetLocal
  <2>5. my[p].host \in LoggedIn /\ rec.kind = "file" BY <2>1, <2>2 DEF Used, Kept
  <2>. HIDE DEF rec, m
  <2>6. InUse(l, m) BY <2>4, <2>5 DEF InUse, UsePlaces
  <2>. QED BY <1>1, <2>1, <2>6, UsedMove
<1>. QED BY <1>2, <1>3

LEMMA UsedReadSecrets ==
  ASSUME IInv, Used, NEW p \in Procs, ReadSecrets(p) \/ LockedSecrets(p)
  PROVE  Used'
<1>1. pc[p] \in {"secrets", "locked_secrets"} /\ UNCHANGED <<hosts, creds>>
  BY DEF ReadSecrets, LockedSecrets, At, files
<1>2. CASE End(p) BY <1>1, <1>2, UsedEnd
<1>3. CASE ~End(p)
  <2>. DEFINE sec == creds["file"][my[p].host]
              m == [my[p] EXCEPT !.sec = sec]
  <2>1. /\ my[p] \in Locals(Len(server)) /\ Len(server) \in Nat
        /\ my[p].host \in LoggedIn /\ my[p].rec.kind = "file"
    <3>1. InUse(pc[p], my[p]) /\ pc[p] \in WithRec BY <1>1 DEF Used, WithRec
    <3>. QED BY <3>1, Knows DEF InUse
  <2>2. PICK l \in {"request", "refresh"} : Goto(p, l, m)
    BY <1>3, <2>1 DEF ReadSecrets, LockedSecrets, SecretsOf
  <2>3. sec \in Pairs(Len(server)) BY <2>1, UsedStored
  <2>4. m.sec = sec /\ m.host = my[p].host /\ m.rec = my[p].rec BY <2>1, <2>3, SetLocal
  <2>5. m.sec = creds["file"][m.host] BY <2>4
  <2>. HIDE DEF sec, m
  <2>6. InUse(l, m) BY <2>1, <2>4, <2>5 DEF InUse, UsePlaces
  <2>. QED BY <1>1, <2>2, <2>6, UsedMove
<1>. QED BY <1>2, <1>3

LEMMA UsedRequest ==
  ASSUME IInv, Used, NEW p \in Procs, Request(p) \/ TakeLock(p)
  PROVE  Used'
<1>1. UNCHANGED <<hosts, creds>> BY DEF Request, TakeLock, files
<1>2. CASE End(p) BY <1>1, <1>2, UsedEnd
<1>3. CASE ~End(p)
  <2>1. \E m : \E l \in {"lock", "locked_record"} : Goto(p, l, m)
    BY <1>3 DEF Request, TakeLock, Stay
  <2>. PICK m : \E l \in {"lock", "locked_record"} : Goto(p, l, m) BY <2>1
  <2>. PICK l \in {"lock", "locked_record"} : Goto(p, l, m) OBVIOUS
  <2>2. InUse(l, m) BY DEF InUse, UsePlaces, WithRec
  <2>. QED BY <1>1, <2>2, UsedMove
<1>. QED BY <1>2, <1>3

LEMMA UsedRefresh ==
  ASSUME IInv, Used, NEW p \in Procs, Refresh(p)
  PROVE  Used'
<1>1. pc[p] = "refresh" /\ UNCHANGED <<hosts, creds>> BY DEF Refresh, At, files
<1>2. CASE End(p) BY <1>1, <1>2, UsedEnd
<1>3. CASE ~End(p)
  <2>. DEFINE new == [sess |-> my[p].sec.sess, gen |-> my[p].sec.gen + 1]
              m == [my[p] EXCEPT !.new = new]
  <2>1. Goto(p, "upd_secrets", m) BY <1>3 DEF Refresh
  <2>2. /\ my[p] \in Locals(Len(server)) /\ Len(server) \in Nat /\ my[p].sec \in Pairs(Len(server))
    BY <1>1, Knows DEF Fits, WithSec
  <2>3. /\ my[p].host \in LoggedIn /\ my[p].rec.kind = "file"
        /\ my[p].sec = creds["file"][my[p].host]
    <3>1. InUse(pc[p], my[p]) BY DEF Used
    <3>. QED BY <1>1, <3>1 DEF InUse, WithRec
  <2>4. new \in Pairs(Len(server)) BY <2>2 DEF Pairs
  <2>5. m.new = new /\ m.host = my[p].host /\ m.rec = my[p].rec BY <2>2, <2>4, SetLocal
  <2>6. m.new.sess = Started[m.host] /\ m.new.gen = creds["file"][m.host].gen + 1
    <3>1. m.new.sess = my[p].sec.sess /\ m.new.gen = my[p].sec.gen + 1 BY <2>5
    <3>2. my[p].sec.sess = Started[my[p].host] BY <2>3 DEF Used
    <3>. HIDE DEF new, m
    <3>. QED BY <2>3, <2>5, <3>1, <3>2
  <2>. HIDE DEF new, m
  <2>7. InUse("upd_secrets", m) BY <2>3, <2>5, <2>6 DEF InUse, UsePlaces
  <2>. QED BY <1>1, <2>1, <2>7, UsedMove
<1>. QED BY <1>2, <1>3

\* The lock keeps other refreshes of the host away while its tokens are replaced, and a
\* copy of the file in hand only falls further behind.
LEMMA UsedUpdSecrets ==
  ASSUME IInv, Used, NEW p \in Procs, UpdSecrets(p)
  PROVE  Used'
<1>1. pc[p] = "upd_secrets" /\ UNCHANGED hosts BY DEF UpdSecrets, At
<1>2. CASE End(p) /\ UNCHANGED creds BY <1>1, <1>2, UsedEnd
<1>3. CASE SetCreds(p, my[p].rec.kind, my[p].new) /\ Stay(p, "upd_read")
  <2>. DEFINE h0 == my[p].host
              new == my[p].new
  <2>1. /\ h0 \in LoggedIn /\ my[p].rec.kind = "file"
        /\ new.sess = Started[h0] /\ new.gen = creds["file"][h0].gen + 1
    <3>1. InUse(pc[p], my[p]) BY DEF Used
    <3>. QED BY <1>1, <3>1 DEF InUse, WithRec
  <2>2. new \in Pairs(Len(server)) /\ new # None /\ h0 \in Hosts
    BY <1>1, <2>1, Knows, Something, LoginAssumption DEF Fits, WithNew
  <2>3. /\ creds'["file"][h0] = new
        /\ \A h \in Hosts : h # h0 => creds'["file"][h] = creds["file"][h]
    BY <1>3, <2>1, <2>2 DEF SetCreds, IInv, Types, Stores
  <2>4. /\ pc'[p] = "upd_read" /\ my'[p] = my[p]
        /\ \A q \in Procs : q # p => pc'[q] = pc[q] /\ my'[q] = my[q]
    BY <1>3 DEF Stay, Goto, IInv, Types
  <2>. HIDE DEF h0, new
  <2>5. \A h \in LoggedIn : /\ creds["file"][h].gen \in Nat
                            /\ creds["file"][h].gen <= creds'["file"][h].gen
    <3>1. SUFFICES ASSUME NEW h \in LoggedIn
                   PROVE  creds["file"][h].gen \in Nat /\ creds["file"][h].gen <= creds'["file"][h].gen
      OBVIOUS
    <3>2. h \in Hosts /\ creds["file"][h].gen \in Nat BY UsedStored
    <3>3. CASE h = h0 BY <2>1, <2>3, <3>2, <3>3
    <3>4. CASE h # h0 BY <2>3, <3>2, <3>4
    <3>. QED BY <3>2, <3>3, <3>4
  <2>6. ASSUME NEW h \in LoggedIn, NEW rec \in Records(Len(server)) \cup {None}, Kept(h, rec)
        PROVE  rec # None /\ rec.sess = Started[h] /\ rec.kind = "file" /\ rec.gen <= creds'["file"][h].gen
    <3>1. rec # None /\ rec.sess = Started[h] /\ rec.kind = "file" /\ rec.gen <= creds["file"][h].gen
      BY <2>6 DEF Kept
    <3>2. rec.gen \in Nat BY <2>6, <3>1 DEF Records
    <3>3. creds'["file"][h].gen \in Nat
      <4>1. CASE h = h0 BY <4>1, <2>2, <2>3 DEF Pairs
      <4>2. CASE h # h0 BY <4>2, <2>3, <2>5, LoginAssumption
      <4>. QED BY <4>1, <4>2
    <3>. QED BY <2>5, <3>1, <3>2, <3>3
  <2>7. \A h \in LoggedIn : hosts[h] \in Records(Len(server)) \cup {None} /\ Kept(h, hosts[h])
    BY LoginAssumption DEF Used, IInv, Types, HostFiles
  <2>8. ASSUME NEW h \in LoggedIn
        PROVE  /\ creds'["file"][h] # None /\ creds'["file"][h].sess = Started[h]
               /\ Kept(h, hosts[h])'
    <3>1. Kept(h, hosts[h])' BY <1>1, <2>6, <2>7 DEF Kept
    <3>2. creds["file"][h] # None /\ creds["file"][h].sess = Started[h] /\ h \in Hosts
      BY LoginAssumption DEF Used
    <3>3. creds'["file"][h] # None /\ creds'["file"][h].sess = Started[h]
      BY <2>1, <2>2, <2>3, <3>2
    <3>. QED BY <3>1, <3>3
  <2>9. ASSUME NEW q \in Procs PROVE InUse(pc[q], my[q])'
    <3>1. CASE q = p
      <4>1. my[p].new = creds'["file"][my[p].host] BY <2>3 DEF h0, new
      <4>2. my[p].host \in LoggedIn /\ my[p].rec.kind = "file" BY <2>1 DEF h0
      <4>. QED BY <2>4, <3>1, <4>1, <4>2 DEF InUse, UsePlaces
    <3>2. CASE q # p
      <4>1. pc'[q] = pc[q] /\ my'[q] = my[q] /\ InUse(pc[q], my[q]) BY <2>4, <3>2 DEF Used
      <4>2. pc[q] \in {"refresh", "upd_secrets", "upd_read", "upd_write"} =>
              creds'["file"][my[q].host] = creds["file"][my[q].host]
        <5>1. SUFFICES ASSUME pc[q] \in {"refresh", "upd_secrets", "upd_read", "upd_write"}
                       PROVE  creds'["file"][my[q].host] = creds["file"][my[q].host]
          OBVIOUS
        <5>2. lock[my[q].host] = q /\ lock[h0] = p BY <1>1, <5>1 DEF IInv, Locked, Refreshing, h0
        <5>3. my[q].host \in Hosts BY <5>1, Knows DEF Fits
        <5>. QED BY <3>2, <5>2, <5>3, <2>3
      <4>3. pc[q] = "upd_write" => my[q].file \in HostFiles(Len(server))
        BY Knows DEF Fits, WithFile
      <4>4. pc[q] = "upd_write" => \A h \in LoggedIn : Kept(h, my[q].file[h])'
        <5>1. SUFFICES ASSUME pc[q] = "upd_write", NEW h \in LoggedIn
                       PROVE  Kept(h, my[q].file[h])'
          OBVIOUS
        <5>2. Kept(h, my[q].file[h]) BY <4>1, <5>1 DEF InUse
        <5>3. my[q].file[h] \in Records(Len(server)) \cup {None}
          BY <4>3, <5>1, LoginAssumption DEF HostFiles
        <5>. QED BY <4>1, <5>2, <5>3, <2>6 DEF Kept
      <4>. QED BY <4>1, <4>2, <4>4 DEF InUse
    <3>. QED BY <3>1, <3>2
  <2>. QED BY <1>1, <2>8, <2>9 DEF Used
<1>. QED BY <1>2, <1>3 DEF UpdSecrets

LEMMA UsedUpdRead ==
  ASSUME IInv, Used, NEW p \in Procs, UpdRead(p)
  PROVE  Used'
<1>. DEFINE m == [my[p] EXCEPT !.file = hosts]
<1>1. pc[p] = "upd_read" /\ UNCHANGED <<hosts, creds>> /\ Goto(p, "upd_write", m)
  BY DEF UpdRead, ReadFile, At, files
<1>2. my[p] \in Locals(Len(server)) /\ Len(server) \in Nat /\ hosts \in HostFiles(Len(server))
  BY Knows DEF IInv, Types
<1>3. m.file = hosts /\ m.host = my[p].host /\ m.rec = my[p].rec /\ m.new = my[p].new
  BY <1>2, SetLocal
<1>4. /\ my[p].host \in LoggedIn /\ my[p].rec.kind = "file"
      /\ my[p].new = creds["file"][my[p].host]
  <2>1. InUse(pc[p], my[p]) BY DEF Used
  <2>. QED BY <1>1, <2>1 DEF InUse, WithRec
<1>. HIDE DEF m
<1>5. InUse("upd_write", m) BY <1>3, <1>4 DEF InUse, UsePlaces, Used
<1>. QED BY <1>1, <1>5, UsedMove

\* The record written is that of the stored tokens; the others are as they were read.
LEMMA UsedUpdWrite ==
  ASSUME IInv, Used, NEW p \in Procs, UpdWrite(p)
  PROVE  Used'
<1>. DEFINE h0 == my[p].host
            rec == Record(my[p].new, my[p].rec.kind)
            f == my[p].file
<1>1. /\ pc[p] = "upd_write" /\ UNCHANGED creds /\ hosts' = [f EXCEPT ![h0] = rec]
      /\ \E m : Goto(p, "request", m)
  BY DEF UpdWrite, At, Written
<1>2. /\ h0 \in LoggedIn /\ my[p].rec.kind = "file" /\ my[p].new = creds["file"][h0]
      /\ \A h \in LoggedIn : Kept(h, f[h])
      /\ \A h \in Hosts \ LoggedIn : f[h] = None
  <2>1. InUse(pc[p], my[p]) BY DEF Used
  <2>. QED BY <1>1, <2>1 DEF InUse, WithRec
<1>3. f \in HostFiles(Len(server)) /\ h0 \in Hosts
  BY <1>1, Knows DEF Fits, WithFile
<1>4. /\ hosts'[h0] = rec /\ \A h \in Hosts : h # h0 => hosts'[h] = f[h]
  BY <1>1, <1>3 DEF HostFiles
<1>5. Kept(h0, rec)
  <2>1. creds["file"][h0] \in Pairs(Len(server)) /\ creds["file"][h0].gen \in Nat
    BY <1>2, UsedStored
  <2>2. creds["file"][h0].sess = Started[h0] BY <1>2 DEF Used
  <2>3. rec.sess = creds["file"][h0].sess /\ rec.gen = creds["file"][h0].gen /\ rec.kind = "file"
    BY <1>2 DEF Record
  <2>4. rec \in Records(Len(server)) BY <1>2, <2>1 DEF Record, Records, Pairs, Stores
  <2>. HIDE DEF rec
  <2>. QED BY <2>1, <2>2, <2>3, <2>4, Something DEF Kept
<1>. HIDE DEF h0, rec, f
<1>6. \A h \in LoggedIn : Kept(h, hosts[h])'
  <2>. SUFFICES ASSUME NEW h \in LoggedIn PROVE Kept(h, hosts[h])' OBVIOUS
  <2>1. Kept(h, hosts'[h]) BY <1>2, <1>4, <1>5, LoginAssumption
  <2>. QED BY <1>1, <2>1 DEF Kept
<1>7. \A h \in Hosts \ LoggedIn : hosts'[h] = None BY <1>2, <1>4
<1>8. ASSUME NEW q \in Procs PROVE InUse(pc[q], my[q])'
  <2>1. CASE q = p
    <3>1. pc'[q] = "request" BY <1>1, <2>1 DEF Goto, IInv, Types
    <3>. QED BY <3>1 DEF InUse, UsePlaces, WithRec
  <2>2. CASE q # p
    <3>1. pc'[q] = pc[q] /\ my'[q] = my[q] BY <1>1, <2>2 DEF Goto, IInv, Types
    <3>2. InUse(pc[q], my[q]) BY DEF Used
    <3>. QED BY <1>1, <3>1, <3>2 DEF InUse, Kept
  <2>. QED BY <2>1, <2>2
<1>. QED BY <1>1, <1>6, <1>7, <1>8 DEF Used

LEMMA UsedInit ==
  ASSUME Init
  PROVE  Used
<1>1. \A p \in Procs : InUse(pc[p], my[p]) BY DEF Init, InUse, UsePlaces, WithRec
<1>2. \A h \in Hosts \ LoggedIn : hosts[h] = None BY DEF Init
<1>3. ASSUME NEW h \in LoggedIn
      PROVE  /\ creds["file"][h] # None /\ creds["file"][h].sess = Started[h]
             /\ Kept(h, hosts[h])
  <2>. DEFINE t == [sess |-> Started[h], gen |-> 0]
  <2>1. h \in Hosts BY LoginAssumption
  <2>2. creds["file"][h] = t /\ hosts[h] = Record(t, "file") BY <2>1 DEF Init
  <2>3. t.sess = Started[h] /\ t.gen = 0 OBVIOUS
  <2>4. IInv BY InitHolds
  <2>5. t \in Pairs(Len(server)) \/ t = None BY <2>1, <2>2, <2>4 DEF IInv, Types, Stores
  <2>6. Started[h] \in Nat BY StartedApart
  <2>7. t \in [sess : Nat, gen : Nat] BY <2>6
  <2>8. Record(t, "file") \in [sess : Nat, gen : Nat, kind : {"keyring", "file"}]
    BY <2>6, <2>3 DEF Record
  <2>. HIDE DEF t
  <2>9. t # None /\ Record(t, "file") # None BY <2>7, <2>8, LoginAssumption
  <2>10. Record(t, "file").sess = t.sess /\ Record(t, "file").gen = t.gen /\ Record(t, "file").kind = "file"
    BY DEF Record
  <2>. QED BY <2>2, <2>3, <2>9, <2>10 DEF Kept
<1>. QED BY <1>1, <1>2, <1>3 DEF Used

LEMMA UsedNext ==
  ASSUME Commands = {"use"}, IInv, Used, [Next]_vars
  PROVE  Used'
<1>1. CASE UNCHANGED vars BY <1>1 DEF vars, Used, InUse, Kept
<1>2. CASE Age BY <1>2 DEF Age, files, Used, InUse, Kept
<1>3. ASSUME NEW p \in Procs, Step(p) PROVE Used'
  <2>1. pc[p] \in UsePlaces BY DEF Used, InUse
  <2>2. ~Login(p)
    BY <2>1 DEF UsePlaces, Login, Grant, PrevRecord, PrevSecrets, PrevRevoke, SecretsToRevoke,
                Revoke, Save, SaveRead, ReadFile, SaveStore, SaveDrop, SaveWrite, At
  <2>3. ~Logout(p)
    BY <2>1 DEF UsePlaces, Logout, OutRecord, OutSecrets, OutRevoke, SecretsToRevoke, Revoke,
                DelRead, ReadFile, DelKeyring, DelFile, DelWrite, At
  <2>4. Use(p) BY <1>3, <2>2, <2>3 DEF Step
  <2>. QED BY <2>4, UsedReadRecord, UsedReadSecrets, UsedRequest, UsedRefresh, UsedUpdSecrets,
              UsedUpdRead, UsedUpdWrite DEF Use
<1>4. ASSUME NEW p \in Procs, Crash(p) PROVE Used'
  BY <1>4, UsedEnd DEF Crash, files
<1>5. ASSUME NEW p \in Procs, NEW c \in Commands, NEW h \in Hosts, Begin(p, c, h) PROVE Used'
  <2>1. \E m : Goto(p, "record", m) BY <1>5 DEF Begin
  <2>2. \A m : InUse("record", m) BY DEF InUse, UsePlaces, WithRec
  <2>. QED BY <1>5, <2>1, <2>2, UsedMove DEF Begin, files
<1>. QED BY <1>1, <1>2, <1>3, <1>4, <1>5 DEF Next

\* When logins are only used, no interleaving, lost answer or crash loses one: its record
\* and its tokens stay, and the record is never ahead of the tokens (credential,
\* Store::update).
THEOREM LoginsKept ==
  ASSUME Commands = {"use"}
  PROVE  Spec => []UseKeepsLogins
<1>1. Init => Used BY UsedInit
<1>2. IInv /\ Used /\ [Next]_vars => Used' BY UsedNext
<1>3. Used => UseKeepsLogins BY DEF Used, Kept, UseKeepsLogins
<1>. QED BY <1>1, <1>2, <1>3, Invariant, PTL DEF Spec

=============================================================================
