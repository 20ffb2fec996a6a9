----------------------------- MODULE LoginStore -----------------------------
(***************************************************************************)
(* The saved logins of the CLI: native/crates/simforge-cli/src/auth and    *)
(* commands/login.rs.  Several CLI processes of one user share hosts.json  *)
(* (one file for all hosts), the token stores (one entry per host) and one *)
(* lock file per host; the host rotates the refresh token on every use.    *)
(*                                                                         *)
(* A step of a process is one file or keychain access, one lock operation  *)
(* or one request to the host; between two steps another process may run,  *)
(* or this one may die.                                                    *)
(*                                                                         *)
(* Abstractions.  A token pair is a session and a generation.  An expiry   *)
(* time is kept as the pair it was recorded for: that pair is "aged" once  *)
(* less than REFRESH_MARGIN_SECS are left of it.  Refresh tokens do not    *)
(* expire, and SIMFORGE_TOKEN, the origin check and discovery are left out.*)
(***************************************************************************)
EXTENDS Integers, Sequences, FiniteSets

\* A definition whose comment starts with "Fault:" is not part of the model:
\* PROJECT.json names it as the mutated form of the definition that follows it.

CONSTANTS
  Procs,        \* processes
  Hosts,        \* SimForge hosts
  None,         \* Option::None
  LoggedIn,     \* the hosts with a saved login at the start, in the file store
  Commands,     \* the commands that are run: "use", "login", "logout"
  Kinds,        \* the stores a login may choose: "keyring", "file"
  Lossy,        \* requests and answers may be lost, a store may refuse a write
  MaxCommands,  \* bound: commands in all
  MaxCrashes,   \* bound: processes killed
  MaxSessions,  \* bound: sessions granted by the host
  MaxAged       \* bound: token pairs that age

ASSUME LoginAssumption ==
  /\ None \notin Procs
  /\ None \notin [sess : Nat, gen : Nat]
  /\ None \notin [sess : Nat, gen : Nat, kind : {"keyring", "file"}]
  /\ IsFiniteSet(Hosts) /\ LoggedIn \subseteq Hosts
  /\ Commands \subseteq {"use", "login", "logout"}
  /\ Kinds \subseteq {"keyring", "file"}
  /\ Lossy \in BOOLEAN
  /\ MaxCommands \in Nat /\ MaxCrashes \in Nat /\ MaxSessions \in Nat /\ MaxAged \in Nat

VARIABLES
  hosts,       \* hosts.json: the record of each host, None if absent
  creds,       \* creds[k][h]: the secrets store k holds for h, None if absent
  lock,        \* lock[h]: the process that holds h's lock file
  server,      \* the host's sessions: the generation it accepts, revoked or not
  aged,        \* the token pairs about to expire
  pc, my,      \* each process: where it is, and its local variables
  commands, crashes,  \* spent against the bounds
  interrupted, \* history: sessions whose rotation was not stored
  reused,      \* history: sessions the host revoked because a token was reused
  promise      \* history: per host, the session the last login left, 0 a logout

files == <<hosts, creds>>
history == <<commands, crashes, interrupted, reused, promise>>
vars == <<hosts, creds, lock, server, aged, pc, my, commands, crashes,
          interrupted, reused, promise>>

Record(new, kind) == [sess |-> new.sess, gen |-> new.gen, kind |-> kind]
Pair(x) == [sess |-> x.sess, gen |-> x.gen]

\* The local variables of a process between commands.
Blank == [host |-> None, rec |-> None, sec |-> None, rejected |-> None,
          new |-> None, kind |-> None, file |-> None]

-----------------------------------------------------------------------------
(* Moves of one process.                                                   *)

At(p, l) == pc[p] = l
Goto(p, l, m) == pc' = [pc EXCEPT ![p] = l] /\ my' = [my EXCEPT ![p] = m]
Stay(p, l) == Goto(p, l, my[p])
Released(p) == [h \in Hosts |-> IF lock[h] = p THEN None ELSE lock[h]]

\* Fault: a lock that outlives the process that took it.
EndLocked(p) == Goto(p, "idle", Blank) /\ UNCHANGED lock

\* The command returns or fails.  Dropping the File releases its lock, and so
\* does the death of the process.
End(p) == Goto(p, "idle", Blank) /\ lock' = Released(p)

\* A saved record, and the tokens of the store it names.
RecordOf(p) == hosts[my[p].host]
SecretsOf(p, rec) == creds[rec.kind][my[p].host]

\* now + REFRESH_MARGIN_SECS < record.access_token_expires_at
StillValid(rec) == Pair(rec) \notin aged

SetCreds(p, kind, value) == creds' = [creds EXCEPT ![kind][my[p].host] = value]

Begin(p, c, h) ==
  /\ At(p, "idle")
  /\ commands < MaxCommands
  /\ commands' = commands + 1
  /\ Goto(p, CASE c = "use" -> "record" [] c = "login" -> "grant" [] c = "logout" -> "out_record",
          [Blank EXCEPT !.host = h])
  /\ UNCHANGED <<files, lock, server, aged, crashes, interrupted, reused, promise>>

-----------------------------------------------------------------------------
(* A command that uses the login: credential, then one request with the    *)
(* token, and refresh_after_rejection with one retry if it is rejected.    *)

ReadRecord(p) ==
  /\ At(p, "record")
  /\ LET rec == RecordOf(p)
     IN  IF rec = None THEN End(p)
         ELSE /\ Goto(p, IF StillValid(rec) THEN "secrets" ELSE "lock", [my[p] EXCEPT !.rec = rec])
              /\ UNCHANGED lock
  /\ UNCHANGED <<files, server, aged, history>>

ReadSecrets(p) ==
  /\ At(p, "secrets")
  /\ LET sec == SecretsOf(p, my[p].rec)
     IN  IF sec = None THEN End(p)
         ELSE Goto(p, "request", [my[p] EXCEPT !.sec = sec]) /\ UNCHANGED lock
  /\ UNCHANGED <<files, server, aged, history>>

\* The host accepts the access token of the current pair, refuses a revoked
\* session's, and may do either with one that is aged or superseded.
MayAccept(sec) == ~server[sec.sess].revoked
MayReject(sec) ==
  server[sec.sess].revoked \/ sec.gen # server[sec.sess].gen \/ Pair(sec) \in aged

Request(p) ==
  /\ At(p, "request")
  /\ \/ MayAccept(my[p].sec) /\ End(p)
     \/ MayReject(my[p].sec) /\ my[p].rejected # None /\ End(p)  \* a second 401 stands
     \/ /\ MayReject(my[p].sec) /\ my[p].rejected = None
        /\ Goto(p, "lock", [my[p] EXCEPT !.rejected = my[p].sec])
        /\ UNCHANGED lock
  /\ UNCHANGED <<files, server, aged, history>>

\* Fault: the lock does not exclude.
TakeLockShared(p) ==
  /\ At(p, "lock")
  /\ lock' = [lock EXCEPT ![my[p].host] = p]
  /\ Stay(p, "locked_record")
  /\ UNCHANGED <<files, server, aged, history>>

\* refresh_locked, one step per access.
TakeLock(p) ==
  /\ At(p, "lock")
  /\ lock[my[p].host] = None
  /\ lock' = [lock EXCEPT ![my[p].host] = p]
  /\ Stay(p, "locked_record")
  /\ UNCHANGED <<files, server, aged, history>>

LockedRecord(p) ==
  /\ At(p, "locked_record")
  /\ LET rec == RecordOf(p)
     IN  IF rec = None THEN End(p)
         ELSE Goto(p, "locked_secrets", [my[p] EXCEPT !.rec = rec]) /\ UNCHANGED lock
  /\ UNCHANGED <<files, server, aged, history>>

\* A pair another process refreshed meanwhile is used as is.
UsedAsIs(p, sec) == StillValid(my[p].rec) /\ my[p].rejected # sec

LockedSecrets(p) ==
  /\ At(p, "locked_secrets")
  /\ LET sec == SecretsOf(p, my[p].rec)
     IN  IF sec = None THEN End(p)
         ELSE IF UsedAsIs(p, sec)
         THEN Goto(p, "request", [my[p] EXCEPT !.sec = sec]) /\ lock' = Released(p)
         ELSE Goto(p, "refresh", [my[p] EXCEPT !.sec = sec]) /\ UNCHANGED lock
  /\ UNCHANGED <<files, server, aged, history>>

\* oauth::refresh.  A current token is rotated, a spent one revokes the session.
\* The answer, or the request itself, may be lost.
Refresh(p) ==
  /\ At(p, "refresh")
  /\ LET s == my[p].sec.sess
         rotated == ~server[s].revoked /\ my[p].sec.gen = server[s].gen
     IN  \/ /\ rotated
            /\ server' = [server EXCEPT ![s].gen = @ + 1]
            /\ \/ /\ Goto(p, "upd_secrets", [my[p] EXCEPT !.new = [sess |-> s, gen |-> my[p].sec.gen + 1]])
                  /\ UNCHANGED <<lock, interrupted>>
               \/ Lossy /\ End(p) /\ interrupted' = interrupted \cup {s}
            /\ UNCHANGED reused
         \/ /\ ~rotated
            /\ server' = [server EXCEPT ![s].revoked = TRUE]
            /\ reused' = IF server[s].revoked THEN reused ELSE reused \cup {s}
            /\ End(p)
            /\ UNCHANGED interrupted
         \/ Lossy /\ End(p) /\ UNCHANGED <<server, interrupted, reused>>
  /\ UNCHANGED <<files, aged, commands, crashes, promise>>

\* Fault: the refreshed tokens go to the file, whatever store the login uses.
UpdSecretsToFile(p) ==
  /\ At(p, "upd_secrets")
  /\ SetCreds(p, "file", my[p].new) /\ Stay(p, "upd_read")
  /\ UNCHANGED <<hosts, lock, server, aged, history>>

\* Fault: the record is updated, the tokens are not.
UpdSecretsSkipped(p) ==
  /\ At(p, "upd_secrets")
  /\ Stay(p, "upd_read")
  /\ UNCHANGED <<files, lock, server, aged, history>>

\* Store::update: the secrets first, then hosts.json, read and written whole.
UpdSecrets(p) ==
  /\ At(p, "upd_secrets")
  /\ \/ SetCreds(p, my[p].rec.kind, my[p].new) /\ Stay(p, "upd_read")
        /\ UNCHANGED <<lock, interrupted>>
     \/ Lossy /\ End(p) /\ interrupted' = interrupted \cup {my[p].new.sess} /\ UNCHANGED creds
  /\ UNCHANGED <<hosts, server, aged, commands, crashes, reused, promise>>

\* hosts.json with h's record replaced in the copy this process has read.
Written(p, rec) == [my[p].file EXCEPT ![my[p].host] = rec]

ReadFile(p, from, to) ==
  /\ At(p, from)
  /\ Goto(p, to, [my[p] EXCEPT !.file = hosts])
  /\ UNCHANGED <<files, lock, server, aged, history>>

UpdRead(p) == ReadFile(p, "upd_read", "upd_write")

UpdWrite(p) ==
  /\ At(p, "upd_write")
  /\ hosts' = Written(p, Record(my[p].new, my[p].rec.kind))
  /\ lock' = Released(p)
  /\ Goto(p, "request", [my[p] EXCEPT !.sec = my[p].new, !.new = None, !.file = None])
  /\ UNCHANGED <<creds, server, aged, history>>

Use(p) ==
  \/ ReadRecord(p) \/ ReadSecrets(p) \/ Request(p)
  \/ TakeLock(p) \/ LockedRecord(p) \/ LockedSecrets(p)
  \/ Refresh(p) \/ UpdSecrets(p) \/ UpdRead(p) \/ UpdWrite(p)

-----------------------------------------------------------------------------
(* login: a new session replaces the host's previous one.  No lock.        *)

\* device_grant or browser_grant: tokens, or nothing.
Grant(p) ==
  /\ At(p, "grant")
  /\ \/ /\ Len(server) < MaxSessions
        /\ server' = Append(server, [gen |-> 0, revoked |-> FALSE])
        /\ Goto(p, "prev", [my[p] EXCEPT !.new = [sess |-> Len(server) + 1, gen |-> 0]])
        /\ UNCHANGED lock
     \/ End(p) /\ UNCHANGED server
  /\ UNCHANGED <<files, aged, history>>

PrevRecord(p) ==
  /\ At(p, "prev")
  /\ LET rec == RecordOf(p)
     IN  Goto(p, IF rec # None THEN "prev_secrets" ELSE "save", [my[p] EXCEPT !.rec = rec])
  /\ UNCHANGED <<files, lock, server, aged, history>>

\* The tokens to revoke; if they cannot be read there is nothing to revoke.
SecretsToRevoke(p, from, revoke, skip) ==
  /\ At(p, from)
  /\ LET sec == SecretsOf(p, my[p].rec)
     IN  Goto(p, IF sec # None THEN revoke ELSE skip, [my[p] EXCEPT !.sec = sec])
  /\ UNCHANGED <<files, lock, server, aged, history>>

\* oauth::revoke ends the whole session behind the token, if it gets through;
\* the command goes on either way.
Revoke(p, from, to) ==
  /\ At(p, from)
  /\ \/ server' = [server EXCEPT ![my[p].sec.sess].revoked = TRUE]
     \/ Lossy /\ UNCHANGED server
  /\ Stay(p, to)
  /\ UNCHANGED <<files, lock, aged, history>>

PrevSecrets(p) == SecretsToRevoke(p, "prev_secrets", "prev_revoke", "save")
PrevRevoke(p) == Revoke(p, "prev_revoke", "save")

\* Store::save.  The keychain takes the secrets before hosts.json is read, the
\* file store after; the other store's entry is removed before the record is
\* written.
Save(p) ==
  /\ At(p, "save")
  /\ \/ /\ "keyring" \in Kinds
        /\ SetCreds(p, "keyring", my[p].new)
        /\ Goto(p, "save_read", [my[p] EXCEPT !.kind = "keyring"])
     \/ /\ "file" \in Kinds
        /\ Goto(p, "save_read", [my[p] EXCEPT !.kind = "file"])
        /\ UNCHANGED creds
  /\ UNCHANGED <<hosts, lock, server, aged, history>>

SaveRead(p) == ReadFile(p, "save_read", "save_store")

SaveStore(p) ==
  /\ At(p, "save_store")
  /\ IF my[p].kind = "file"
     THEN LET previous == my[p].file[my[p].host]
          IN  /\ SetCreds(p, "file", my[p].new)
              /\ Stay(p, IF previous # None /\ previous.kind = "keyring"
                         THEN "save_drop" ELSE "save_write")
     ELSE SetCreds(p, "file", None) /\ Stay(p, "save_write")
  /\ UNCHANGED <<hosts, lock, server, aged, history>>

SaveDrop(p) ==
  /\ At(p, "save_drop")
  /\ SetCreds(p, "keyring", None)
  /\ Stay(p, "save_write")
  /\ UNCHANGED <<hosts, lock, server, aged, history>>

SaveWrite(p) ==
  /\ At(p, "save_write")
  /\ hosts' = Written(p, Record(my[p].new, my[p].kind))
  /\ promise' = [promise EXCEPT ![my[p].host] = my[p].new.sess]
  /\ End(p)
  /\ UNCHANGED <<creds, server, aged, commands, crashes, interrupted, reused>>

Login(p) ==
  \/ Grant(p) \/ PrevRecord(p) \/ PrevSecrets(p) \/ PrevRevoke(p)
  \/ Save(p) \/ SaveRead(p) \/ SaveStore(p) \/ SaveDrop(p) \/ SaveWrite(p)

-----------------------------------------------------------------------------
(* logout: revoke, then Store::delete.  No lock.                           *)

OutRecord(p) ==
  /\ At(p, "out_record")
  /\ LET rec == RecordOf(p)
     IN  IF rec = None THEN End(p)
         ELSE Goto(p, "out_secrets", [my[p] EXCEPT !.rec = rec]) /\ UNCHANGED lock
  /\ UNCHANGED <<files, server, aged, history>>

OutSecrets(p) == SecretsToRevoke(p, "out_secrets", "out_revoke", "del_read")
OutRevoke(p) == Revoke(p, "out_revoke", "del_read")

DelRead(p) ==
  LET rec == hosts[my[p].host]
  IN  ReadFile(p, "del_read",
               IF rec # None /\ rec.kind = "keyring" THEN "del_keyring" ELSE "del_file")

DelKeyring(p) ==
  /\ At(p, "del_keyring")
  /\ SetCreds(p, "keyring", None)
  /\ Stay(p, "del_file")
  /\ UNCHANGED <<hosts, lock, server, aged, history>>

\* What the logout leaves is settled by its last write.
DelFile(p) ==
  /\ At(p, "del_file")
  /\ SetCreds(p, "file", None)
  /\ IF my[p].file[my[p].host] # None
     THEN Stay(p, "del_write") /\ UNCHANGED lock
     ELSE End(p)
  /\ UNCHANGED <<hosts, server, aged, history>>

DelWrite(p) ==
  /\ At(p, "del_write")
  /\ hosts' = Written(p, None)
  /\ promise' = [promise EXCEPT ![my[p].host] = 0]
  /\ End(p)
  /\ UNCHANGED <<creds, server, aged, commands, crashes, interrupted, reused>>

Logout(p) ==
  \/ OutRecord(p) \/ OutSecrets(p) \/ OutRevoke(p)
  \/ DelRead(p) \/ DelKeyring(p) \/ DelFile(p) \/ DelWrite(p)

-----------------------------------------------------------------------------

\* A process dies between two steps; the operating system frees its lock.
Crash(p) ==
  /\ ~At(p, "idle")
  /\ crashes < MaxCrashes
  /\ crashes' = crashes + 1
  /\ interrupted' = IF At(p, "upd_secrets") THEN interrupted \cup {my[p].new.sess} ELSE interrupted
  /\ End(p)
  /\ UNCHANGED <<files, server, aged, commands, reused, promise>>

\* Time passes: a recorded or stored pair comes within the margin of its expiry.
Age ==
  /\ Cardinality(aged) < MaxAged
  /\ \E s \in DOMAIN server : \E g \in 0..server[s].gen : aged' = aged \cup {[sess |-> s, gen |-> g]}
  /\ UNCHANGED <<files, lock, server, pc, my, history>>

Started == CHOOSE f \in [LoggedIn -> 1..Cardinality(LoggedIn)] :
             \A g, h \in LoggedIn : f[g] = f[h] => g = h

Init ==
  /\ server = [s \in 1..Cardinality(LoggedIn) |-> [gen |-> 0, revoked |-> FALSE]]
  /\ hosts = [h \in Hosts |-> IF h \in LoggedIn
                              THEN Record([sess |-> Started[h], gen |-> 0], "file") ELSE None]
  /\ creds = [k \in {"keyring", "file"} |-> [h \in Hosts |->
                IF k = "file" /\ h \in LoggedIn THEN [sess |-> Started[h], gen |-> 0] ELSE None]]
  /\ lock = [h \in Hosts |-> None]
  /\ aged = {}
  /\ pc = [p \in Procs |-> "idle"] /\ my = [p \in Procs |-> Blank]
  /\ commands = 0 /\ crashes = 0
  /\ interrupted = {} /\ reused = {}
  /\ promise = [h \in Hosts |-> IF h \in LoggedIn THEN Started[h] ELSE 0]

Step(p) == Use(p) \/ Login(p) \/ Logout(p)

Next ==
  \/ \E p \in Procs : Step(p) \/ Crash(p) \/ \E c \in Commands, h \in Hosts : Begin(p, c, h)
  \/ Age

Spec == Init /\ [][Next]_vars

\* The operating system runs every process that can take a step.
FairSpec == Spec /\ \A p \in Procs : WF_vars(Step(p))

-----------------------------------------------------------------------------
(* Properties.                                                             *)

\* The host sees a spent refresh token again only for a session whose rotation
\* was cut off before its tokens were stored; no interleaving of refreshes,
\* logins and logouts alone makes it revoke a session as stolen (refresh_locked:
\* "a second refresh with the old refresh token would be a replay").
ReuseOnlyAfterInterruption == reused \subseteq interrupted

\* The process between a rotation and the write of its tokens.
Storing(s) == \E p \in Procs : At(p, "upd_secrets") /\ my[p].new.sess = s

\* Every stored pair is the one its session accepts, except while a rotation is
\* being stored and after one was cut off: whatever is read under the lock can
\* be refreshed.
StoredIsCurrent ==
  \A k \in DOMAIN creds, h \in Hosts :
    LET sec == creds[k][h]
    IN  sec # None /\ sec.sess \notin interrupted /\ ~Storing(sec.sess)
          => sec.gen = server[sec.sess].gen

\* When logins are only used, no interleaving and no crash loses one: the record
\* of a host keeps its session, the store keeps its tokens, and the record's
\* expiry is never that of a pair newer than the stored one (an update of
\* hosts.json lost to another host's costs a refresh, not the login).
UseKeepsLogins ==
  \A h \in LoggedIn :
    /\ hosts[h] # None /\ hosts[h].sess = Started[h]
    /\ creds["file"][h] # None
    /\ hosts[h].gen <= creds["file"][h].gen

\* Every command ends: no lock is held for ever.
EveryCommandEnds == \A p \in Procs : ~At(p, "idle") ~> At(p, "idle")

\* login.rs says of logout: "Logging out always forgets the tokens here".
LogoutForgets ==
  \A h \in Hosts :
    (promise[h] = 0 /\ \A p \in Procs : At(p, "idle")) =>
      hosts[h] = None /\ \A k \in DOMAIN creds : creds[k][h] = None
=============================================================================
