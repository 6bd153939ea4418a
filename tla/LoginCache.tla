----------------------------- MODULE LoginCache -----------------------------
(***************************************************************************)
(* The logins that the rendered folders of Claude Code share: the cache of *)
(* accounts and of the last live credential under the adapter root, the    *)
(* exports that seed a folder from it and save a folder's login to it, and *)
(* `llmenv login` (src/src/auth, src/src/cli/login.rs and                  *)
(* src/src/cli/post_materialize.rs).                                       *)
(*                                                                         *)
(* A credential is its account and the time its last token ends. Time 0 is *)
(* "never".                                                                *)
(***************************************************************************)
EXTENDS Integers, FiniteSets

CONSTANTS Accounts, LoginFolders, Exporters,
          DeadFolderTtl, \* DEAD_FOLDER_TTL_MS
          TokenLife,     \* how long a new credential lives
          MaxTime, MaxLogins

ASSUME LoginAssumption ==
  {DeadFolderTtl, TokenLife, MaxTime, MaxLogins} \subseteq Nat \ {0}

NoAccount == "no account"
NoCred == [acct |-> NoAccount, ends |-> 0]
Creds == {NoCred} \cup [acct : Accounts, ends : 0 .. MaxTime + TokenLife]

VARIABLES sighted,  \* account -> last_seen of its cached entry
          cached,   \* the cached credential
          deadMark, \* when a folder read last found a dead credential
          home,     \* folder -> account and credential in it, and the id in its manifest
          exporter, \* export -> where its export stands
          login,    \* `llmenv login`
          time, logins,
          deadHeld, \* history: folder -> since when the mark keeps its live credential out
          remarked, \* history: folders held back while another folder set the mark again
          overrun   \* history: a quiet export replaced a live login

loginVars == <<sighted, cached, deadMark, home, exporter, login, time, logins, deadHeld, remarked, overrun>>

LoginSteps ==
  {"idle", "load", "check", "seed", "account", "record", "detect", "save", "cache", "folder", "keep", "done"}
Idle == [at |-> "idle", f |-> "none", got |-> NoCred, acct |-> NoAccount, now |-> 0,
         quiet |-> TRUE, want |-> NoAccount]

LoginTypeOK ==
  /\ sighted \in [Accounts -> 0 .. MaxTime]
  /\ cached \in Creds
  /\ deadMark \in 0 .. MaxTime
  /\ home \in [LoginFolders -> [acct : Accounts \cup {NoAccount}, cred : Creds,
                                id : Accounts \cup {NoAccount}, new : Accounts \cup {NoAccount}]]
  /\ \A e \in Exporters : exporter[e].at \in LoginSteps /\ exporter[e].got \in Creds
  /\ login \in [at : {"idle", "folder"}, f : LoginFolders \cup {"none"}, cred : Creds]
  /\ time \in 1 .. MaxTime /\ logins \in 0 .. MaxLogins
  /\ deadHeld \in [LoginFolders -> 0 .. MaxTime]
  /\ remarked \subseteq LoginFolders
  /\ overrun \in BOOLEAN

NoHome == [acct |-> NoAccount, cred |-> NoCred, id |-> NoAccount, new |-> NoAccount]

\* A session logged in to a folder of an earlier day, and no export followed.
DeadHome(a) == [acct |-> a, cred |-> [acct |-> a, ends |-> 0], id |-> NoAccount, new |-> a]

LoginInit ==
  /\ sighted = [a \in Accounts |-> 0]
  /\ cached = NoCred
  /\ deadMark = 0
  /\ home \in [LoginFolders -> {NoHome} \cup {DeadHome(a) : a \in Accounts}]
  /\ exporter = [e \in Exporters |-> Idle]
  /\ login = [at |-> "idle", f |-> "none", cred |-> NoCred]
  /\ time = 1 /\ logins = Cardinality({f \in LoginFolders : home[f] # NoHome})
  /\ logins <= MaxLogins
  /\ deadHeld = [f \in LoginFolders |-> 0]
  /\ remarked = {}
  /\ overrun = FALSE

\* is_expired: neither the access token nor the refresh token lives.
IsExpired(c, now) == c.ends < now
LiveLogin(c, now) == c # NoCred /\ ~IsExpired(c, now)

\* Whoever else moves during an export, the export is no longer a quiet one; an
\* export that ended is forgotten with the next step of another.
Overtaken(x) == IF exporter[x].at = "done" THEN Idle
                ELSE [exporter[x] EXCEPT !.quiet = @ /\ exporter[x].at = "idle"]
Others(e) == [x \in Exporters |-> IF x = e THEN exporter[x] ELSE Overtaken(x)]
Everybody == [x \in Exporters |-> Overtaken(x)]
Go(e, to) == exporter' = [Others(e) EXCEPT ![e].at = to]
FinishExport(e) == [exporter[e] EXCEPT !.at = "done", !.got = NoCred, !.acct = NoAccount]

-----------------------------------------------------------------------------
(* The export of one folder: inject_cached_auth_if_available, the manifest *)
(* of the render, and then sync_auth_on_export.                            *)

StartExport(e, f) ==
  /\ exporter[e].at \in {"idle", "done"}
  /\ exporter' = [Others(e) EXCEPT ![e] = [Idle EXCEPT !.at = "load", !.f = f,
                                              !.quiet = (login.at = "idle"), !.want = home[f].new]]
  /\ UNCHANGED <<sighted, cached, deadMark, home, login, time, logins, deadHeld, remarked, overrun>>

\* inject_if_missing: a dead cached credential is not injected ...
LoadCached(e) ==
  /\ exporter[e].at = "load"
  /\ exporter' = [Others(e) EXCEPT ![e].at = IF LiveLogin(cached, time) THEN "check" ELSE "account",
                                 ![e].got = cached]
  /\ UNCHANGED <<sighted, cached, deadMark, home, login, time, logins, deadHeld, remarked, overrun>>

\* Mutant: the credential of the folder is not looked at.
CheckFolderSkipped(e) ==
  /\ exporter[e].at = "check"
  /\ Go(e, "seed")
  /\ UNCHANGED <<sighted, cached, deadMark, home, login, time, logins, deadHeld, remarked, overrun>>

\* ... and a credential that the folder has stays.
CheckFolder(e) ==
  /\ exporter[e].at = "check"
  /\ Go(e, IF home[exporter[e].f].cred = NoCred THEN "seed" ELSE "account")
  /\ UNCHANGED <<sighted, cached, deadMark, home, login, time, logins, deadHeld, remarked, overrun>>

SeedFolder(e) ==
  /\ exporter[e].at = "seed"
  /\ home' = [home EXCEPT ![exporter[e].f].cred = exporter[e].got]
  /\ overrun' = (overrun \/ (exporter[e].quiet /\ LiveLogin(home[exporter[e].f].cred, time)))
  /\ Go(e, "account")
  /\ UNCHANGED <<sighted, cached, deadMark, login, time, logins, deadHeld, remarked>>

\* choose_auth_for_inheritance: an entry seen last; the directory order breaks ties.
Newest(a) == sighted[a] # 0 /\ \A b \in Accounts : sighted[b] <= sighted[a]

\* inject_auth_into_claude_json: the chosen account goes over the folder's own.
InjectAccount(e) ==
  /\ exporter[e].at = "account"
  /\ \/ \E a \in Accounts :
          /\ Newest(a)
          /\ home' = [home EXCEPT ![exporter[e].f].acct = a]
          /\ exporter' = [Others(e) EXCEPT ![e].at = "record", ![e].acct = a]
     \/ /\ \A a \in Accounts : ~Newest(a)
        /\ exporter' = [Others(e) EXCEPT ![e].at = "record", ![e].acct = NoAccount]
        /\ UNCHANGED home
  /\ UNCHANGED <<sighted, cached, deadMark, login, time, logins, deadHeld, remarked, overrun>>

\* write_cache_manifest records the injected account.
RecordAccount(e) ==
  /\ exporter[e].at = "record"
  /\ home' = [home EXCEPT ![exporter[e].f].id = exporter[e].acct]
  /\ Go(e, "detect")
  /\ UNCHANGED <<sighted, cached, deadMark, login, time, logins, deadHeld, remarked, overrun>>

\* try_sync: the folder's account against the recorded one.
DetectLogin(e) ==
  /\ exporter[e].at = "detect"
  /\ LET h == home[exporter[e].f]
     IN exporter' = [Others(e) EXCEPT
                     ![e].at = IF h.acct \in {NoAccount, h.id} THEN "cache" ELSE "save",
                     ![e].acct = h.acct, ![e].got = NoCred, ![e].now = time]
  /\ UNCHANGED <<sighted, cached, deadMark, home, login, time, logins, deadHeld, remarked, overrun>>

\* save_auth_entry, and the manifest with the new account.
SaveAccount(e) ==
  /\ exporter[e].at = "save"
  /\ sighted' = [sighted EXCEPT ![exporter[e].acct] = exporter[e].now]
  /\ home' = [home EXCEPT ![exporter[e].f].id = exporter[e].acct]
  /\ Go(e, "cache")
  /\ UNCHANGED <<cached, deadMark, login, time, logins, deadHeld, remarked, overrun>>

\* is_recent: the mark holds folder reads back; a mark in the future does not.
IsRecent(now) == deadMark # 0 /\ now - deadMark \in 0 .. DeadFolderTtl - 1

\* cache_if_needed: a live cached credential wins, then the mark. From the first
\* export that the mark stops, a live folder credential is held back.
CacheNeeded(e) ==
  /\ exporter[e].at = "cache"
  /\ LET f == exporter[e].f
         stop == LiveLogin(cached, time)
     IN /\ exporter' = [Others(e) EXCEPT ![e] =
             [(IF stop \/ IsRecent(time) THEN FinishExport(e) ELSE [exporter[e] EXCEPT !.at = "folder"])
                EXCEPT !.now = time]]
        /\ deadHeld' = [deadHeld EXCEPT ![f] =
                      IF stop \/ ~LiveLogin(home[f].cred, time) THEN 0
                      ELSE IF IsRecent(time) /\ @ = 0 THEN time ELSE @]
        /\ remarked' = IF deadHeld'[f] = 0 THEN remarked \ {f} ELSE remarked
  /\ UNCHANGED <<sighted, cached, deadMark, home, login, time, logins, overrun>>

\* The folder is read: a dead credential sets the mark.
ReadFolder(e) ==
  /\ exporter[e].at = "folder"
  /\ LET c == home[exporter[e].f].cred
         dead == c # NoCred /\ IsExpired(c, exporter[e].now)
     IN /\ exporter' = [Others(e) EXCEPT ![e] = IF c = NoCred \/ dead THEN FinishExport(e)
                                              ELSE [exporter[e] EXCEPT !.at = "keep", !.got = c]]
        /\ deadMark' = IF dead THEN exporter[e].now ELSE deadMark
        /\ remarked' = IF dead THEN remarked \cup {f \in LoginFolders : deadHeld[f] # 0} ELSE remarked
  /\ UNCHANGED <<sighted, cached, home, login, time, logins, deadHeld, overrun>>

\* save_cached: the credential is cached and the mark is removed.
SaveCached(e) ==
  /\ exporter[e].at = "keep"
  /\ cached' = exporter[e].got
  /\ deadMark' = 0
  /\ overrun' = (overrun \/ (exporter[e].quiet /\ LiveLogin(cached, time)))
  /\ deadHeld' = [f \in LoginFolders |-> 0]
  /\ remarked' = {}
  /\ exporter' = [Others(e) EXCEPT ![e] = FinishExport(e)]
  /\ UNCHANGED <<sighted, home, login, time, logins>>

-----------------------------------------------------------------------------
(* `llmenv login`, what Claude Code itself does in a folder, and time.     *)

NewCred(a) == [acct |-> a, ends |-> time + TokenLife]

\* store_login: the account and its live credential go to the cache; with a
\* current folder the folder gets them too.
LoginCommand(a, f) ==
  /\ login.at = "idle" /\ logins < MaxLogins
  /\ logins' = logins + 1
  /\ sighted' = [sighted EXCEPT ![a] = time]
  /\ cached' = NewCred(a)
  /\ deadMark' = 0
  /\ login' = [at |-> IF f = "none" THEN "idle" ELSE "folder", f |-> f,
               cred |-> IF f = "none" THEN NoCred ELSE NewCred(a)]
  /\ deadHeld' = [x \in LoginFolders |-> 0]
  /\ remarked' = {}
  /\ home' = [x \in LoginFolders |-> [home[x] EXCEPT !.new = NoAccount]]
  /\ exporter' = Everybody
  /\ UNCHANGED <<time, overrun>>

LoginToFolder ==
  /\ login.at = "folder"
  /\ home' = [home EXCEPT ![login.f] = [acct |-> login.cred.acct, cred |-> login.cred,
                                        id |-> login.cred.acct, new |-> NoAccount]]
  /\ login' = [at |-> "idle", f |-> "none", cred |-> NoCred]
  /\ exporter' = Everybody
  /\ UNCHANGED <<sighted, cached, deadMark, time, logins, deadHeld, remarked, overrun>>

\* `claude auth login` in a session: Claude Code writes the folder.
SessionLogin(a, f) ==
  /\ logins < MaxLogins
  /\ logins' = logins + 1
  /\ home' = [home EXCEPT ![f].acct = a, ![f].cred = NewCred(a), ![f].new = a]
  /\ exporter' = Everybody
  /\ UNCHANGED <<sighted, cached, deadMark, login, time, deadHeld, remarked, overrun>>

\* Claude Code renews a credential whose refresh token lives.
RefreshToken(f) ==
  /\ LiveLogin(home[f].cred, time)
  /\ home[f].cred.ends < time + TokenLife
  /\ home' = [home EXCEPT ![f].cred.ends = time + TokenLife]
  /\ exporter' = Everybody
  /\ UNCHANGED <<sighted, cached, deadMark, login, time, logins, deadHeld, remarked, overrun>>

\* Time passes between exports: one takes far less than a unit of the TTL.
TickLogin ==
  /\ time < MaxTime
  /\ \A e \in Exporters : exporter[e].at \in {"idle", "done"}
  /\ time' = time + 1
  /\ exporter' = Everybody
  /\ UNCHANGED <<sighted, cached, deadMark, home, login, logins, deadHeld, remarked, overrun>>

LoginNext ==
  \/ \E e \in Exporters :
       \/ \E f \in LoginFolders : StartExport(e, f)
       \/ LoadCached(e) \/ CheckFolder(e) \/ SeedFolder(e) \/ InjectAccount(e) \/ RecordAccount(e)
       \/ DetectLogin(e) \/ SaveAccount(e) \/ CacheNeeded(e) \/ ReadFolder(e) \/ SaveCached(e)
  \/ \E a \in Accounts : \/ \E f \in LoginFolders : SessionLogin(a, f)
                         \/ \E f \in LoginFolders \cup {"none"} : LoginCommand(a, f)
  \/ LoginToFolder
  \/ \E f \in LoginFolders : RefreshToken(f)
  \/ TickLogin

LoginSpec == LoginInit /\ [][LoginNext]_loginVars

-----------------------------------------------------------------------------
\* An export that runs alone replaces no live login: inject_if_missing "Never
\* overwrites one the folder already holds", and cache_if_needed "Never overwrites
\* a live cached blob with the folder's" (auth/credentials/cache.rs).
LiveLoginsKept == ~overrun

\* An export that ran alone leaves the account of the folder, the id in its
\* manifest and the entry that the next folder inherits in agreement.
AccountsAgree ==
  \A e \in Exporters :
    exporter[e].at = "done" /\ exporter[e].quiet
      => LET h == home[exporter[e].f] IN h.acct = h.id /\ (h.acct # NoAccount => Newest(h.acct))

\* "so a refreshed folder credential reaches the cache within this bound"
\* (dead_folder.rs): the mark of one dead read keeps a live credential out for
\* less than the TTL, unless another folder's dead read set the mark again.
HeldWithinTtl ==
  \A e \in Exporters :
    LET f == exporter[e].f IN
    exporter[e].at = "done" /\ f # "none" /\ deadHeld[f] # 0 /\ f \notin remarked
      => exporter[e].now - deadHeld[f] < DeadFolderTtl

\* detect.rs: "When they differ (e.g. the user ran `claude auth login` inside an
\* active session), the stable cache is refreshed": after an export that ran
\* alone, the account of a login in the session is in the cache.
SessionLoginCached ==
  \A e \in Exporters :
    exporter[e].at = "done" /\ exporter[e].quiet /\ exporter[e].want # NoAccount
      => sighted[exporter[e].want] # 0

\* Exports keep the logins: no live one is replaced, folder, manifest and cache agree
\* after an export, and a dead folder holds a live credential back for less than the TTL.
LoginsKept == LiveLoginsKept /\ AccountsAgree /\ HeldWithinTtl
=============================================================================
