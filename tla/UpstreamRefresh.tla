--------------------------- MODULE UpstreamRefresh ---------------------------
(***************************************************************************)
(* RefreshTokenProvider::access_token and RefreshTokenFileStore            *)
(* (crates/mcp-toolkit-auth/src/upstream_oauth.rs): callers share one      *)
(* cached access token and one refresh token.  Whoever finds the cache     *)
(* due exchanges the refresh token at the provider, holding the write lock *)
(* of the cache across the exchange.  A provider that rotates answers with *)
(* a replacement and no longer accepts the token it was sent.  The server  *)
(* takes the replacement and saves it, for the process that comes after a  *)
(* crash.                                                                  *)
(*                                                                         *)
(* Refresh tokens are numbered as the provider issues them; it accepts the *)
(* last.  Of the cached access token only whether it is due is kept.  One  *)
(* task of the server persists replacements, and saves again after a save  *)
(* that failed.                                                            *)
(***************************************************************************)
EXTENDS Integers, FiniteSets

CONSTANTS UpCallers,
          UpMaxRotations,  \* rotations of the provider (bound)
          NoUpCaller, NoUpToken

ASSUME UpAssumption ==
  /\ NoUpCaller \notin UpCallers
  /\ UpMaxRotations \in Nat
  /\ NoUpToken \notin 0..UpMaxRotations

VARIABLES
  upIssued,    \* the refresh token the provider accepts
  upStrays,    \* tokens in requests nobody waits for any more and the provider has yet to see
  upRunning,   \* the server process is up
  upTokens,    \* current_refresh_token and replacement_refresh_token
  upCache,     \* cached_access_token: "none", "fresh" or "due"
  upLock,      \* holder of its write lock, or NoUpCaller
  upCalls,     \* each caller's progress
  upSaving,    \* the record the server is saving, and whether its temporary file is whole
  upFile,      \* the record in the token file
  upLost       \* history: a rotation's new token was lost with its answer, was in hand and
               \* dropped by UpRefused, or was held only in a process that crashed

upVars == <<upIssued, upStrays, upRunning, upTokens, upCache, upLock, upCalls, upSaving, upFile, upLost>>
upServer == <<upTokens, upCache, upLock, upCalls, upSaving>>

UpIdle == [pc |-> "idle", token |-> NoUpToken]
NothingToSave == [token |-> NoUpToken, written |-> FALSE]

UpInit ==
  /\ upIssued = 0 /\ upStrays = {}
  /\ upRunning = TRUE
  /\ upTokens = [current |-> 0, replacement |-> NoUpToken]
  /\ upCache = "none" /\ upLock = NoUpCaller
  /\ upCalls = [c \in UpCallers |-> UpIdle]
  /\ upSaving = NothingToSave
  /\ upFile = 0
  /\ upLost = FALSE

UpAt(c, pc) == upRunning /\ upCalls[c].pc = pc
UpBecome(c, call) == upCalls' = [upCalls EXCEPT ![c] = call]

(* The lock guard goes with the caller that held it. *)
UpReturns(c) ==
  /\ UpBecome(c, UpIdle)
  /\ upLock' = IF upLock = c THEN NoUpCaller ELSE upLock

-----------------------------------------------------------------------------
(* access_token *)

(* Under the read lock a fresh token is returned, which changes nothing.   *)
(* Otherwise the caller queues for the write lock.                         *)
UpAsk(c) ==
  /\ UpAt(c, "idle")
  /\ upLock = NoUpCaller /\ upCache # "fresh"
  /\ UpBecome(c, [UpIdle EXCEPT !.pc = "waiting"])
  /\ UNCHANGED <<upIssued, upStrays, upRunning, upTokens, upCache, upLock, upSaving, upFile, upLost>>

(* It has the write lock: look again, then send the current token. *)
UpLocked(c) ==
  /\ UpAt(c, "waiting") /\ upLock = NoUpCaller
  /\ IF upCache = "fresh" THEN UpReturns(c)
     ELSE upLock' = c /\ UpBecome(c, [pc |-> "sent", token |-> upTokens.current])
  /\ UNCHANGED <<upIssued, upStrays, upRunning, upTokens, upCache, upSaving, upFile, upLost>>

(* The token endpoint sees a token, and rotates it or does not; offer is   *)
(* the replacement it answers with.                                        *)
Exchange(token, offer) ==
  /\ token = upIssued
  /\ \/ offer = NoUpToken /\ UNCHANGED upIssued
     \/ upIssued < UpMaxRotations /\ upIssued' = upIssued + 1 /\ offer = upIssued + 1

UpAnswered(c) ==
  /\ UpAt(c, "sent")
  /\ \E offer \in 0..UpMaxRotations \cup {NoUpToken} :
       /\ Exchange(upCalls[c].token, offer)
       /\ UpBecome(c, [pc |-> "answered", token |-> offer])
  /\ UNCHANGED <<upStrays, upRunning, upTokens, upCache, upLock, upSaving, upFile, upLost>>

(* invalid_grant, for a token rotated away *)
UpRejected(c) ==
  /\ UpAt(c, "sent") /\ upCalls[c].token # upIssued
  /\ UpReturns(c)
  /\ UNCHANGED <<upIssued, upStrays, upRunning, upTokens, upCache, upSaving, upFile, upLost>>

(* The answer is lost on its way, or in it a granted scope is missing or   *)
(* the access token is: the error leaves before the replacement is looked  *)
(* at.                                                                     *)
UpRefused(c) ==
  /\ UpAt(c, "answered")
  /\ UpReturns(c)
  /\ upLost' = (upLost \/ upCalls[c].token # NoUpToken)
  /\ UNCHANGED <<upIssued, upStrays, upRunning, upTokens, upCache, upSaving, upFile>>

(* Mutant: a replacement nobody has taken yet is not overwritten. *)
ReplacedByFirst(offer) ==
  IF offer = NoUpToken THEN upTokens
  ELSE [current |-> offer, replacement |-> IF upTokens.replacement = NoUpToken THEN offer ELSE upTokens.replacement]

ReplacedBy(offer) ==
  IF offer = NoUpToken THEN upTokens ELSE [current |-> offer, replacement |-> offer]

(* The new tokens are installed.  A lifetime within the refresh skew, or   *)
(* none, makes the access token due at once.                               *)
UpInstalls(c) ==
  /\ UpAt(c, "answered")
  /\ upTokens' = ReplacedBy(upCalls[c].token)
  /\ upCache' \in {"fresh", "due"}
  /\ UpReturns(c)
  /\ UNCHANGED <<upIssued, upStrays, upRunning, upSaving, upFile, upLost>>

(* The request times out or its connection fails, or the caller's future   *)
(* is dropped at an await; the provider may see the request all the same.  *)
UpGivesUp(c) ==
  /\ upRunning /\ upCalls[c].pc \in {"waiting", "sent"}
  /\ upStrays' = upStrays \cup IF upCalls[c].pc = "sent" THEN {upCalls[c].token} ELSE {}
  /\ UpReturns(c)
  /\ UNCHANGED <<upIssued, upRunning, upTokens, upCache, upSaving, upFile, upLost>>

StrayArrives(token) ==
  /\ upStrays' = upStrays \ {token}
  /\ \/ token # upIssued /\ UNCHANGED <<upIssued, upLost>>
     \/ \E offer \in 0..UpMaxRotations \cup {NoUpToken} :
          Exchange(token, offer) /\ upLost' = (upLost \/ offer # NoUpToken)
  /\ UNCHANGED <<upRunning, upServer, upFile>>

(* The cached access token reaches its refresh_after. *)
AccessTokenDue ==
  /\ upCache = "fresh"
  /\ upCache' = "due"
  /\ UNCHANGED <<upIssued, upStrays, upRunning, upTokens, upLock, upCalls, upSaving, upFile, upLost>>

-----------------------------------------------------------------------------
(* take_replacement_refresh_token, and RefreshTokenFileStore *)

TakeReplacement ==
  /\ upRunning
  /\ upSaving = NothingToSave /\ upTokens.replacement # NoUpToken
  /\ upSaving' = [token |-> upTokens.replacement, written |-> FALSE]
  /\ upTokens' = [upTokens EXCEPT !.replacement = NoUpToken]
  /\ UNCHANGED <<upIssued, upStrays, upRunning, upCache, upLock, upCalls, upFile, upLost>>

(* save writes a temporary file of a fresh name and renames it over the    *)
(* cache; an error at either removes it.                                   *)
SaveWrites ==
  /\ upSaving.token # NoUpToken /\ ~upSaving.written
  /\ upSaving' = [upSaving EXCEPT !.written = TRUE]
  /\ UNCHANGED <<upIssued, upStrays, upRunning, upTokens, upCache, upLock, upCalls, upFile, upLost>>

SaveRenames ==
  /\ upSaving.written
  /\ upFile' = upSaving.token
  /\ upSaving' = NothingToSave
  /\ UNCHANGED <<upIssued, upStrays, upRunning, upTokens, upCache, upLock, upCalls, upLost>>

SaveFails ==
  /\ upSaving.written
  /\ upSaving' = [upSaving EXCEPT !.written = FALSE]
  /\ UNCHANGED <<upIssued, upStrays, upRunning, upTokens, upCache, upLock, upCalls, upFile, upLost>>

ClearFile ==
  /\ upFile # NoUpToken
  /\ upFile' = NoUpToken
  /\ UNCHANGED <<upIssued, upStrays, upRunning, upServer, upLost>>

(* Only the file and what is on the network survive. *)
UpCrash ==
  /\ upRunning
  /\ upRunning' = FALSE
  /\ upStrays' = upStrays \cup {upCalls[c].token : c \in {d \in UpCallers : UpAt(d, "sent")}}
  /\ upLost' = \/ upLost
               \/ {upTokens.replacement, upSaving.token} # {NoUpToken}
               \/ \E c \in UpCallers : UpAt(c, "answered") /\ upCalls[c].token # NoUpToken
  /\ upTokens' = [current |-> NoUpToken, replacement |-> NoUpToken]
  /\ upCache' = "none" /\ upLock' = NoUpCaller
  /\ upCalls' = [c \in UpCallers |-> UpIdle]
  /\ upSaving' = NothingToSave
  /\ UNCHANGED <<upIssued, upFile>>

(* load, and a new provider from what it finds. *)
UpRestart ==
  /\ ~upRunning /\ upFile # NoUpToken
  /\ upRunning' = TRUE
  /\ upTokens' = [current |-> upFile, replacement |-> NoUpToken]
  /\ UNCHANGED <<upIssued, upStrays, upCache, upLock, upCalls, upSaving, upFile, upLost>>

UpNext ==
  \/ \E c \in UpCallers :
       \/ UpAsk(c) \/ UpLocked(c) \/ UpAnswered(c) \/ UpRejected(c) \/ UpRefused(c)
       \/ UpInstalls(c) \/ UpGivesUp(c)
  \/ \E token \in upStrays : StrayArrives(token)
  \/ AccessTokenDue \/ TakeReplacement \/ SaveWrites \/ SaveRenames \/ SaveFails \/ ClearFile
  \/ UpCrash \/ UpRestart

UpSpec == UpInit /\ [][UpNext]_upVars

-----------------------------------------------------------------------------
(* Properties *)

OfferedTokens == {upCalls[c].token : c \in {d \in UpCallers : UpAt(d, "answered")}}

(* "persist the replacement token ... promptly so providers that rotate    *)
(* refresh tokens do not strand the next refresh"                          *)
(* (docs/upstream-oauth.md): unless an answer was lost or refused after    *)
(* the provider had rotated, or the process crashed with a replacement     *)
(* unsaved, no request carries a token rotated away, whoever else was      *)
(* refreshing and however often the process restarted; and the token file  *)
(* holds the token the provider accepts, or that token is on its way       *)
(* there.                                                                  *)
NewestTokenKept ==
  ~upLost =>
    /\ \A c \in UpCallers : UpAt(c, "sent") => upCalls[c].token = upIssued
    /\ upFile \notin {NoUpToken, upIssued} =>
         upIssued \in {upTokens.replacement, upSaving.token} \cup OfferedTokens

==============================================================================
