----------------------------- MODULE WriteGuard -----------------------------
(***************************************************************************)
(* The write path of safety.py: the policy, confirmation tokens, the rate  *)
(* limit, range clamping and the audit trail, with the driver's register   *)
(* behind it.                                                              *)
(*                                                                         *)
(* check() applies its gates in a fixed order and refuses at the first one *)
(* that is shut; each gate is an action here, guarded by the gates before  *)
(* it.  A write that raises changes nothing else.                          *)
(***************************************************************************)
EXTENDS Deques

CONSTANTS
    Tags,           \* the tags of the database
    Unknown,        \* names a policy may list that the database does not have
    Writable,       \* the tags the database marks writable
    Bits,           \* the tags that are single bits
    Lowest, Highest,\* the engineering range of each tag
    Requests,       \* the values a caller may ask for: [value, bool]
    Policies,       \* the policies the guard may be created with
    AllowLists,     \* the sets writes may be enabled for afterwards
    MaxWrites,      \* max_writes_per_window
    Window,         \* rate_window
    TokenTTL,       \* token_ttl
    HistoryDepth,   \* maxlen of a tag's write history, 256 in the code
    AuditLimit,     \* audit_limit, 500 by default
    MaxTime,        \* bound: the clock stops here
    MaxTokens,      \* bound: tokens issued
    None

Names == Tags \cup Unknown

(* A value with its Python type: True and 1.0 are equal numbers, but they  *)
(* are checked and confirmed differently.                                  *)
Request == [value : Int, bool : BOOLEAN]

WritePolicy ==
    [readOnly : BOOLEAN, allowList : SUBSET Names, confirm : SUBSET Names, clamp : BOOLEAN]

ASSUME WriteGuardAssumption ==
    /\ Unknown \cap Tags = {}
    /\ Writable \subseteq Tags /\ Bits \subseteq Tags
    /\ Lowest \in [Tags -> Int] /\ Highest \in [Tags -> Int]
    /\ \A t \in Tags : Lowest[t] <= Highest[t]
    /\ Requests \subseteq Request
    /\ Policies \subseteq WritePolicy
    /\ AllowLists \subseteq SUBSET Names
    /\ MaxWrites \in Nat /\ Window \in Nat /\ TokenTTL \in Nat
    /\ HistoryDepth \in Nat \ {0} /\ AuditLimit \in Nat \ {0}
    /\ MaxTime \in Nat /\ MaxTokens \in Nat
    /\ None \notin Int /\ None \notin Names

(* The history of a tag must be able to hold as many writes as the policy  *)
(* counts.  The code does not check it.                                    *)
ASSUME HistoryHoldsTheLimit == MaxWrites <= HistoryDepth

VARIABLES
    now,
    policy,
    tokens,         \* _tokens: the identities of the tokens not yet consumed
    issued,         \* every token ever issued; a live token's record is here
    history,        \* _history: when each tag was written
    audit,          \* the audit trail
    register,       \* what the device holds
    written,        \* history variable: every write accepted for each tag
    attempt         \* history variable: the latest call of check and its outcome

vars == <<now, policy, tokens, issued, history, audit, register, written, attempt>>

(* _Token, without its digest: a token confirms what it was issued for.    *)
Token == [tag : Tags, request : Request, expiresAt : Nat]

AuditEntry ==
    [timestamp : Nat, tag : Names, requested : Request,
     applied : Int \cup {None}, accepted : BOOLEAN]

Init ==
    /\ now = 0
    /\ policy \in Policies
    /\ tokens = {}
    /\ issued = <<>>
    /\ history = [t \in Tags |-> <<>>]
    /\ audit = <<>>
    /\ register = [t \in Tags |-> Lowest[t]]
    /\ written = [t \in Tags |-> <<>>]
    /\ attempt = None

-----------------------------------------------------------------------------
(* Confirmation tokens                                                     *)

(* issue_token: for any tag of the database, writable or not.              *)
IssueToken(t, r) ==
    /\ Len(issued) < MaxTokens
    /\ issued' = Append(issued, [tag |-> t, request |-> r, expiresAt |-> now + TokenTTL])
    /\ tokens' = tokens \cup {Len(issued) + 1}
    /\ UNCHANGED <<now, policy, history, audit, register, written, attempt>>

Stale(token) == now > issued[token].expiresAt

(* Mutant of Confirms: a token is bound to its tag only.                   *)
ConfirmsTag(token, name, r) ==
    /\ token \in tokens
    /\ ~Stale(token)
    /\ issued[token].tag = name

(* What _consume_token accepts.                                            *)
Confirms(token, name, r) ==
    /\ token \in tokens
    /\ ~Stale(token)
    /\ issued[token].tag = name
    /\ issued[token].request = r

(* The tokens that are left when one is presented in vain.                 *)
AfterRefusal(token) ==
    IF token \in tokens /\ Stale(token) THEN tokens \ {token} ELSE tokens

(* Mutants of AfterUse: the token is not spent; the token presented is put *)
(* back, even when there was none.                                         *)
AfterUseKept(token, name) == tokens

AfterUseBack(token, name) == tokens \cup {token}

(* The tokens that are left when the confirmation gate has let name pass.  *)
AfterUse(token, name) ==
    IF name \in policy.confirm THEN tokens \ {token} ELSE tokens

-----------------------------------------------------------------------------
(* The gates of _check, in their order                                     *)

Listed(name) == ~policy.readOnly /\ name \in policy.allowList

Confirmed(name, r, token) == name \in policy.confirm => Confirms(token, name, r)

(* Mutants of Recent: a write exactly one window old is not counted; a     *)
(* write is counted for one second too long.                               *)
RecentOffByOne(t) == DroppedBefore(history[t], now - Window + 1)

RecentTooLong(t) == DroppedBefore(history[t], now - Window - 1)

(* _check_rate forgets the writes behind its horizon.                      *)
Recent(t) == DroppedBefore(history[t], now - Window)

UnderRate(t) == Len(Recent(t)) < MaxWrites

InRange(t, x) == Lowest[t] <= x /\ x <= Highest[t]

(* Booleans, and values for bits, are not compared with the range.         *)
Unranged(t, r) == r.bool \/ t \in Bits

Clamped(t, x) == IF x < Lowest[t] THEN Lowest[t] ELSE IF x > Highest[t] THEN Highest[t] ELSE x

(* Mutant of Applied: the range is not applied to the value sent.          *)
AppliedAsAsked(t, r) == r.value

(* The value that will be sent.                                            *)
Applied(t, r) ==
    CASE t \in Bits             -> IF r.value = 0 THEN 0 ELSE 1
      [] t \notin Bits /\ r.bool  -> r.value
      [] t \notin Bits /\ ~r.bool -> Clamped(t, r.value)

Allowed(t, r) == Unranged(t, r) \/ InRange(t, r.value) \/ policy.clamp

-----------------------------------------------------------------------------
(* check and apply                                                         *)

(* Mutant of Audited: only accepted writes are recorded.                   *)
AuditedAcceptance(name, r, applied, accepted) ==
    audit' = IF accepted
             THEN Newest(Append(audit, [timestamp |-> now, tag |-> name, requested |-> r,
                                        applied |-> applied, accepted |-> TRUE]), AuditLimit)
             ELSE audit

Audited(name, r, applied, accepted) ==
    audit' = Newest(Append(audit, [timestamp |-> now, tag |-> name, requested |-> r,
                                   applied |-> applied, accepted |-> accepted]), AuditLimit)

Attempted(name, r, outcome) ==
    attempt' = [tag |-> name, request |-> r, outcome |-> outcome]

(* ReadOnlyModeError, NotAllowListedError.                                 *)
RefuseUnlisted(name, r) ==
    /\ ~Listed(name)
    /\ Audited(name, r, None, FALSE)
    /\ Attempted(name, r, "unlisted")
    /\ UNCHANGED <<now, policy, tokens, issued, history, register, written>>

(* The database raises a TagError, which check does not catch.             *)
FailUnknown(name, r) ==
    /\ Listed(name)
    /\ name \notin Tags
    /\ Attempted(name, r, "unknown")
    /\ UNCHANGED <<now, policy, tokens, issued, history, audit, register, written>>

(* NotWritableError.                                                       *)
RefuseReadOnlyTag(name, r) ==
    /\ Listed(name) /\ name \in Tags
    /\ name \notin Writable
    /\ Audited(name, r, None, FALSE)
    /\ Attempted(name, r, "not_writable")
    /\ UNCHANGED <<now, policy, tokens, issued, history, register, written>>

(* ConfirmationRequiredError, InvalidTokenError.  An expired token goes.   *)
RefuseUnconfirmed(name, r, token) ==
    /\ Listed(name) /\ name \in Writable
    /\ ~Confirmed(name, r, token)
    /\ tokens' = AfterRefusal(token)
    /\ Audited(name, r, None, FALSE)
    /\ Attempted(name, r, "unconfirmed")
    /\ UNCHANGED <<now, policy, issued, history, register, written>>

(* RateLimitedError, after the token has been spent.                       *)
RefuseByRate(name, r, token) ==
    /\ Listed(name) /\ name \in Writable /\ Confirmed(name, r, token)
    /\ ~UnderRate(name)
    /\ tokens' = AfterUse(token, name)
    /\ history' = [history EXCEPT ![name] = Recent(name)]
    /\ Audited(name, r, None, FALSE)
    /\ Attempted(name, r, "rate_limited")
    /\ UNCHANGED <<now, policy, issued, register, written>>

(* OutOfRangeError, after the token has been spent.                        *)
RefuseByRange(name, r, token) ==
    /\ Listed(name) /\ name \in Writable /\ Confirmed(name, r, token) /\ UnderRate(name)
    /\ ~Allowed(name, r)
    /\ tokens' = AfterUse(token, name)
    /\ history' = [history EXCEPT ![name] = Recent(name)]
    /\ Audited(name, r, None, FALSE)
    /\ Attempted(name, r, "out_of_range")
    /\ UNCHANGED <<now, policy, issued, register, written>>

(* check returns.  The caller may do nothing with the approval, or apply   *)
(* sends the value and the driver writes it or raises; the write is in the *)
(* audit trail and counts for the rate in every case.                      *)
Accept(name, r, token) ==
    /\ Listed(name) /\ name \in Writable /\ Confirmed(name, r, token) /\ UnderRate(name)
    /\ Allowed(name, r)
    /\ tokens' = AfterUse(token, name)
    /\ history' = [history EXCEPT ![name] = Newest(Append(Recent(name), now), HistoryDepth)]
    /\ Audited(name, r, Applied(name, r), TRUE)
    /\ written' = [written EXCEPT ![name] =
                     Append(@, [at |-> now, request |-> r, applied |-> Applied(name, r),
                                confirmed |-> name \in policy.confirm,
                                token |-> IF name \in policy.confirm THEN token ELSE None])]
    /\ \/ register' = [register EXCEPT ![name] = Applied(name, r)]
       \/ register' = register
    /\ Attempted(name, r, "accepted")
    /\ UNCHANGED <<now, policy, issued>>

Check(name, r, token) ==
    \/ RefuseUnlisted(name, r)
    \/ FailUnknown(name, r)
    \/ RefuseReadOnlyTag(name, r)
    \/ RefuseUnconfirmed(name, r, token)
    \/ RefuseByRate(name, r, token)
    \/ RefuseByRange(name, r, token)
    \/ Accept(name, r, token)

(* guard.policy = guard.policy.allowing(A): writes are turned on.          *)
TurnOn(A) ==
    /\ policy' = [policy EXCEPT !.readOnly = FALSE, !.allowList = A]
    /\ UNCHANGED <<now, tokens, issued, history, audit, register, written, attempt>>

Tick ==
    /\ now < MaxTime
    /\ now' = now + 1
    /\ UNCHANGED <<policy, tokens, issued, history, audit, register, written, attempt>>

Presented == DOMAIN issued \cup {None}

Next ==
    \/ \E t \in Tags, r \in Requests : IssueToken(t, r)
    \/ \E n \in Names, r \in Requests, k \in Presented : Check(n, r, k)
    \/ \E A \in AllowLists : TurnOn(A)
    \/ Tick

Spec == Init /\ [][Next]_vars

-----------------------------------------------------------------------------
(* Properties                                                              *)

AcceptedWrite ==
    [at : Nat, request : Request, applied : Int, confirmed : BOOLEAN, token : Nat \cup {None}]

TypeOK ==
    /\ now \in Nat
    /\ policy \in WritePolicy
    /\ issued \in Seq(Token)
    /\ tokens \subseteq DOMAIN issued
    /\ history \in [Tags -> Seq(Nat)]
    /\ audit \in Seq(AuditEntry)
    /\ register \in [Tags -> Int]
    /\ written \in [Tags -> Seq(AcceptedWrite)]

(* "A bounded number of writes per tag per window": in no stretch of time  *)
(* as long as the window, wherever it starts, are more than MaxWrites      *)
(* writes of a tag accepted (_check_rate, _record_rate).                   *)
RateHeld ==
    \A t \in Tags : \A i \in DOMAIN written[t] :
        i > MaxWrites => written[t][i].at > written[t][i - MaxWrites].at + Window

(* The rate limit never refuses a write without cause: a tag whose window  *)
(* is full has the limit's worth of accepted writes in it, so refused      *)
(* attempts do not prolong the refusals and the window always reopens.     *)
RefusedOnlyWhenFull ==
    \A t \in Tags : ~UnderRate(t) =>
        /\ Len(written[t]) >= MaxWrites
        /\ \A i \in DOMAIN written[t] :
              i > Len(written[t]) - MaxWrites => written[t][i].at >= now - Window

Confirmations(t) == {i \in DOMAIN written[t] : written[t][i].confirmed}

(* "A token is single-use, bound to the value, and expires": each accepted *)
(* write of a critical tag had a token of its own, issued for that tag and *)
(* exactly that value, not expired, and spent for good.                    *)
ConfirmedOnce ==
    /\ \A t \in Tags : \A i \in Confirmations(t) :
          LET w == written[t][i] IN
          /\ w.token \in DOMAIN issued \ tokens
          /\ issued[w.token].tag = t
          /\ issued[w.token].request = w.request
          /\ w.at <= issued[w.token].expiresAt
    /\ \A t, u \in Tags : \A i \in Confirmations(t), j \in Confirmations(u) :
          written[t][i].token = written[u][j].token => t = u /\ i = j

Distance(x, y) == IF x >= y THEN x - y ELSE y - x

(* A number is never sent as something the range excludes, and is changed  *)
(* no more than that takes; a refused one is not sent (_check, clamp).     *)
NumbersAreClamped ==
    \A t \in Tags \ Bits : \A i \in DOMAIN written[t] :
        LET w == written[t][i] IN
        ~w.request.bool =>
            /\ InRange(t, w.applied)
            /\ \A x \in Lowest[t] .. Highest[t] :
                  Distance(w.applied, w.request.value) <= Distance(x, w.request.value)

(* Every call of check that names a tag of the database, or none allowed,  *)
(* is the newest entry of the audit trail, with its value and verdict.     *)
AuditTellsAttempt ==
    attempt # None /\ attempt.outcome # "unknown" =>
        /\ audit # <<>>
        /\ LET e == audit[Len(audit)] IN
           /\ e.tag = attempt.tag /\ e.requested = attempt.request
           /\ e.accepted <=> attempt.outcome = "accepted"

(* "Audit log. Every attempt, accepted or refused."  A listed name that    *)
(* the database does not know escapes check's handler, so this fails.      *)
EveryAttemptAudited ==
    attempt # None =>
        audit # <<>> /\ audit[Len(audit)].tag = attempt.tag
=============================================================================
