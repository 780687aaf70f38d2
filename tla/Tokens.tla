-------------------------------- MODULE Tokens --------------------------------
(***************************************************************************)
(* The authentication token of one user: the cache of tokens               *)
(* (AuthTokenIdentityManager), its look-ups when a request is              *)
(* authenticated, when its answer is given a token                         *)
(* (AuthTokenInjecterHandler), and its removal (AuthTokenHandler).         *)
(*                                                                         *)
(* Tokens are numbered as they are issued, 0 is none.  An entry of the     *)
(* cache expires Ttl after it was last read or written.                    *)
(***************************************************************************)
EXTENDS Naturals

CONSTANTS
  Thread,      \* the threads that serve requests
  Ttl,         \* auth-token-ttl
  MaxTokens, MaxNow,   \* bounds
  Password     \* the credential that is no token

VARIABLES
  token,       \* the token cached last, or 0
  touched,     \* when its entry was read or written last
  issued,      \* the tokens issued so far
  thread,      \* thread[t]: where it is, its credential, the token it has read and when
  now,
  \* History.
  stated,      \* stated[k]: until when token k is valid, by the answers so far
  refused,     \* the tokens that were refused before that
  revoked,     \* those removed by a DELETE or lost in a restart
  raced,       \* those stored while another request was about to store one
  slow         \* those whose answer was made out later than they were read

history == <<stated, refused, revoked, raced, slow>>
vars == <<token, touched, issued, thread, now, history>>

Token == 1..MaxTokens
Credential == Token \cup {0, Password}

\* A credential is kept until it is found right.
At(place, c, k, time) == [at |-> place, credential |-> c, token |-> k, read |-> time]
Idle == At("idle", 0, 0, 0)
Goto(t, q) == thread' = [thread EXCEPT ![t] = q]
End(t) == Goto(t, Idle)

Init ==
  /\ token = 0 /\ touched = 0 /\ issued = 0 /\ now = 0
  /\ thread = [t \in Thread |-> Idle]
  /\ stated = [k \in Token |-> 0]
  /\ refused = {} /\ revoked = {} /\ raced = {} /\ slow = {}

-----------------------------------------------------------------------------
(* The cache.                                                              *)

Cached == IF now < touched + Ttl THEN token ELSE 0

\* A mutation of Touch: the entry expires Ttl after it was written.
TouchNothing == touched' = touched
Touch == touched' = IF Cached = 0 THEN touched ELSE now

\* A credential is refused.
Refuse(c) == refused' = refused \cup {k \in Token : k = c /\ now < stated[k]}

-----------------------------------------------------------------------------
(* A request.                                                              *)

\* What is no token of the user's is tried as the password.
OnlyPassword(t, c) ==
  IF c = Password
  THEN Goto(t, At("inject", 0, 0, 0)) /\ UNCHANGED refused
  ELSE End(t) /\ Refuse(c)

\* verify: is there a token at all?
Verify(t, c) ==
  /\ thread[t].at = "idle"
  /\ Touch
  /\ IF Cached = 0
     THEN OnlyPassword(t, c)
     ELSE Goto(t, At("compare", c, 0, 0)) /\ UNCHANGED refused
  /\ UNCHANGED <<token, issued, now, stated, revoked, raced, slow>>

\* verifyToken looks it up again, and throws if it has gone.
VerifyToken(t) ==
  /\ thread[t].at = "compare"
  /\ Touch
  /\ LET c == thread[t].credential IN
     IF Cached = 0
     THEN End(t) /\ Refuse(c)
     ELSE IF Cached = c
     THEN Goto(t, At("inject", 0, 0, 0)) /\ UNCHANGED refused
     ELSE OnlyPassword(t, c)
  /\ UNCHANGED <<token, issued, now, stated, revoked, raced, slow>>

\* cacheSessionToken: the token there is, or none yet.
CacheSessionToken(t) ==
  /\ thread[t].at = "inject"
  /\ Touch
  /\ Goto(t, At(IF Cached = 0 THEN "put" ELSE "answer", 0, Cached, now))
  /\ UNCHANGED <<token, issued, now, history>>

Put(t) ==
  /\ thread[t].at = "put" /\ issued < MaxTokens
  /\ issued' = issued + 1
  /\ token' = issued' /\ touched' = now
  /\ raced' = raced \cup {k \in {issued'} : \E u \in Thread \ {t} : thread[u].at = "put"}
  /\ Goto(t, At("answer", 0, issued', now))
  /\ UNCHANGED <<now, stated, refused, revoked, slow>>

\* injectTokenHeaders: the token, valid for Ttl from now on.
InjectTokenHeaders(t) ==
  /\ thread[t].at = "answer"
  /\ LET k == thread[t].token IN
     /\ stated' = [stated EXCEPT ![k] = now + Ttl]
     /\ slow' = slow \cup {j \in {k} : thread[t].read < now}
  /\ End(t)
  /\ UNCHANGED <<token, touched, issued, now, refused, revoked, raced>>

\* DELETE: whatever token there is by now is removed, and none is answered.
Invalidate(t) ==
  /\ thread[t].at = "answer"
  /\ token' = 0
  /\ revoked' = revoked \cup ({token} \ {0})
  /\ End(t)
  /\ UNCHANGED <<touched, issued, now, stated, refused, raced, slow>>

-----------------------------------------------------------------------------
Tick ==
  /\ now < MaxNow /\ now' = now + 1
  /\ UNCHANGED <<token, touched, issued, thread, history>>

\* The cache is in memory only.
Restart ==
  /\ token' = 0 /\ thread' = [t \in Thread |-> Idle]
  /\ revoked' = 1..issued
  /\ UNCHANGED <<touched, issued, now, stated, refused, raced, slow>>

Next ==
  \/ \E t \in Thread :
       \/ \E c \in {Password} \cup 1..issued : Verify(t, c)
       \/ VerifyToken(t) \/ CacheSessionToken(t) \/ Put(t)
       \/ InjectTokenHeaders(t) \/ Invalidate(t)
  \/ Tick \/ Restart

Spec == Init /\ [][Next]_vars

-----------------------------------------------------------------------------
TypeOK ==
  /\ token \in 0..MaxTokens /\ touched \in 0..MaxNow /\ issued \in 0..MaxTokens /\ now \in 0..MaxNow
  /\ thread \in [Thread -> [at : {"idle", "compare", "inject", "put", "answer"},
                            credential : Credential, token : 0..MaxTokens, read : 0..MaxNow]]
  /\ stated \in [Token -> 0..MaxNow + Ttl]
  /\ {refused, revoked, raced, slow} \subseteq SUBSET Token

\* A token is accepted until the time its answers state
\* (AuthTokenInjecterHandler.java:78), unless it was revoked or lost in a restart,
\* another request was about to store one when it was stored, or time has passed
\* between its look-up and its answer.
TokensHonoured == refused \subseteq revoked \cup raced \cup slow
-----------------------------------------------------------------------------
(* The inductive invariant.                                                *)

\* Nothing is known of tokens that were never issued.
OnlyIssued ==
  /\ token <= issued /\ touched <= now /\ revoked \subseteq 1..issued
  /\ \A k \in Token : k > issued => stated[k] = 0
  /\ \A t \in Thread : thread[t].at = "answer" =>
       thread[t].token \in 1..issued /\ thread[t].read <= now

\* A token that is still valid by its answers is cached, for as long as they said.
StatedIsCached ==
  \A k \in Token \ (revoked \cup raced \cup slow) :
    now < stated[k] => token = k /\ stated[k] <= touched + Ttl

\* So is one that is about to be answered, if no time has passed since it was read.
ReadIsCached ==
  \A t \in Thread :
    /\ thread[t].at = "answer" /\ thread[t].read = now
    /\ thread[t].token \notin revoked \cup raced
    => token = thread[t].token /\ touched = now

\* Who is about to store a token found none: what is cached has expired, or was
\* stored in a race.
StorerFoundNone ==
  (\E t \in Thread : thread[t].at = "put") => Cached \in raced \cup {0}

TokenInv ==
  /\ TypeOK /\ OnlyIssued /\ StatedIsCached /\ ReadIsCached /\ StorerFoundNone
  /\ TokensHonoured
=============================================================================
