--------------------------- MODULE AccountsProofs ---------------------------
(***************************************************************************)
(* Accounts: sessions and the roles of administrators.                        *)
(***************************************************************************)
EXTENDS Sessions, Roles, SequenceTheorems, TLAPS

-----------------------------------------------------------------------------
(***************************************************************************)
(* Proofs about Sessions for any number of accounts, devices, requests at     *)
(* once, tokens and letters.  The invariant has a side about tokens, cookies  *)
(* and the requests that will write them, and a side about letters; each is   *)
(* shown to survive the few kinds of effect that the operations have on it.   *)
(***************************************************************************)

AccountInv == account \in [Users -> Accounts] /\ sent \in 0 .. MaxRequests

\* A device's cookie is a token, and no family or branch is younger than its
\* tokens.
TokenInv == /\ tokens \in Seq(RefreshTokens) /\ Len(tokens) <= MaxTokens
            /\ cookie \in [Devices -> 0 .. MaxTokens]
            /\ \A d \in Devices : cookie[d] # 0 => cookie[d] \in DOMAIN tokens
            /\ \A t \in DOMAIN tokens : tokens[t].family <= t /\ tokens[t].branch <= t
            /\ condemned \subseteq DOMAIN tokens
            /\ lost \subseteq Devices

TokenOps == {"rotate", "reuse", "refused", "expired", "logout"}
DeviceOps == {"register", "login", "rotate", "logout", "logout_all", "change"}

\* A request about a token has one, and one that answers with a cookie a device;
\* a rotation had read a token that was not revoked.
CallInv == /\ calls \in [Calls -> Requests]
           /\ \A c \in Calls :
                 /\ calls[c].op \in TokenOps => calls[c].item \in DOMAIN tokens
                 /\ calls[c].op \in DeviceOps => calls[c].device \in Devices
                 /\ calls[c].op = "rotate" => ~calls[c].dead

\* No two devices hold the same token, and a token that is being rotated is
\* held by the device that asked, or by none.
CookieInv == /\ \A d, e \in Devices : cookie[d] # 0 /\ cookie[d] = cookie[e] => d = e
             /\ \A c \in Calls, d \in Devices :
                   calls[c].op = "rotate" /\ cookie[d] = calls[c].item
                       => calls[c].device = d

TokenSide == /\ TokenInv /\ CallInv /\ CookieInv /\ OneLiveTokenPerBranch
             /\ RevocationReachesAll /\ StaysSignedIn

LetterInv == /\ letters \in Seq(Letters) /\ Len(letters) <= MaxLetters
             /\ spent \subseteq DOMAIN letters

LetterSide == LetterInv /\ SpentTogether

SessionInv == AccountInv /\ TokenSide /\ LetterSide

-----------------------------------------------------------------------------
(* The requests.                                                            *)

(* A request that ends is idle; the others are as they were.                 *)
LEMMA FinishShape ==
    ASSUME CallInv, NEW c \in Calls, Finish(c)
    PROVE  /\ calls' \in [Calls -> Requests]
           /\ \A e \in Calls : \/ calls'[e] = calls[e] /\ e # c
                               \/ calls'[e].op = "idle"
           /\ sent' = sent
  <1> DEFINE none == [op |-> "idle", device |-> NoDevice, user |-> Me(c).user,
                      item |-> 0, dead |-> FALSE, loaded |-> NewAccount]
  <1>1. calls' = [calls EXCEPT ![c] = none] /\ sent' = sent
    BY DEF Finish
  <1>2. Me(c).user \in Users /\ NewAccount \in Accounts
    <2>1. calls[c] \in Requests
      BY DEF CallInv
    <2> QED
      BY <2>1, SessionsAssumption DEF Me, Requests, NewAccount, Accounts, Locks
  <1>3. none \in Requests /\ none.op = "idle"
    BY <1>2, SessionsAssumption DEF Requests
  <1> HIDE DEF none
  <1> QED
    BY <1>1, <1>3 DEF CallInv

(* What a request that begins puts on record.                                *)
LEMMA BeginShape ==
    ASSUME AccountInv, CallInv, NEW c \in Calls, NEW op \in Writing \cup Mailing,
           NEW d \in Devices \cup {NoDevice}, NEW u \in Users,
           NEW i \in 0 .. (MaxTokens + MaxLetters), Begin(c, op, d, u, i)
    PROVE  /\ calls[c].op = "idle"
           /\ calls' \in [Calls -> Requests]
           /\ calls'[c].op = op /\ calls'[c].device = d /\ calls'[c].item = i
           /\ calls'[c].dead = (op = "rotate" /\ tokens[i].state = "revoked")
           /\ \A e \in Calls : e # c => calls'[e] = calls[e]
           /\ sent' \in 0 .. MaxRequests
           /\ UNCHANGED <<account, tokens, letters, cookie, condemned, spent, lost>>
  <1> DEFINE loaded == IF op \in WithAccount THEN account[u] ELSE NewAccount
             dead == op = "rotate" /\ tokens[i].state = "revoked"
             request == [op |-> op, device |-> d, user |-> u, item |-> i,
                         dead |-> dead, loaded |-> loaded]
  <1>1. calls' = [calls EXCEPT ![c] = request]
    BY DEF Begin
  <1>2. loaded \in Accounts
    <2>1. NewAccount \in Accounts
      BY SessionsAssumption DEF NewAccount, Accounts, Locks
    <2> QED
      BY <2>1 DEF AccountInv
  <1> HIDE DEF loaded
  <1>3. dead \in BOOLEAN
    OBVIOUS
  <1> HIDE DEF dead
  <1>4. /\ request \in Requests
        /\ request.op = op /\ request.device = d /\ request.item = i
        /\ request.dead = dead
    BY <1>2, <1>3 DEF Requests
  <1> HIDE DEF request
  <1>5. sent' \in 0 .. MaxRequests
    BY SessionsAssumption DEF Begin, AccountInv
  <1> QED
    BY <1>1, <1>4, <1>5 DEF Begin, CallInv, dead

(* A request begins: a rotation reads a live token, held by its device.      *)
LEMMA BeginKeeps ==
    ASSUME SessionInv, NEW c \in Calls, NEW op \in Writing \cup Mailing,
           NEW d \in Devices \cup {NoDevice}, NEW u \in Users,
           NEW i \in 0 .. (MaxTokens + MaxLetters), Begin(c, op, d, u, i),
           op \in TokenOps => i \in DOMAIN tokens,
           op \in DeviceOps => d \in Devices,
           op = "rotate" => i # 0 /\ cookie[d] = i /\ tokens[i].state = "live"
    PROVE  SessionInv'
  <1>1. AccountInv /\ CallInv
    BY DEF SessionInv, TokenSide
  <1>2. /\ calls[c].op = "idle"
        /\ calls' \in [Calls -> Requests]
        /\ calls'[c].op = op /\ calls'[c].device = d /\ calls'[c].item = i
        /\ calls'[c].dead = (op = "rotate" /\ tokens[i].state = "revoked")
        /\ \A e \in Calls : e # c => calls'[e] = calls[e]
        /\ sent' \in 0 .. MaxRequests
    BY <1>1, BeginShape
  <1>3. /\ account' = account /\ tokens' = tokens /\ letters' = letters
        /\ cookie' = cookie /\ condemned' = condemned /\ spent' = spent /\ lost' = lost
    BY <1>1, BeginShape
  <1>4. AccountInv' /\ LetterSide'
    BY <1>2, <1>3 DEF SessionInv, AccountInv, LetterSide, LetterInv, SpentTogether
  <1>5. TokenInv' /\ RevocationReachesAll' /\ StaysSignedIn'
    BY <1>3 DEF SessionInv, TokenSide, TokenInv, RevocationReachesAll, StaysSignedIn
  <1>6. CallInv'
    BY <1>1, <1>2, <1>3 DEF CallInv
  <1>7. CookieInv'
    <2>1. \A e \in Devices : op = "rotate" /\ cookie[e] = i => d = e
      BY DEF SessionInv, TokenSide, CookieInv, DeviceOps
    <2> QED
      BY <1>2, <1>3, <2>1 DEF SessionInv, TokenSide, CookieInv
  <1>8. OneLiveTokenPerBranch'
    BY <1>3 DEF SessionInv, TokenSide, OneLiveTokenPerBranch
  <1> QED
    BY <1>4, <1>5, <1>6, <1>7, <1>8 DEF SessionInv, TokenSide

-----------------------------------------------------------------------------
(* The tokens.                                                              *)

(* Tokens age and are revoked, cookies are cleared and requests end, but no  *)
(* token is created.                                                        *)
LEMMA TokensFade ==
    ASSUME TokenSide,
           tokens' \in Seq(RefreshTokens), Len(tokens') = Len(tokens),
           \A t \in DOMAIN tokens :
              /\ tokens'[t].family = tokens[t].family
              /\ tokens'[t].branch = tokens[t].branch
              /\ tokens[t].state = "revoked" => tokens'[t].state = "revoked"
              /\ tokens'[t].state = "revoked" => tokens[t].state = "revoked" \/ t \in condemned',
           condemned \subseteq condemned', condemned' \subseteq DOMAIN tokens,
           \A t \in condemned' \ condemned : tokens'[t].state = "revoked",
           cookie' \in [Devices -> 0 .. MaxTokens],
           \A d \in Devices : cookie'[d] = cookie[d] \/ cookie'[d] = 0,
           lost' = lost,
           calls' \in [Calls -> Requests],
           \A e \in Calls : calls'[e] = calls[e] \/ calls'[e].op = "idle"
    PROVE  TokenSide'
  <1>1. DOMAIN tokens' = DOMAIN tokens
    BY DEF TokenSide, TokenInv
  <1>2. TokenInv'
    BY <1>1 DEF TokenSide, TokenInv
  <1>3. CallInv'
    BY <1>1 DEF TokenSide, CallInv, TokenOps, DeviceOps
  <1>4. CookieInv'
    <2>1. \A d, e \in Devices : cookie'[d] # 0 /\ cookie'[d] = cookie'[e] => d = e
      BY DEF TokenSide, CookieInv
    <2>2. ASSUME NEW c \in Calls, NEW d \in Devices,
                 calls'[c].op = "rotate", cookie'[d] = calls'[c].item
          PROVE  calls'[c].device = d
      <3>1. calls'[c] = calls[c]
        BY <2>2
      <3>2. calls[c].item \in DOMAIN tokens /\ calls[c].item # 0
        <4>1. calls[c].item \in DOMAIN tokens
          BY <2>2, <3>1 DEF TokenSide, CallInv, TokenOps
        <4>2. 0 \notin DOMAIN tokens
          BY DEF TokenSide, TokenInv
        <4> QED
          BY <4>1, <4>2
      <3>3. cookie'[d] = cookie[d]
        BY <2>2, <3>1, <3>2
      <3> QED
        BY <2>2, <3>1, <3>3 DEF TokenSide, CookieInv
    <2> QED
      BY <2>1, <2>2 DEF CookieInv
  <1>5. RevocationReachesAll'
    <2>1. \A t \in condemned : t \in DOMAIN tokens /\ tokens[t].state = "revoked"
      BY DEF TokenSide, TokenInv, RevocationReachesAll
    <2> QED
      BY <2>1 DEF RevocationReachesAll
  <1>6. StaysSignedIn'
    <2>1. ASSUME NEW d \in Devices \ lost, cookie'[d] # 0, tokens'[cookie'[d]].state = "revoked"
          PROVE  cookie'[d] \in condemned'
      <3>1. cookie'[d] = cookie[d] /\ cookie[d] # 0 /\ cookie[d] \in DOMAIN tokens
        BY <2>1 DEF TokenSide, TokenInv
      <3> QED
        BY <2>1, <3>1 DEF TokenSide, StaysSignedIn
    <2> QED
      BY <2>1 DEF StaysSignedIn
  <1>7. OneLiveTokenPerBranch'
    BY <1>1 DEF TokenSide, OneLiveTokenPerBranch
  <1> QED
    BY <1>2, <1>3, <1>4, <1>5, <1>6, <1>7 DEF TokenSide

(* What revoking does to the tokens.                                        *)
LEMMA RevokeShape ==
    ASSUME TokenInv, NEW S
    PROVE  /\ Revoke(S) \in Seq(RefreshTokens) /\ Len(Revoke(S)) = Len(tokens)
           /\ DOMAIN Revoke(S) = DOMAIN tokens
           /\ \A t \in DOMAIN tokens :
                 /\ Revoke(S)[t].user = tokens[t].user
                 /\ Revoke(S)[t].family = tokens[t].family
                 /\ Revoke(S)[t].branch = tokens[t].branch
                 /\ t \in S => Revoke(S)[t].state = "revoked"
                 /\ t \notin S => Revoke(S)[t].state = tokens[t].state
  <1> DEFINE New(t) == [tokens[t] EXCEPT !.state = IF t \in S THEN "revoked" ELSE @]
  <1>1. Len(tokens) \in Nat /\ DOMAIN tokens = 1 .. Len(tokens)
    BY DEF TokenInv
  <1>2. \A t \in 1 .. Len(tokens) : tokens[t] \in RefreshTokens
    BY <1>1 DEF TokenInv
  <1>3. \A t \in 1 .. Len(tokens) :
           /\ New(t) \in RefreshTokens
           /\ New(t).user = tokens[t].user /\ New(t).family = tokens[t].family
           /\ New(t).branch = tokens[t].branch
           /\ t \in S => New(t).state = "revoked"
           /\ t \notin S => New(t).state = tokens[t].state
    BY <1>2 DEF RefreshTokens
  <1>4. Revoke(S) = [t \in 1 .. Len(tokens) |-> New(t)]
    BY <1>1 DEF Revoke
  <1> HIDE DEF New
  <1>5. Revoke(S) \in [1 .. Len(tokens) -> RefreshTokens]
    BY <1>3, <1>4
  <1>6. Revoke(S) \in Seq(RefreshTokens) /\ Len(Revoke(S)) = Len(tokens)
    BY <1>1, <1>5
  <1> QED
    BY <1>1, <1>3, <1>4, <1>6

(* A request ends that condemns tokens: those that existed are revoked.      *)
LEMMA EndsRevoking ==
    ASSUME TokenSide, NEW c \in Calls, Finish(c), NEW S \in SUBSET DOMAIN tokens,
           tokens' = Revoke(S), condemned' = condemned \cup S, lost' = lost,
           cookie' = cookie \/ \E d \in Devices : cookie' = [cookie EXCEPT ![d] = 0]
    PROVE  TokenSide'
  <1>1. TokenInv /\ CallInv
    BY DEF TokenSide
  <1>2. /\ tokens' \in Seq(RefreshTokens) /\ Len(tokens') = Len(tokens)
        /\ \A t \in DOMAIN tokens :
              /\ tokens'[t].family = tokens[t].family
              /\ tokens'[t].branch = tokens[t].branch
              /\ t \in S => tokens'[t].state = "revoked"
              /\ t \notin S => tokens'[t].state = tokens[t].state
    BY <1>1, RevokeShape
  <1>3. /\ calls' \in [Calls -> Requests]
        /\ \A e \in Calls : calls'[e] = calls[e] \/ calls'[e].op = "idle"
    BY <1>1, FinishShape
  <1>4. /\ cookie' \in [Devices -> 0 .. MaxTokens]
        /\ \A d \in Devices : cookie'[d] = cookie[d] \/ cookie'[d] = 0
    BY <1>1, SessionsAssumption DEF TokenInv
  <1>5. condemned \subseteq condemned' /\ condemned' \subseteq DOMAIN tokens
    BY <1>1 DEF TokenInv
  <1> QED
    BY <1>2, <1>3, <1>4, <1>5, TokensFade

(* A request ends that has nothing to do with tokens.                        *)
LEMMA EndsQuietly ==
    ASSUME TokenSide, NEW c \in Calls, Finish(c),
           UNCHANGED <<tokens, cookie, condemned, lost>>
    PROVE  TokenSide'
  <1>1. TokenInv /\ CallInv
    BY DEF TokenSide
  <1>2. /\ calls' \in [Calls -> Requests]
        /\ \A e \in Calls : calls'[e] = calls[e] \/ calls'[e].op = "idle"
    BY <1>1, FinishShape
  <1> QED
    BY <1>1, <1>2, TokensFade DEF TokenInv

(* A token is created at the end of the table, after some were revoked.       *)
LEMMA AppendShape ==
    ASSUME TokenInv, Len(tokens) < MaxTokens, NEW S, NEW u \in Users,
           NEW f \in 1 .. Len(tokens) + 1, NEW b \in 1 .. Len(tokens) + 1,
           tokens' = Append(Revoke(S), NewToken(u, f, b))
    PROVE  /\ tokens' \in Seq(RefreshTokens) /\ Len(tokens') = Len(tokens) + 1
           /\ Len(tokens) \in Nat /\ DOMAIN tokens = 1 .. Len(tokens)
           /\ DOMAIN tokens' = 1 .. Len(tokens) + 1
           /\ \A t \in DOMAIN tokens :
                 /\ tokens'[t].family = tokens[t].family
                 /\ tokens'[t].branch = tokens[t].branch
                 /\ t \in S => tokens'[t].state = "revoked"
                 /\ t \notin S => tokens'[t].state = tokens[t].state
           /\ tokens'[Len(tokens) + 1].family = f
           /\ tokens'[Len(tokens) + 1].branch = b
           /\ tokens'[Len(tokens) + 1].state = "live"
  <1> DEFINE token == NewToken(u, f, b)
  <1>1. Len(tokens) \in Nat /\ DOMAIN tokens = 1 .. Len(tokens)
    BY DEF TokenInv
  <1>2. /\ token \in RefreshTokens
        /\ token.family = f /\ token.branch = b /\ token.state = "live"
    BY <1>1, SessionsAssumption DEF RefreshTokens, NewToken
  <1> HIDE DEF token
  <1>3. /\ Revoke(S) \in Seq(RefreshTokens) /\ Len(Revoke(S)) = Len(tokens)
        /\ \A t \in DOMAIN tokens :
              /\ Revoke(S)[t].family = tokens[t].family
              /\ Revoke(S)[t].branch = tokens[t].branch
              /\ t \in S => Revoke(S)[t].state = "revoked"
              /\ t \notin S => Revoke(S)[t].state = tokens[t].state
    BY RevokeShape
  <1>4. tokens' = Append(Revoke(S), token)
    BY DEF token
  <1>5. /\ tokens' \in Seq(RefreshTokens) /\ Len(tokens') = Len(tokens) + 1
        /\ \A t \in 1 .. Len(tokens) : tokens'[t] = Revoke(S)[t]
        /\ tokens'[Len(tokens) + 1] = token
    BY <1>2, <1>3, <1>4, AppendProperties
  <1>6. DOMAIN tokens' = 1 .. Len(tokens) + 1
    BY <1>1, <1>5
  <1> QED
    BY <1>1, <1>2, <1>3, <1>5, <1>6

(* Tokens are records with a family that is a natural number.                *)
LEMMA TokenRecords ==
    ASSUME TokenInv
    PROVE  \A t \in DOMAIN tokens :
              /\ tokens[t] \in RefreshTokens
              /\ tokens[t].family \in Nat \ {0} /\ tokens[t].family <= t
              /\ tokens[t].branch \in Nat \ {0} /\ tokens[t].branch <= t
              /\ t \in Nat /\ t <= Len(tokens)
  <1>1. \A t \in DOMAIN tokens : tokens[t] \in RefreshTokens /\ t \in 1 .. Len(tokens)
    BY DEF TokenInv
  <1>2. \A r \in RefreshTokens : r.family \in Nat \ {0} /\ r.branch \in Nat \ {0}
    BY SessionsAssumption DEF RefreshTokens
  <1>3. Len(tokens) \in Nat
    BY DEF TokenInv
  <1> QED
    BY <1>1, <1>2, <1>3 DEF TokenInv

(* Revoking nothing changes nothing.                                        *)
LEMMA RevokeNothing ==
    ASSUME TokenInv
    PROVE  Revoke({}) = tokens
  <1>1. \A t \in DOMAIN tokens : [tokens[t] EXCEPT !.state = tokens[t].state] = tokens[t]
    <2>1. \A r \in RefreshTokens : [r EXCEPT !.state = r.state] = r
      BY DEF RefreshTokens
    <2> QED
      BY <2>1, TokenRecords
  <1>2. Revoke({}) = [t \in DOMAIN tokens |-> tokens[t]]
    BY <1>1 DEF Revoke
  <1> QED
    BY <1>2 DEF TokenInv

(* A request ends with a new token for its device: the first of a new family, *)
(* or the successor of the token it presented, which is revoked.              *)
LEMMA EndsCreating ==
    ASSUME TokenSide, NEW c \in Calls, Finish(c), Len(tokens) < MaxTokens,
           NEW dev \in Devices, dev = calls[c].device, NEW received \in BOOLEAN,
           Answer(dev, received), condemned' = condemned,
           NEW S, NEW f, NEW b, NEW u \in Users,
           tokens' = Append(Revoke(S), NewToken(u, f, b)),
           \/ S = {} /\ f = Len(tokens) + 1 /\ b = f /\ received
           \/ /\ calls[c].op = "rotate" /\ S = {calls[c].item}
              /\ f = tokens[calls[c].item].family /\ b = SuccessorBranch(c)
    PROVE  TokenSide'
  <1> DEFINE n == Len(tokens) + 1
  <1>1. TokenInv /\ CallInv
    BY DEF TokenSide
  <1>2. /\ calls' \in [Calls -> Requests]
        /\ \A e \in Calls : \/ calls'[e] = calls[e] /\ e # c
                            \/ calls'[e].op = "idle"
    BY <1>1, FinishShape
  <1>3. calls[c].op = "rotate" => calls[c].item \in DOMAIN tokens
    BY <1>1 DEF CallInv, TokenOps
  <1>4. f \in 1 .. n /\ b \in 1 .. n
    <2>1. \A t \in DOMAIN tokens :
             /\ tokens[t].family \in Nat \ {0} /\ tokens[t].family <= t
             /\ tokens[t].branch \in Nat \ {0} /\ tokens[t].branch <= t
      BY <1>1, TokenRecords
    <2>2. Len(tokens) \in Nat /\ DOMAIN tokens = 1 .. Len(tokens)
      BY <1>1 DEF TokenInv
    <2>3. calls[c].op = "rotate" => SuccessorBranch(c) \in 1 .. n
      BY <1>3, <2>1, <2>2 DEF SuccessorBranch, Me
    <2> QED
      BY <1>3, <2>1, <2>2, <2>3
  <1>5. /\ tokens' \in Seq(RefreshTokens) /\ Len(tokens') = n
        /\ Len(tokens) \in Nat /\ DOMAIN tokens = 1 .. Len(tokens) /\ DOMAIN tokens' = 1 .. n
        /\ \A t \in DOMAIN tokens :
              /\ tokens'[t].family = tokens[t].family
              /\ tokens'[t].branch = tokens[t].branch
              /\ t \in S => tokens'[t].state = "revoked"
              /\ t \notin S => tokens'[t].state = tokens[t].state
        /\ tokens'[n].family = f /\ tokens'[n].branch = b /\ tokens'[n].state = "live"
    BY <1>1, <1>4, AppendShape
  <1>6. /\ \A t \in DOMAIN tokens : t \in DOMAIN tokens' /\ t # n /\ t # 0
        /\ \A t \in DOMAIN tokens' : t \in DOMAIN tokens \/ t = n
        /\ n \in DOMAIN tokens' /\ n \notin DOMAIN tokens /\ n # 0 /\ n \in 0 .. MaxTokens
    BY <1>5, SessionsAssumption
  <1>7. /\ \A d \in Devices : cookie'[d] = IF d = dev /\ received THEN n ELSE cookie[d]
        /\ cookie' \in [Devices -> 0 .. MaxTokens]
        /\ lost' = IF received THEN lost \ {dev} ELSE lost \cup {dev}
    BY <1>1, <1>6 DEF Answer, TokenInv
  <1> HIDE DEF n
  <1>8. TokenInv'
    <2>1. Len(tokens') <= MaxTokens
      BY <1>5, SessionsAssumption DEF n
    <2>2. \A t \in DOMAIN tokens' : tokens'[t].family <= t /\ tokens'[t].branch <= t
      BY <1>1, <1>4, <1>5, <1>6 DEF TokenInv
    <2>3. \A d \in Devices : cookie'[d] # 0 => cookie'[d] \in DOMAIN tokens'
      BY <1>1, <1>6, <1>7 DEF TokenInv
    <2>4. condemned' \subseteq DOMAIN tokens' /\ lost' \subseteq Devices
      BY <1>1, <1>6, <1>7 DEF TokenInv
    <2> QED
      BY <1>5, <1>7, <2>1, <2>2, <2>3, <2>4 DEF TokenInv
  <1>9. CallInv'
    BY <1>1, <1>2, <1>6 DEF CallInv, TokenOps, DeviceOps
  <1>10. \A d \in Devices : cookie[d] # n
    BY <1>1, <1>6 DEF TokenInv
  <1>11. CookieInv'
    <2>1. \A d, e \in Devices : cookie'[d] # 0 /\ cookie'[d] = cookie'[e] => d = e
      BY <1>7, <1>10 DEF TokenSide, CookieInv
    <2>2. ASSUME NEW e \in Calls, NEW d \in Devices,
                 calls'[e].op = "rotate", cookie'[d] = calls'[e].item
          PROVE  calls'[e].device = d
      <3>1. calls'[e] = calls[e]
        BY <1>2, <2>2
      <3>2. calls[e].item \in DOMAIN tokens
        BY <1>1, <2>2, <3>1 DEF CallInv, TokenOps
      <3>3. cookie'[d] = cookie[d]
        BY <1>6, <1>7, <2>2, <3>1, <3>2
      <3> QED
        BY <2>2, <3>1, <3>3 DEF TokenSide, CookieInv
    <2> QED
      BY <2>1, <2>2 DEF CookieInv
  <1>12. RevocationReachesAll'
    <2>1. \A t \in condemned : t \in DOMAIN tokens /\ tokens[t].state = "revoked"
      BY <1>1 DEF TokenSide, TokenInv, RevocationReachesAll
    <2> QED
      BY <1>5, <2>1 DEF RevocationReachesAll
  <1>13. StaysSignedIn'
    <2>1. ASSUME NEW d \in Devices \ lost', cookie'[d] # 0, tokens'[cookie'[d]].state = "revoked"
          PROVE  cookie'[d] \in condemned'
      <3>1. d # dev
        BY <1>5, <1>7, <2>1
      <3>2. cookie'[d] = cookie[d] /\ d \notin lost
        BY <1>7, <2>1, <3>1
      <3>3. cookie[d] \in DOMAIN tokens
        BY <1>1, <2>1, <3>2 DEF TokenInv
      <3>4. cookie[d] \notin S
        BY <3>1 DEF TokenSide, CookieInv
      <3>5. tokens[cookie[d]].state = "revoked"
        BY <1>5, <2>1, <3>2, <3>3, <3>4
      <3> QED
        BY <2>1, <3>2, <3>5 DEF TokenSide, StaysSignedIn
    <2> QED
      BY <2>1 DEF StaysSignedIn
  <1>14. \A t \in DOMAIN tokens : tokens[t].branch = b => tokens'[t].state = "revoked"
    <2>1. \A t \in DOMAIN tokens : tokens[t].branch # n
      <3>1. \A t \in DOMAIN tokens : /\ tokens[t].branch <= t /\ t <= Len(tokens)
                                     /\ tokens[t].branch \in Nat /\ t \in Nat
        BY <1>1, TokenRecords
      <3> QED
        BY <1>5, <3>1 DEF n
    <2>2. CASE b = n
      BY <2>1, <2>2
    <2>3. CASE b # n
      <3>1. /\ calls[c].op = "rotate" /\ S = {calls[c].item}
            /\ b = tokens[calls[c].item].branch /\ ~RevokedMeanwhile(c)
        BY <2>3 DEF SuccessorBranch, Me, n
      <3>2. calls[c].item \in DOMAIN tokens /\ tokens[calls[c].item].state # "revoked"
        BY <1>1, <1>3, <3>1 DEF CallInv, RevokedMeanwhile, Me
      <3>3. \A t \in DOMAIN tokens : tokens[t].branch = b /\ t # calls[c].item
               => tokens[t].state = "revoked"
        BY <3>1, <3>2 DEF TokenSide, OneLiveTokenPerBranch
      <3>4. \A t \in DOMAIN tokens : t \in S <=> t = calls[c].item
        BY <3>1
      <3> QED
        BY <1>5, <3>3, <3>4
    <2> QED
      BY <2>2, <2>3
  <1>15. OneLiveTokenPerBranch'
    <2>1. ASSUME NEW t1 \in DOMAIN tokens', NEW t2 \in DOMAIN tokens',
                 tokens'[t1].branch = tokens'[t2].branch,
                 tokens'[t1].state # "revoked", tokens'[t2].state # "revoked"
          PROVE  t1 = t2
      <3>1. CASE t1 \in DOMAIN tokens /\ t2 \in DOMAIN tokens
        BY <1>5, <2>1, <3>1 DEF TokenSide, OneLiveTokenPerBranch
      <3>2. CASE t1 = n \/ t2 = n
        BY <1>5, <1>6, <1>14, <2>1, <3>2
      <3> QED
        BY <1>6, <3>1, <3>2
    <2> QED
      BY <2>1 DEF OneLiveTokenPerBranch
  <1> QED
    BY <1>8, <1>9, <1>11, <1>12, <1>13, <1>15 DEF TokenSide

-----------------------------------------------------------------------------
(* The letters.                                                             *)

(* A letter is mailed: it is spent by nothing yet.                           *)
LEMMA LetterAdded ==
    ASSUME LetterSide, NEW u \in Users, NEW k \in Kinds, Len(letters) < MaxLetters,
           letters' = CreateLetter(u, k), spent' = spent
    PROVE  LetterSide'
  <1> DEFINE letter == [user |-> u, kind |-> k, state |-> "fresh"]
  <1>1. letter \in Letters
    BY DEF Letters
  <1>2. letters' = Append(letters, letter)
    BY DEF CreateLetter
  <1> HIDE DEF letter
  <1>3. letters \in Seq(Letters) /\ Len(letters) \in Nat /\ DOMAIN letters = 1 .. Len(letters)
    BY DEF LetterSide, LetterInv
  <1>4. /\ letters' \in Seq(Letters) /\ Len(letters') = Len(letters) + 1
        /\ \A l \in DOMAIN letters : letters'[l] = letters[l]
    BY <1>1, <1>2, <1>3, AppendProperties
  <1>5. DOMAIN letters \subseteq DOMAIN letters'
    BY <1>3, <1>4
  <1>6. Len(letters') <= MaxLetters
    BY <1>3, <1>4, SessionsAssumption
  <1> QED
    BY <1>4, <1>5, <1>6 DEF LetterSide, LetterInv, SpentTogether

(* Letters are used up together, or age one by one.                          *)
LEMMA LettersFade ==
    ASSUME LetterSide, letters' \in Seq(Letters), Len(letters') = Len(letters),
           \A l \in DOMAIN letters :
              letters[l].state = "consumed" => letters'[l].state = "consumed",
           spent \subseteq spent', spent' \subseteq DOMAIN letters,
           \A l \in spent' \ spent : letters'[l].state = "consumed"
    PROVE  LetterSide'
  <1>1. DOMAIN letters' = DOMAIN letters
    BY DEF LetterSide, LetterInv
  <1>2. LetterInv'
    BY <1>1 DEF LetterSide, LetterInv
  <1>3. SpentTogether'
    BY DEF LetterSide, LetterInv, SpentTogether
  <1> QED
    BY <1>2, <1>3 DEF LetterSide

(* What using letters up does to them.                                       *)
LEMMA ConsumeShape ==
    ASSUME LetterInv, NEW S
    PROVE  /\ Consume(S) \in Seq(Letters) /\ Len(Consume(S)) = Len(letters)
           /\ \A l \in DOMAIN letters :
                 /\ l \in S => Consume(S)[l].state = "consumed"
                 /\ l \notin S => Consume(S)[l].state = letters[l].state
  <1> DEFINE New(l) == [letters[l] EXCEPT !.state = IF l \in S THEN "consumed" ELSE @]
  <1>1. /\ letters \in Seq(Letters) /\ Len(letters) \in Nat
        /\ DOMAIN letters = 1 .. Len(letters)
    BY DEF LetterInv
  <1>2. \A l \in 1 .. Len(letters) : letters[l] \in Letters
    BY <1>1
  <1>3. \A l \in 1 .. Len(letters) :
           /\ New(l) \in Letters
           /\ l \in S => New(l).state = "consumed"
           /\ l \notin S => New(l).state = letters[l].state
    BY <1>2 DEF Letters
  <1>4. Consume(S) = [l \in 1 .. Len(letters) |-> New(l)]
    BY <1>1 DEF Consume
  <1> HIDE DEF New
  <1>5. Consume(S) \in Seq(Letters) /\ Len(Consume(S)) = Len(letters)
    BY <1>1, <1>3, <1>4
  <1> QED
    BY <1>1, <1>3, <1>4, <1>5

(* Letters are used up: all that are spent now.                              *)
LEMMA LettersConsumed ==
    ASSUME LetterSide, NEW S \in SUBSET DOMAIN letters,
           letters' = Consume(S), spent' = spent \cup S
    PROVE  LetterSide'
  <1>1. LetterInv
    BY DEF LetterSide
  <1>2. /\ letters' \in Seq(Letters) /\ Len(letters') = Len(letters)
        /\ \A l \in DOMAIN letters : /\ l \in S => letters'[l].state = "consumed"
                                     /\ l \notin S => letters'[l].state = letters[l].state
    BY <1>1, ConsumeShape
  <1>3. spent \subseteq spent' /\ spent' \subseteq DOMAIN letters
    BY <1>1 DEF LetterInv
  <1> QED
    BY <1>2, <1>3, LettersFade

-----------------------------------------------------------------------------
(* The accounts.                                                            *)

(* What the operations write leaves an account an account.                   *)
LEMMA AccountEdits ==
    ASSUME NEW a \in Accounts
    PROVE  /\ [a EXCEPT !.exists = TRUE] \in Accounts
           /\ [a EXCEPT !.verified = TRUE] \in Accounts
           /\ [a EXCEPT !.lock = "over"] \in Accounts
           /\ a.failures \in 0 .. LockAfter /\ a.lock \in Locks /\ a.banned \in BOOLEAN
  <1>1. a.failures \in 0 .. LockAfter /\ a.lock \in Locks /\ a.banned \in BOOLEAN
    BY DEF Accounts
  <1>2. [a EXCEPT !.lock = "over"] \in Accounts
    BY DEF Accounts, Locks
  <1>3. [a EXCEPT !.exists = TRUE] \in Accounts /\ [a EXCEPT !.verified = TRUE] \in Accounts
    BY DEF Accounts
  <1> QED
    BY <1>1, <1>2, <1>3

(* Clearing the failed logins leaves an account an account.                  *)
LEMMA ResetType ==
    ASSUME NEW c, NEW a \in Accounts
    PROVE  Reset(c, a) \in Accounts
  <1> DEFINE n == IF Me(c).loaded.failures = 0 THEN a.failures ELSE 0
             l == IF Me(c).loaded.lock = "none" THEN a.lock ELSE "none"
  <1>1. n \in 0 .. LockAfter /\ l \in Locks
    <2>1. a.failures \in 0 .. LockAfter /\ a.lock \in Locks
      BY AccountEdits
    <2>2. "none" \in Locks
      BY DEF Locks
    <2> QED
      BY <2>1, <2>2, SessionsAssumption
  <1>2. Reset(c, a) = [a EXCEPT !.failures = n, !.lock = l]
    BY DEF Reset
  <1> HIDE DEF n, l
  <1>3. [a EXCEPT !.failures = n, !.lock = l] \in Accounts
    BY <1>1 DEF Accounts
  <1> QED
    BY <1>2, <1>3

(* One account is rewritten while a request ends.                            *)
LEMMA AccountWritten ==
    ASSUME AccountInv, NEW u, NEW a \in Accounts, account' = [account EXCEPT ![u] = a],
           sent' = sent
    PROVE  AccountInv'
  BY DEF AccountInv

-----------------------------------------------------------------------------
(* The steps.                                                               *)

(* What is known of a request that is about to commit.                       *)
LEMMA Committing ==
    ASSUME SessionInv, NEW c \in Calls
    PROVE  /\ calls[c] \in Requests /\ Me(c).user \in Users
           /\ Me(c).op \in TokenOps => Me(c).item \in DOMAIN tokens
           /\ Me(c).op \in DeviceOps => Me(c).device \in Devices
           /\ account[Me(c).user] \in Accounts /\ Me(c).loaded \in Accounts
           /\ OfUser(Me(c).user) \in SUBSET DOMAIN tokens
           /\ \A f : OfFamily(f) \in SUBSET DOMAIN tokens
           /\ \A k : OfKind(Me(c).user, k) \in SUBSET DOMAIN letters
           /\ TokenSide /\ LetterSide /\ AccountInv /\ TokenInv
  <1>1. calls[c] \in Requests
    BY DEF SessionInv, TokenSide, CallInv
  <1>2. calls[c].user \in Users /\ calls[c].loaded \in Accounts
    BY <1>1 DEF Requests
  <1>3. account[calls[c].user] \in Accounts
    BY <1>2 DEF SessionInv, AccountInv
  <1> QED
    BY <1>1, <1>2, <1>3
       DEF SessionInv, TokenSide, CallInv, Me, OfUser, OfFamily, OfKind

(* A request that leaves the letters alone.                                  *)
LEMMA LettersKept ==
    ASSUME LetterSide, UNCHANGED <<letters, spent>>
    PROVE  LetterSide'
  BY DEF LetterSide, LetterInv, SpentTogether

(* A request that opens a session: registration and login.                   *)
LEMMA OpensSession ==
    ASSUME SessionInv, NEW c \in Calls, Finish(c), Me(c).op \in {"register", "login"},
           Len(tokens) < MaxTokens, tokens' = CreateToken(Me(c).user, NewFamily),
           Answer(Me(c).device, TRUE), condemned' = condemned
    PROVE  TokenSide'
  <1>1. /\ TokenSide /\ TokenInv /\ Me(c).user \in Users
        /\ Me(c).device \in Devices /\ Me(c).device = calls[c].device
    BY Committing DEF DeviceOps, Me
  <1>2. tokens' = Append(Revoke({}), NewToken(Me(c).user, Len(tokens) + 1, Len(tokens) + 1))
    BY <1>1, RevokeNothing DEF CreateToken, NewFamily
  <1> QED
    BY <1>1, <1>2, EndsCreating

(* Registration, login, and a login that fails.                              *)
LEMMA LoginsKeep ==
    ASSUME SessionInv, NEW c \in Calls,
           CommitRegister(c) \/ CommitLogin(c) \/ CommitFailedLogin(c)
    PROVE  SessionInv'
  <1>1. /\ TokenSide /\ LetterSide /\ AccountInv /\ CallInv
        /\ Me(c).user \in Users /\ account[Me(c).user] \in Accounts /\ Me(c).loaded \in Accounts
    BY Committing DEF TokenSide
  <1>2. Finish(c) => sent' = sent
    BY DEF Finish
  <1>3. CASE CommitRegister(c)
    <2>1. Finish(c) /\ Me(c).op = "register" /\ condemned' = condemned /\ spent' = spent
      BY <1>3 DEF CommitRegister
    <2>2. CASE UNCHANGED <<account, tokens, letters, cookie, lost>>
      <3>1. TokenSide' /\ LetterSide'
        BY <1>1, <2>1, <2>2, EndsQuietly, LettersKept
      <3>2. AccountInv'
        BY <1>1, <1>2, <2>1, <2>2 DEF AccountInv
      <3> QED
        BY <3>1, <3>2 DEF SessionInv
    <2>3. CASE /\ Len(tokens) < MaxTokens /\ Len(letters) < MaxLetters
               /\ account' = [account EXCEPT ![Me(c).user].exists = TRUE]
               /\ letters' = CreateLetter(Me(c).user, "verify")
               /\ tokens' = CreateToken(Me(c).user, NewFamily)
               /\ Answer(Me(c).device, TRUE)
      <3>1. TokenSide'
        BY <2>1, <2>3, OpensSession
      <3>2. LetterSide'
        BY <1>1, <2>1, <2>3, LetterAdded DEF Kinds
      <3>3. AccountInv'
        <4>1. [account[Me(c).user] EXCEPT !.exists = TRUE] \in Accounts
          BY <1>1, AccountEdits
        <4> QED
          BY <1>1, <1>2, <2>1, <2>3, <4>1, AccountWritten
      <3> QED
        BY <3>1, <3>2, <3>3 DEF SessionInv
    <2> QED
      BY <1>3, <2>2, <2>3 DEF CommitRegister
  <1>4. CASE CommitLogin(c)
    <2>1. /\ Finish(c) /\ Me(c).op = "login" /\ condemned' = condemned
          /\ spent' = spent /\ letters' = letters
          /\ Len(tokens) < MaxTokens /\ tokens' = CreateToken(Me(c).user, NewFamily)
          /\ Answer(Me(c).device, TRUE)
          /\ account' = [account EXCEPT ![Me(c).user] = Reset(c, account[Me(c).user])]
      BY <1>4 DEF CommitLogin
    <2>2. TokenSide' /\ LetterSide'
      BY <1>1, <2>1, OpensSession, LettersKept
    <2>3. Reset(c, account[Me(c).user]) \in Accounts
      BY <1>1, ResetType
    <2>4. AccountInv'
      BY <1>1, <1>2, <2>1, <2>3, AccountWritten
    <2> QED
      BY <2>2, <2>4 DEF SessionInv
  <1>5. CASE CommitFailedLogin(c)
    <2> DEFINE a == account[Me(c).user]
               n == Me(c).loaded.failures + 1
               count == IF n > LockAfter THEN LockAfter ELSE n
               lock == IF n >= LockAfter THEN "held" ELSE a.lock
    <2>1. /\ Finish(c) /\ UNCHANGED <<tokens, letters, cookie, condemned, spent, lost>>
          /\ account' = [account EXCEPT ![Me(c).user].failures = count, ![Me(c).user].lock = lock]
      BY <1>5 DEF CommitFailedLogin
    <2>2. TokenSide' /\ LetterSide'
      BY <1>1, <2>1, EndsQuietly, LettersKept
    <2>3. count \in 0 .. LockAfter
      <3>1. Me(c).loaded.failures \in 0 .. LockAfter
        BY <1>1, AccountEdits
      <3> QED
        BY <3>1, SessionsAssumption
    <2>4. lock \in Locks
      <3>1. a.lock \in Locks
        BY <1>1, AccountEdits
      <3>2. "held" \in Locks
        BY DEF Locks
      <3> QED
        BY <3>1, <3>2
    <2> HIDE DEF count, lock
    <2>5. [a EXCEPT !.failures = count, !.lock = lock] \in Accounts
      BY <1>1, <2>3, <2>4 DEF Accounts
    <2>6. account' = [account EXCEPT ![Me(c).user] = [a EXCEPT !.failures = count, !.lock = lock]]
      BY <1>1, <2>1 DEF AccountInv, Accounts
    <2> HIDE DEF a
    <2>7. AccountInv'
      BY <1>1, <1>2, <2>1, <2>5, <2>6, AccountWritten
    <2> QED
      BY <2>2, <2>7 DEF SessionInv
  <1> QED
    BY <1>3, <1>4, <1>5

(* Rotation, and the revocations that only concern tokens.                   *)
LEMMA RefreshesKeep ==
    ASSUME SessionInv, NEW c \in Calls,
           \/ CommitRotate(c) \/ CommitReuse(c) \/ CommitRefused(c) \/ CommitExpired(c)
           \/ CommitLogout(c) \/ CommitLogoutAll(c)
    PROVE  SessionInv'
  <1>1. /\ TokenSide /\ LetterSide /\ AccountInv /\ TokenInv /\ Me(c).user \in Users
        /\ Me(c).op \in TokenOps => Me(c).item \in DOMAIN tokens
        /\ Me(c).op \in DeviceOps => Me(c).device \in Devices
        /\ OfUser(Me(c).user) \in SUBSET DOMAIN tokens
        /\ \A f : OfFamily(f) \in SUBSET DOMAIN tokens
    BY Committing
  <1>2. UNCHANGED <<account, letters, spent>> /\ Finish(c)
    BY DEF CommitRotate, CommitReuse, CommitRefused, CommitExpired, CommitLogout, CommitLogoutAll
  <1>3. AccountInv' /\ LetterSide'
    BY <1>1, <1>2, LettersKept DEF AccountInv, Finish
  <1>4. CASE CommitRotate(c)
    <2>1. /\ Me(c).op = "rotate" /\ Len(tokens) < MaxTokens /\ condemned' = condemned
          /\ tokens' = Append(Revoke({Me(c).item}),
                              NewToken(Me(c).user, tokens[Me(c).item].family,
                                       SuccessorBranch(c)))
      BY <1>4 DEF CommitRotate
    <2>2. PICK received \in BOOLEAN : Answer(Me(c).device, received)
      BY <1>4 DEF CommitRotate
    <2>3. Me(c).device \in Devices
      BY <1>1, <2>1 DEF DeviceOps
    <2>4. TokenSide'
      BY <1>1, <1>2, <2>1, <2>2, <2>3, EndsCreating DEF Me
    <2> QED
      BY <1>3, <2>4 DEF SessionInv
  <1>5. CASE CommitReuse(c) \/ CommitRefused(c)
    <2>1. /\ tokens' = Revoke(OfFamily(tokens[Me(c).item].family))
          /\ condemned' = condemned \cup OfFamily(tokens[Me(c).item].family)
          /\ cookie' = cookie /\ lost' = lost
      BY <1>5 DEF CommitReuse, CommitRefused, RevokeFamily
    <2>2. TokenSide'
      BY <1>1, <1>2, <2>1, EndsRevoking
    <2> QED
      BY <1>3, <2>2 DEF SessionInv
  <1>6. CASE CommitExpired(c) \/ CommitLogout(c)
    <2>1. /\ tokens' = Revoke({Me(c).item})
          /\ condemned' = condemned \cup {Me(c).item} /\ lost' = lost
          /\ Me(c).op \in {"expired", "logout"}
          /\ \/ cookie' = cookie
             \/ Me(c).op = "logout" /\ cookie' = [cookie EXCEPT ![Me(c).device] = 0]
      BY <1>6 DEF CommitExpired, CommitLogout
    <2>2. {Me(c).item} \in SUBSET DOMAIN tokens
      BY <1>1, <2>1 DEF TokenOps
    <2>3. cookie' = cookie \/ \E d \in Devices : cookie' = [cookie EXCEPT ![d] = 0]
      BY <1>1, <2>1 DEF DeviceOps
    <2>4. TokenSide'
      BY <1>1, <1>2, <2>1, <2>2, <2>3, EndsRevoking
    <2> QED
      BY <1>3, <2>4 DEF SessionInv
  <1>7. CASE CommitLogoutAll(c)
    <2>1. /\ tokens' = Revoke(OfUser(Me(c).user))
          /\ condemned' = condemned \cup OfUser(Me(c).user) /\ lost' = lost
          /\ Me(c).op = "logout_all" /\ cookie' = [cookie EXCEPT ![Me(c).device] = 0]
      BY <1>7 DEF CommitLogoutAll, RevokeAllForUser
    <2>2. \E d \in Devices : cookie' = [cookie EXCEPT ![d] = 0]
      BY <1>1, <2>1 DEF DeviceOps
    <2>3. TokenSide'
      BY <1>1, <1>2, <2>1, <2>2, EndsRevoking
    <2> QED
      BY <1>3, <2>3 DEF SessionInv
  <1> QED
    BY <1>4, <1>5, <1>6, <1>7

(* Verification, and letters that are mailed.                                *)
LEMMA LettersKeep ==
    ASSUME SessionInv, NEW c \in Calls,
           CommitVerifyEmail(c) \/ CommitVerificationLetter(c) \/ CommitResetLetter(c)
    PROVE  SessionInv'
  <1>1. /\ TokenSide /\ LetterSide /\ AccountInv /\ Me(c).user \in Users
        /\ account[Me(c).user] \in Accounts
        /\ \A k : OfKind(Me(c).user, k) \in SUBSET DOMAIN letters
    BY Committing
  <1>2. Finish(c) /\ UNCHANGED <<tokens, cookie, condemned, lost>> /\ sent' = sent
    BY DEF CommitVerifyEmail, CommitVerificationLetter, CommitResetLetter, Finish
  <1>3. TokenSide'
    BY <1>1, <1>2, EndsQuietly
  <1>4. CASE CommitVerifyEmail(c)
    <2>1. /\ letters' = Consume(OfKind(Me(c).user, "verify"))
          /\ spent' = spent \cup OfKind(Me(c).user, "verify")
          /\ account' = [account EXCEPT ![Me(c).user].verified = TRUE]
      BY <1>4 DEF CommitVerifyEmail, ConsumeVerificationTokens
    <2>2. LetterSide'
      BY <1>1, <2>1, LettersConsumed
    <2>3. [account[Me(c).user] EXCEPT !.verified = TRUE] \in Accounts
      BY <1>1, AccountEdits
    <2>4. AccountInv'
      BY <1>1, <1>2, <2>1, <2>3, AccountWritten
    <2> QED
      BY <1>3, <2>2, <2>4 DEF SessionInv
  <1>5. CASE CommitVerificationLetter(c) \/ CommitResetLetter(c)
    <2>1. /\ Len(letters) < MaxLetters /\ spent' = spent /\ account' = account
          /\ \E k \in Kinds : letters' = CreateLetter(Me(c).user, k)
      BY <1>5 DEF CommitVerificationLetter, CommitResetLetter, Kinds
    <2>2. LetterSide'
      BY <1>1, <2>1, LetterAdded
    <2>3. AccountInv'
      BY <1>1, <1>2, <2>1 DEF AccountInv
    <2> QED
      BY <1>3, <2>2, <2>3 DEF SessionInv
  <1> QED
    BY <1>4, <1>5

(* A new password, by letter or by the old one, and a ban: the tokens of the *)
(* user go.                                                                  *)
LEMMA PasswordsKeep ==
    ASSUME SessionInv, NEW c \in Calls,
           CommitPasswordReset(c) \/ CommitPasswordChange(c) \/ CommitBan(c)
    PROVE  SessionInv'
  <1>1. /\ TokenSide /\ LetterSide /\ AccountInv /\ TokenInv /\ Me(c).user \in Users
        /\ account[Me(c).user] \in Accounts
        /\ Me(c).op \in DeviceOps => Me(c).device \in Devices
        /\ OfUser(Me(c).user) \in SUBSET DOMAIN tokens
        /\ \A k : OfKind(Me(c).user, k) \in SUBSET DOMAIN letters
    BY Committing
  <1>2. Finish(c) /\ lost' = lost /\ sent' = sent
    BY DEF CommitPasswordReset, CommitPasswordChange, CommitBan, Finish
  <1>3. Reset(c, account[Me(c).user]) \in Accounts
    BY <1>1, ResetType
  <1>4. CASE CommitPasswordReset(c)
    <2>1. /\ letters' = Consume(OfKind(Me(c).user, "reset"))
          /\ spent' = spent \cup OfKind(Me(c).user, "reset")
          /\ tokens' = Revoke(OfUser(Me(c).user))
          /\ condemned' = condemned \cup OfUser(Me(c).user) /\ cookie' = cookie
          /\ account' = [account EXCEPT ![Me(c).user] = Reset(c, account[Me(c).user])]
      BY <1>4 DEF CommitPasswordReset, ConsumeResetTokens, RevokeAllForUser
    <2>2. LetterSide'
      BY <1>1, <2>1, LettersConsumed
    <2>3. TokenSide'
      BY <1>1, <1>2, <2>1, EndsRevoking
    <2>4. AccountInv'
      BY <1>1, <1>2, <1>3, <2>1, AccountWritten
    <2> QED
      BY <2>2, <2>3, <2>4 DEF SessionInv
  <1>5. CASE CommitPasswordChange(c)
    <2>1. /\ letters' = letters /\ spent' = spent /\ Me(c).op = "change"
          /\ tokens' = Revoke(OfUser(Me(c).user))
          /\ condemned' = condemned \cup OfUser(Me(c).user)
          /\ cookie' = [cookie EXCEPT ![Me(c).device] = 0]
          /\ account' = [account EXCEPT ![Me(c).user] = Reset(c, account[Me(c).user])]
      BY <1>5 DEF CommitPasswordChange, RevokeAllForUser
    <2>2. LetterSide'
      BY <1>1, <2>1, LettersKept
    <2>3. \E d \in Devices : cookie' = [cookie EXCEPT ![d] = 0]
      BY <1>1, <2>1 DEF DeviceOps
    <2>4. TokenSide'
      BY <1>1, <1>2, <2>1, <2>3, EndsRevoking
    <2>5. AccountInv'
      BY <1>1, <1>2, <1>3, <2>1, AccountWritten
    <2> QED
      BY <2>2, <2>4, <2>5 DEF SessionInv
  <1>6. CASE CommitBan(c)
    <2> DEFINE b == Me(c).op = "ban"
               now == IF Me(c).loaded.banned = b THEN account[Me(c).user].banned ELSE b
    <2>1. /\ letters' = letters /\ spent' = spent /\ cookie' = cookie
          /\ tokens' = IF b THEN Revoke(OfUser(Me(c).user)) ELSE tokens
          /\ condemned' = IF b THEN condemned \cup OfUser(Me(c).user) ELSE condemned
      BY <1>6 DEF CommitBan, RevokeAllForUser
    <2>2. account' = [account EXCEPT ![Me(c).user].banned = now]
      BY <1>6 DEF CommitBan
    <2>3. now \in BOOLEAN
      BY <1>1, AccountEdits
    <2> HIDE DEF now
    <2>4. [account[Me(c).user] EXCEPT !.banned = now] \in Accounts
      BY <1>1, <2>3 DEF Accounts
    <2>5. AccountInv'
      BY <1>1, <1>2, <2>2, <2>4, AccountWritten
    <2>6. LetterSide'
      BY <1>1, <2>1, LettersKept
    <2>7. TokenSide'
      <3>1. CASE b
        BY <1>1, <1>2, <2>1, <3>1, EndsRevoking
      <3>2. CASE ~b
        BY <1>1, <1>2, <2>1, <3>2, EndsQuietly
      <3> QED
        BY <3>1, <3>2
    <2> QED
      BY <2>5, <2>6, <2>7 DEF SessionInv
  <1> QED
    BY <1>4, <1>5, <1>6

(* Requests begin.                                                           *)
LEMMA BeginsKeep ==
    ASSUME SessionInv, NEW c \in Calls, Begins(c)
    PROVE  SessionInv'
  <1> DEFINE Is(op) == op \in Writing \cup Mailing
  <1>1. /\ AccountInv /\ TokenInv /\ LetterInv
        /\ Len(letters) \in Nat /\ DOMAIN letters = 1 .. Len(letters)
        /\ Len(tokens) \in Nat /\ DOMAIN tokens = 1 .. Len(tokens)
    BY DEF SessionInv, TokenSide, LetterSide, TokenInv, LetterInv
  <1>2. /\ \A t \in DOMAIN tokens : t \in 0 .. (MaxTokens + MaxLetters) /\ t # 0
        /\ \A l \in DOMAIN letters : l \in 0 .. (MaxTokens + MaxLetters)
        /\ 0 \in 0 .. (MaxTokens + MaxLetters)
    BY <1>1, SessionsAssumption DEF TokenInv, LetterInv
  <1>3. /\ \A t \in DOMAIN tokens : /\ tokens[t].user \in Users
                                    /\ tokens[t].state \in {"live", "expired", "revoked"}
        /\ \A l \in DOMAIN letters : letters[l].user \in Users
    <2>1. \A r \in RefreshTokens : r.user \in Users /\ r.state \in {"live", "expired", "revoked"}
      BY DEF RefreshTokens
    <2>2. \A r \in Letters : r.user \in Users
      BY DEF Letters
    <2>3. \A l \in DOMAIN letters : letters[l] \in Letters
      BY <1>1 DEF LetterInv
    <2> QED
      BY <1>1, <2>1, <2>2, <2>3, TokenRecords
  <1>4. ASSUME NEW d \in Devices, NEW u \in Users, NEW op \in Writing \cup Mailing,
               op \notin TokenOps, Begin(c, op, d, u, 0)
        PROVE  SessionInv'
    BY <1>2, <1>4, BeginKeeps DEF TokenOps
  <1>5. ASSUME NEW i \in 0 .. (MaxTokens + MaxLetters), NEW u \in Users,
               NEW op \in Writing \cup Mailing,
               op \notin TokenOps, op \notin DeviceOps, Begin(c, op, NoDevice, u, i)
        PROVE  SessionInv'
    BY <1>5, BeginKeeps DEF TokenOps
  <1>6. ASSUME NEW op, NEW d, NEW u, NEW i, Begin(c, op, d, u, i)
        PROVE  op # "none"
    BY <1>6 DEF Begin
  <1>7. ASSUME NEW d \in Devices, Refresh(c, d)
        PROVE  SessionInv'
    <2> DEFINE t == cookie[d]
    <2>1. /\ t \in DOMAIN tokens /\ t # 0
          /\ Begin(c, DecideRefresh(t), d, tokens[t].user, t)
      BY <1>1, <1>7 DEF Refresh, TokenInv
    <2>2. /\ DecideRefresh(t) \in {"reuse", "expired", "rotate", "refused"}
          /\ DecideRefresh(t) = "rotate" => tokens[t].state = "live"
      <3>1. CASE tokens[t].state = "revoked"
        BY <3>1 DEF DecideRefresh
      <3>2. CASE tokens[t].state = "expired"
        BY <3>2 DEF DecideRefresh
      <3>3. CASE tokens[t].state = "live"
        BY <3>3 DEF DecideRefresh
      <3> QED
        BY <1>3, <2>1, <3>1, <3>2, <3>3
    <2>3. DecideRefresh(t) \in Writing \cup Mailing
      BY <2>2 DEF Writing
    <2> QED
      BY <1>2, <1>3, <2>1, <2>2, <2>3, BeginKeeps
  <1>8. ASSUME NEW d \in Devices, Logout(c, d)
        PROVE  SessionInv'
    <2> DEFINE t == cookie[d]
    <2>1. /\ t \in DOMAIN tokens /\ t # 0
          /\ Begin(c, DecideLogout(t), d, tokens[t].user, t)
      BY <1>1, <1>8 DEF Logout, TokenInv
    <2>2. DecideLogout(t) = "logout"
      BY <1>6, <2>1 DEF DecideLogout
    <2>3. "logout" \in Writing \cup Mailing /\ "logout" # "rotate"
      BY DEF Writing
    <2> QED
      BY <1>2, <1>3, <2>1, <2>2, <2>3, BeginKeeps
  <1>9. ASSUME NEW d \in Devices, NEW u \in Users,
               \/ Register(c, d, u) \/ LogoutAll(c, d, u) \/ ChangePassword(c, d, u)
               \/ \E right \in BOOLEAN : Login(c, d, u, right)
        PROVE  SessionInv'
    <2>1. \E op \in {"register", "logout_all", "change", "login", "fail", "none"} :
             Begin(c, op, d, u, 0)
      BY <1>9 DEF Register, LogoutAll, ChangePassword, Login, DecideLogin
    <2>2. \E op \in {"register", "logout_all", "change", "login", "fail"} :
             Begin(c, op, d, u, 0)
      BY <1>6, <2>1
    <2> QED
      BY <1>4, <2>2 DEF Writing, TokenOps
  <1>10. ASSUME NEW u \in Users,
                \/ ResendVerification(c, u) \/ RequestPasswordReset(c, u)
                \/ \E out \in BOOLEAN : Ban(c, u, out)
         PROVE  SessionInv'
    <2>1. \E op \in {"mail_verify", "mail_reset", "ban", "unban", "none"} :
             Begin(c, op, NoDevice, u, 0)
      BY <1>10 DEF ResendVerification, RequestPasswordReset, Ban, DecideResend, DecideResetRequest
    <2>2. \E op \in {"mail_verify", "mail_reset", "ban", "unban"} :
             Begin(c, op, NoDevice, u, 0)
      BY <1>6, <2>1
    <2> QED
      BY <1>2, <1>5, <2>2 DEF Writing, Mailing, TokenOps, DeviceOps
  <1>11. ASSUME NEW l \in DOMAIN letters, VerifyEmail(c, l) \/ ConfirmPasswordReset(c, l)
         PROVE  SessionInv'
    <2>1. \E op \in {"verify", "reset"} : Begin(c, op, NoDevice, letters[l].user, l)
      BY <1>11 DEF VerifyEmail, ConfirmPasswordReset
    <2> QED
      BY <1>2, <1>3, <1>5, <2>1 DEF Writing, TokenOps, DeviceOps
  <1> QED
    BY <1>7, <1>8, <1>9, <1>10, <1>11 DEF Begins

(* Cookies are cleared, and time passes.                                     *)
LEMMA AgingKeeps ==
    ASSUME SessionInv,
           \/ \E d \in Devices : LogoutUnknown(d)
           \/ \E u \in Users : LockRunsOut(u)
           \/ \E t \in DOMAIN tokens : TokenExpires(t)
           \/ \E l \in DOMAIN letters : LetterExpires(l)
    PROVE  SessionInv'
  <1>1. /\ AccountInv /\ TokenSide /\ LetterSide /\ TokenInv /\ LetterInv /\ CallInv
        /\ tokens \in Seq(RefreshTokens) /\ condemned \subseteq DOMAIN tokens
    BY DEF SessionInv, TokenSide, LetterSide, TokenInv
  <1>2. CASE \E d \in Devices : LogoutUnknown(d)
    <2>1. /\ UNCHANGED <<account, tokens, letters, calls, sent, condemned, spent, lost>>
          /\ \E d \in Devices : cookie' = [cookie EXCEPT ![d] = 0]
      BY <1>2 DEF LogoutUnknown
    <2>2. /\ cookie' \in [Devices -> 0 .. MaxTokens]
          /\ \A d \in Devices : cookie'[d] = cookie[d] \/ cookie'[d] = 0
      BY <1>1, <2>1, SessionsAssumption DEF TokenInv
    <2>3. TokenSide'
      BY <1>1, <2>1, <2>2, TokensFade DEF CallInv
    <2>4. AccountInv' /\ LetterSide'
      BY <1>1, <2>1, LettersKept DEF AccountInv
    <2> QED
      BY <2>3, <2>4 DEF SessionInv
  <1>3. ASSUME UNCHANGED <<tokens, cookie, calls, condemned, lost>>
        PROVE  TokenSide'
    BY <1>1, <1>3, TokensFade DEF TokenInv, CallInv
  <1>4. ASSUME NEW u \in Users, LockRunsOut(u)
        PROVE  SessionInv'
    <2>1. /\ account' = [account EXCEPT ![u] = [account[u] EXCEPT !.lock = "over"]]
          /\ UNCHANGED <<tokens, letters, cookie, calls, sent, condemned, spent, lost>>
      BY <1>4 DEF LockRunsOut
    <2>2. [account[u] EXCEPT !.lock = "over"] \in Accounts
      BY <1>1, AccountEdits DEF AccountInv
    <2>3. AccountInv'
      BY <1>1, <2>1, <2>2, AccountWritten
    <2> QED
      BY <1>1, <1>3, <2>1, <2>3, LettersKept DEF SessionInv
  <1>5. ASSUME NEW t \in DOMAIN tokens, TokenExpires(t)
        PROVE  SessionInv'
    <2> DEFINE token == [tokens[t] EXCEPT !.state = "expired"]
    <2>1. /\ tokens' = [tokens EXCEPT ![t] = token] /\ tokens[t].state = "live"
          /\ UNCHANGED <<account, letters, cookie, calls, sent, condemned, spent, lost>>
      BY <1>5 DEF TokenExpires
    <2>2. tokens[t] \in RefreshTokens
      BY <1>1, TokenRecords
    <2>3. /\ token \in RefreshTokens /\ token.state = "expired"
          /\ token.family = tokens[t].family /\ token.branch = tokens[t].branch
      BY <2>2 DEF RefreshTokens
    <2> HIDE DEF token
    <2>4. t \in 1 .. Len(tokens) /\ DOMAIN tokens = 1 .. Len(tokens)
      BY <1>1
    <2>5. /\ tokens' \in Seq(RefreshTokens) /\ Len(tokens') = Len(tokens)
          /\ \A s \in DOMAIN tokens : tokens'[s] = IF s = t THEN token ELSE tokens[s]
      BY <1>1, <2>1, <2>3, <2>4, ExceptSeq
    <2>6. \A s \in DOMAIN tokens :
             /\ tokens'[s].family = tokens[s].family
             /\ tokens'[s].branch = tokens[s].branch
             /\ tokens[s].state = "revoked" => tokens'[s].state = "revoked"
             /\ tokens'[s].state = "revoked" => tokens[s].state = "revoked"
      BY <2>1, <2>3, <2>5
    <2>7. TokenSide'
      BY <1>1, <2>1, <2>5, <2>6, TokensFade DEF TokenInv, CallInv
    <2>8. AccountInv' /\ LetterSide'
      BY <1>1, <2>1, LettersKept DEF AccountInv
    <2> QED
      BY <2>7, <2>8 DEF SessionInv
  <1>6. ASSUME NEW l \in DOMAIN letters, LetterExpires(l)
        PROVE  SessionInv'
    <2> DEFINE letter == [letters[l] EXCEPT !.state = "expired"]
    <2>1. /\ letters' = [letters EXCEPT ![l] = letter] /\ letters[l].state = "fresh"
          /\ UNCHANGED <<account, tokens, cookie, calls, sent, condemned, spent, lost>>
      BY <1>6 DEF LetterExpires
    <2>2. letters \in Seq(Letters) /\ letters[l] \in Letters /\ l \in 1 .. Len(letters)
      BY <1>1 DEF LetterInv
    <2>3. letter \in Letters
      BY <2>2 DEF Letters
    <2> HIDE DEF letter
    <2>4. /\ letters' \in Seq(Letters) /\ Len(letters') = Len(letters)
          /\ \A k \in DOMAIN letters : k # l => letters'[k] = letters[k]
      BY <2>1, <2>2, <2>3, ExceptSeq
    <2>5. \A k \in DOMAIN letters :
             letters[k].state = "consumed" => letters'[k].state = "consumed"
      BY <2>1, <2>4
    <2>6. LetterSide'
      BY <1>1, <2>1, <2>4, <2>5, LettersFade DEF LetterInv
    <2>7. AccountInv'
      BY <1>1, <2>1 DEF AccountInv
    <2> QED
      BY <1>3, <2>1, <2>6, <2>7 DEF SessionInv
  <1> QED
    BY <1>2, <1>4, <1>5, <1>6

(* At first nobody is registered and nothing was mailed.                     *)
LEMMA InitSessions == SessionsInit => SessionInv
  <1> SUFFICES ASSUME SessionsInit PROVE SessionInv
    OBVIOUS
  <1> DEFINE Idle(u) == [op |-> "idle", device |-> NoDevice, user |-> u, item |-> 0,
                         dead |-> FALSE, loaded |-> NewAccount]
  <1>1. NewAccount \in Accounts
    BY SessionsAssumption DEF NewAccount, Accounts, Locks
  <1>2. PICK u \in Users : calls = [c \in Calls |-> Idle(u)]
    BY DEF SessionsInit
  <1>3. Idle(u) \in Requests /\ Idle(u).op = "idle"
    BY <1>1, SessionsAssumption DEF Requests
  <1> HIDE DEF Idle
  <1>4. calls \in [Calls -> Requests] /\ \A c \in Calls : calls[c].op = "idle"
    BY <1>2, <1>3
  <1>5. /\ tokens = <<>> /\ tokens \in Seq(RefreshTokens) /\ Len(tokens) = 0 /\ DOMAIN tokens = {}
        /\ letters = <<>> /\ letters \in Seq(Letters) /\ Len(letters) = 0 /\ DOMAIN letters = {}
        /\ condemned = {} /\ spent = {} /\ lost = {} /\ sent = 0
        /\ cookie = [d \in Devices |-> 0] /\ account = [v \in Users |-> NewAccount]
    BY DEF SessionsInit
  <1>6. AccountInv /\ TokenInv /\ LetterSide
    BY <1>1, <1>5, SessionsAssumption
       DEF AccountInv, TokenInv, LetterSide, LetterInv, SpentTogether
  <1>7. CallInv /\ CookieInv
    BY <1>4, <1>5 DEF CallInv, CookieInv, TokenOps, DeviceOps
  <1>8. OneLiveTokenPerBranch /\ RevocationReachesAll /\ StaysSignedIn
    BY <1>5 DEF OneLiveTokenPerBranch, RevocationReachesAll, StaysSignedIn
  <1> QED
    BY <1>6, <1>7, <1>8 DEF SessionInv, TokenSide

(* Every step keeps the invariant.                                           *)
LEMMA NextSessions ==
    ASSUME SessionInv, [SessionsNext]_sessionVars
    PROVE  SessionInv'
  <1>1. CASE UNCHANGED sessionVars
    <2>1. UNCHANGED <<account, tokens, letters, cookie, calls, sent, condemned, spent, lost>>
      BY <1>1 DEF sessionVars
    <2>2. TokenSide /\ TokenInv /\ CallInv /\ LetterSide
      BY DEF SessionInv, TokenSide
    <2>3. TokenSide'
      BY <2>1, <2>2, TokensFade DEF TokenInv, CallInv
    <2>4. AccountInv' /\ LetterSide'
      BY <2>1, <2>2, LettersKept DEF SessionInv, AccountInv
    <2> QED
      BY <2>3, <2>4 DEF SessionInv
  <1>2. ASSUME NEW c \in Calls, Commits(c)
        PROVE  SessionInv'
    BY <1>2, LoginsKeep, RefreshesKeep, LettersKeep, PasswordsKeep DEF Commits
  <1> QED
    BY <1>1, <1>2, BeginsKeep, AgingKeeps DEF SessionsNext

-----------------------------------------------------------------------------

(* Accounts, tokens, letters, cookies and requests keep their types.         *)
THEOREM SessionsTypeCorrect == SessionsSpec => []SessionsTypeOK
  <1>1. SessionInv => SessionsTypeOK
    BY DEF SessionInv, AccountInv, TokenSide, TokenInv, CallInv, LetterSide, LetterInv,
       SessionsTypeOK
  <1> QED
    BY <1>1, InitSessions, NextSessions, PTL DEF SessionsSpec

(* Whatever overlaps, tokens that existed when they were revoked on purpose  *)
(* stay revoked.                                                             *)
THEOREM RevocationsReachAll == SessionsSpec => []RevocationReachesAll
  <1>1. SessionInv => RevocationReachesAll
    BY DEF SessionInv, TokenSide
  <1> QED
    BY <1>1, InitSessions, NextSessions, PTL DEF SessionsSpec

(* Letters of one kind are used up together.                                 *)
THEOREM LettersAreSpentTogether == SessionsSpec => []SpentTogether
  <1>1. SessionInv => SpentTogether
    BY DEF SessionInv, LetterSide
  <1> QED
    BY <1>1, InitSessions, NextSessions, PTL DEF SessionsSpec

(* Rotation signs no device out, unless an answer was lost.                  *)
THEOREM DevicesStaySignedIn == SessionsSpec => []StaysSignedIn
  <1>1. SessionInv => StaysSignedIn
    BY DEF SessionInv, TokenSide
  <1> QED
    BY <1>1, InitSessions, NextSessions, PTL DEF SessionsSpec

(* Each branch of a session has one live token: only a refresh overtaken by  *)
(* a revocation of the token it presents begins another branch.              *)
THEOREM BranchesHaveOneLiveToken == SessionsSpec => []OneLiveTokenPerBranch
  <1>1. SessionInv => OneLiveTokenPerBranch
    BY DEF SessionInv, TokenSide
  <1> QED
    BY <1>1, InitSessions, NextSessions, PTL DEF SessionsSpec

-----------------------------------------------------------------------------
(***************************************************************************)
(* Proofs about Roles for any number of accounts and requests, which overlap   *)
(* as they like.                                                              *)
(***************************************************************************)

AdminRequests == [what: {"idle", "ban", "role"}, actor: AdminUsers, target: AdminUsers,
          level: Levels, ban: BOOLEAN, writes: BOOLEAN, lawful: BOOLEAN]

\* Requests are lawful, and about somebody else than who asked.
AskedLawfully == \A c \in AdminCalls :
                    adminCalls[c].what \in {"ban", "role"} =>
                       adminCalls[c].lawful /\ adminCalls[c].actor # adminCalls[c].target

RolesInv == RolesTypeOK /\ RootRemains /\ AskedLawfully

(* The two handlers register well-formed requests.                          *)
LEMMA RequestShape ==
    ASSUME RolesTypeOK, NEW actor \in AdminUsers, NEW target \in AdminUsers,
           NEW ban \in BOOLEAN, NEW l \in Levels
    PROVE  /\ NoAdminCall \in AdminRequests /\ NoAdminCall.what = "idle"
           /\ BanRequest(actor, target, ban) \in AdminRequests
           /\ RoleRequest(actor, target, l) \in AdminRequests
  BY RolesAssumption DEF NoAdminCall, BanRequest, RoleRequest, AdminRequests, RolesTypeOK,
     Levels, Root

(* Every step keeps the types.                                              *)
LEMMA NextRolesTypes ==
    ASSUME RolesTypeOK, [RolesNext]_roleVars
    PROVE  RolesTypeOK'
  <1> USE DEF RolesTypeOK
  <1>0. adminCalls \in [AdminCalls -> AdminRequests]
    BY DEF AdminRequests
  <1>1. ASSUME NEW c \in AdminCalls, NEW call \in AdminRequests, BeginAdminCall(c, call)
        PROVE  RolesTypeOK'
    BY <1>0, <1>1 DEF BeginAdminCall, AdminRequests
  <1>2. ASSUME NEW c \in AdminCalls, EndAdminCall(c)
        PROVE  adminCalls' \in [AdminCalls -> AdminRequests]
    BY <1>0, <1>2, RolesAssumption DEF EndAdminCall, NoAdminCall, AdminRequests, Levels
  <1>3. ASSUME NEW c \in AdminCalls, NEW actor \in AdminUsers, NEW target \in AdminUsers,
               NEW ban \in BOOLEAN, BanUser(c, actor, target, ban)
        PROVE  RolesTypeOK'
    BY <1>1, <1>3, RequestShape, RolesAssumption DEF BanUser, Levels
  <1>4. ASSUME NEW c \in AdminCalls, NEW actor \in AdminUsers, NEW target \in AdminUsers,
               NEW l \in Levels, UpdateUserRole(c, actor, target, l)
        PROVE  RolesTypeOK'
    BY <1>1, <1>4, RequestShape DEF UpdateUserRole
  <1>5. ASSUME NEW c \in AdminCalls, CommitBanUser(c)
        PROVE  RolesTypeOK'
    BY <1>0, <1>2, <1>5 DEF CommitBanUser, AdminRequests
  <1>6. ASSUME NEW c \in AdminCalls, CommitUserRole(c)
        PROVE  RolesTypeOK'
    BY <1>0, <1>2, <1>6 DEF CommitUserRole, AdminRequests
  <1>7. CASE UNCHANGED roleVars
    BY <1>7 DEF roleVars
  <1> QED
    BY <1>3, <1>4, <1>5, <1>6, <1>7 DEF RolesNext

(* In the first state the account of create_admin.py is the root.           *)
LEMMA InitRoles == RolesInit => RolesInv
  <1> SUFFICES ASSUME RolesInit PROVE RolesInv
    OBVIOUS
  <1>1. NoAdminCall \in AdminRequests /\ NoAdminCall.what = "idle"
    BY RolesAssumption DEF NoAdminCall, AdminRequests, Levels
  <1>2. \A c \in AdminCalls : adminCalls[c].what = "idle"
    BY <1>1 DEF RolesInit
  <1>3. RolesTypeOK
    <2>1. level \in [AdminUsers -> Levels] /\ banned \in [AdminUsers -> BOOLEAN]
      BY DEF RolesInit, Levels
    <2>2. adminCalls \in [AdminCalls -> AdminRequests] /\ unseated \in BOOLEAN
      BY <1>1 DEF RolesInit
    <2> QED
      BY <2>1, <2>2 DEF RolesTypeOK, AdminRequests
  <1>4. RootRemains
    BY RolesAssumption DEF RolesInit, RootRemains, Root
  <1> QED
    BY <1>2, <1>3, <1>4 DEF RolesInv, AskedLawfully

(* A request that begins changes no account.                                 *)
LEMMA BeginKeepsRoots ==
    ASSUME RolesInv, NEW c \in AdminCalls, NEW call \in AdminRequests,
           call.lawful, call.actor # call.target, BeginAdminCall(c, call)
    PROVE  RootRemains' /\ AskedLawfully'
  <1>1. \A d \in AdminCalls : adminCalls'[d] = IF d = c THEN call ELSE adminCalls[d]
    BY DEF BeginAdminCall, RolesInv, RolesTypeOK
  <1>2. RootRemains'
    BY DEF BeginAdminCall, RolesInv, RootRemains, Root
  <1> QED
    BY <1>1, <1>2 DEF RolesInv, AskedLawfully

(* A ban is decided on: its target is lower than the administrator, so it is *)
(* neither a root nor the administrator.                                     *)
LEMMA BanUserKeeps ==
    ASSUME RolesInv, NEW c \in AdminCalls, NEW actor \in AdminUsers,
           NEW target \in AdminUsers, NEW ban \in BOOLEAN, BanUser(c, actor, target, ban)
    PROVE  RootRemains' /\ AskedLawfully'
  <1> DEFINE call == BanRequest(actor, target, ban)
  <1>1. level[target] # 0 /\ actor # target
    BY DEF BanUser, RequireAdminLevel, RolesInv, RolesTypeOK, Levels
  <1>2. call.lawful /\ call.actor # call.target
    BY <1>1 DEF BanRequest
  <1>3. call \in AdminRequests
    BY RequestShape, RolesAssumption DEF RolesInv, Levels
  <1>4. BeginAdminCall(c, call)
    BY DEF BanUser
  <1> HIDE DEF call
  <1> QED
    BY <1>2, <1>3, <1>4, BeginKeepsRoots

(* A change of role is decided on: by a root, about somebody else.           *)
LEMMA UpdateUserRoleKeeps ==
    ASSUME RolesInv, NEW c \in AdminCalls, NEW actor \in AdminUsers,
           NEW target \in AdminUsers, NEW l \in Levels, UpdateUserRole(c, actor, target, l)
    PROVE  RootRemains' /\ AskedLawfully'
  <1> DEFINE call == RoleRequest(actor, target, l)
  <1>1. Root(actor) /\ actor # target
    BY DEF UpdateUserRole, RequireAdminLevel, RolesInv, RolesTypeOK, Levels, Root
  <1>2. call.lawful /\ call.actor # call.target
    BY <1>1 DEF RoleRequest
  <1>3. call \in AdminRequests
    BY RequestShape DEF RolesInv
  <1>4. BeginAdminCall(c, call)
    BY DEF UpdateUserRole
  <1> HIDE DEF call
  <1> QED
    BY <1>2, <1>3, <1>4, BeginKeepsRoots

(* A request that ends leaves the others as they were.                      *)
LEMMA EndKeepsLawful ==
    ASSUME RolesInv, NEW c \in AdminCalls, EndAdminCall(c)
    PROVE  AskedLawfully'
  BY DEF EndAdminCall, RolesInv, RolesTypeOK, NoAdminCall, AskedLawfully

(* A ban that is committed spares every root, unless it was overtaken.       *)
LEMMA CommitBanUserKeeps ==
    ASSUME RolesInv, NEW c \in AdminCalls, CommitBanUser(c)
    PROVE  RootRemains'
  <1> DEFINE me == adminCalls[c]
  <1>1. /\ me.what = "ban" /\ level' = level
        /\ me.actor \in AdminUsers /\ me.target \in AdminUsers /\ me.lawful
        /\ me.actor # me.target
    BY DEF CommitBanUser, RolesInv, RolesTypeOK, AskedLawfully
  <1>2. /\ \A a \in AdminUsers : a # me.target => banned'[a] = banned[a]
        /\ ~me.writes => banned' = banned
        /\ me.writes => banned'[me.target] = me.ban
        /\ unseated' = (unseated \/ OvertakenCall(c))
    BY <1>1 DEF CommitBanUser, RolesInv, RolesTypeOK
  <1>3. CASE unseated'
    BY <1>3 DEF RootRemains
  <1>4. CASE ~unseated'
    <2>1. ~OvertakenCall(c) /\ \E a \in AdminUsers : Root(a)
      BY <1>2, <1>4 DEF RolesInv, RootRemains
    <2>2. PICK a \in AdminUsers : Root(a) /\ (Root(me.actor) => a = me.actor)
      BY <1>1, <2>1
    <2>3. CASE a = me.target
      <3>1. ~Root(me.actor)
        BY <1>1, <2>2, <2>3
      <3>2. ~me.writes \/ ~me.ban
        BY <1>1, <2>1, <2>2, <2>3, <3>1 DEF OvertakenCall
      <3>3. ~banned'[a]
        BY <1>2, <2>2, <2>3, <3>2 DEF Root
      <3> QED
        BY <1>1, <2>2, <3>3 DEF RootRemains, Root
    <2>4. CASE a # me.target
      BY <1>1, <1>2, <2>2, <2>4 DEF RootRemains, Root
    <2> QED
      BY <2>3, <2>4
  <1> QED
    BY <1>3, <1>4

(* A change of role that is committed leaves the root that asked for it, or  *)
(* whoever is one, unless it was overtaken.                                  *)
LEMMA CommitUserRoleKeeps ==
    ASSUME RolesInv, NEW c \in AdminCalls, CommitUserRole(c)
    PROVE  RootRemains'
  <1> DEFINE me == adminCalls[c]
  <1>1. /\ me.what = "role" /\ banned' = banned
        /\ me.actor \in AdminUsers /\ me.target \in AdminUsers /\ me.lawful
        /\ me.actor # me.target
    BY DEF CommitUserRole, RolesInv, RolesTypeOK, AskedLawfully
  <1>2. /\ \A a \in AdminUsers : a # me.target => level'[a] = level[a]
        /\ ~me.writes => level' = level
        /\ me.writes => level'[me.target] = me.level
        /\ unseated' = (~Root(me.actor) /\ (unseated \/ OvertakenCall(c)))
    BY <1>1 DEF CommitUserRole, RolesInv, RolesTypeOK
  <1>3. CASE unseated'
    BY <1>3 DEF RootRemains
  <1>4. CASE Root(me.actor)
    BY <1>1, <1>2, <1>4 DEF RootRemains, Root
  <1>5. CASE ~unseated' /\ ~Root(me.actor)
    <2>1. ~OvertakenCall(c) /\ \E a \in AdminUsers : Root(a)
      BY <1>2, <1>5 DEF RolesInv, RootRemains
    <2>2. PICK a \in AdminUsers : Root(a)
      BY <2>1
    <2>3. CASE a = me.target
      <3>1. ~me.writes \/ me.level = 0
        BY <1>1, <1>5, <2>1, <2>2, <2>3 DEF OvertakenCall
      <3>2. level'[a] = 0
        BY <1>2, <2>2, <2>3, <3>1 DEF Root
      <3> QED
        BY <1>1, <2>2, <3>2 DEF RootRemains, Root
    <2>4. CASE a # me.target
      BY <1>1, <1>2, <2>2, <2>4 DEF RootRemains, Root
    <2> QED
      BY <2>3, <2>4
  <1> QED
    BY <1>3, <1>4, <1>5

(* Accounts and requests keep their types.                                   *)
THEOREM RolesTypeCorrect == RolesSpec => []RolesTypeOK
  <1>1. RolesInit => RolesTypeOK
    BY InitRoles DEF RolesInv
  <1>2. RolesTypeOK /\ [RolesNext]_roleVars => RolesTypeOK'
    BY NextRolesTypes
  <1> QED
    BY <1>1, <1>2, PTL DEF RolesSpec

(* However bans and changes of role overlap, an account of level 0 that is   *)
(* not banned remains, until a request whose actor lost that standing since   *)
(* it was let through unseats one.                                           *)
THEOREM RootsRemain == RolesSpec => []RootRemains
  <1>1. ASSUME RolesInv, [RolesNext]_roleVars
        PROVE  RolesInv'
    <2>1. RolesTypeOK'
      BY <1>1, NextRolesTypes DEF RolesInv
    <2>2. ASSUME UNCHANGED roleVars
          PROVE  RootRemains' /\ AskedLawfully'
      BY <1>1, <2>2 DEF roleVars, RolesInv, RootRemains, AskedLawfully, Root
    <2>3. ASSUME NEW c \in AdminCalls, CommitBanUser(c) \/ CommitUserRole(c)
          PROVE  RootRemains' /\ AskedLawfully'
      BY <1>1, <2>3, CommitBanUserKeeps, CommitUserRoleKeeps, EndKeepsLawful
         DEF CommitBanUser, CommitUserRole
    <2>4. RootRemains' /\ AskedLawfully'
      BY <1>1, <2>2, <2>3, BanUserKeeps, UpdateUserRoleKeeps DEF RolesNext
    <2> QED
      BY <2>1, <2>4 DEF RolesInv
  <1>2. RolesInv => RootRemains
    BY DEF RolesInv
  <1> QED
    BY <1>1, <1>2, InitRoles, PTL DEF RolesSpec

=============================================================================
