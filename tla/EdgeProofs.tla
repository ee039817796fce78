----------------------------- MODULE EdgeProofs -----------------------------
(***************************************************************************)
(* Proofs about what is around the votes, for any viewers, instances,       *)
(* requests and workers, and all values of the limits.                     *)
(*                                                                         *)
(* Viewers: the second of a token is close to the time of its issue, so     *)
(* that during its life every instance accepts it.  Until two pages mint at *)
(* once, the browser therefore keeps the first cookie that it gets, and     *)
(* every vote carries either that cookie or none.                           *)
(*                                                                         *)
(* FinalResults: a vote is taken before Accepting and is in Redis by        *)
(* LastFlush, if it is on time.  An instance that is on time refreshes in   *)
(* that unit of time, when nothing is on its way any more and the poll is   *)
(* still tracked, and saves that snapshot in the next one.  The result is   *)
(* declared immutable later.                                                *)
(*                                                                         *)
(* AccessStats: a request that no Flush has overlapped is recorded          *)
(* completely between two Flush.  The next one finds it in a counter that   *)
(* it has not reached, in latSum and below latMax, and takes it from one    *)
(* after the other; if a second Flush began meanwhile, it would be mixed.   *)
(*                                                                         *)
(* LoadGen: every vote of the schedule is at one place, so the places add   *)
(* up to next; and a vote that the service has counted is recorded, is on   *)
(* its way back, or has been recorded as an answer that never came.         *)
(***************************************************************************)
EXTENDS Viewers, FinalResults, AccessStats, LoadGen, Sums, FiniteSetTheorems, TLAPS

-----------------------------------------------------------------------------
(* Viewers.                                                                *)

\* What the server has signed: a token's second is not far from when it was issued.
Genuine(x) ==
    /\ x.nonce \in DOMAIN minted /\ x.second \in Int
    /\ minted[x.nonce] < x.second + Second
    /\ x.second <= minted[x.nonce] + ClockSkew

Signed ==
    /\ now \in Nat /\ minted \in Seq(Nat)
    /\ \A n \in DOMAIN minted : minted[n] <= now
    /\ cookie # NoToken => Genuine(cookie)
    /\ \A b \in Pages : sent[b] # NoToken => Genuine(sent[b])
    /\ \A tok \in late : Genuine(tok)

ViewersTyped ==
    /\ page \in [Pages -> {"closed", "mint", "minted", "ready", "vote", "refused"}]
    /\ sent = [b \in Pages |-> sent[b]]

\* Every token has some of its life left.
TokensLast == \A n \in DOMAIN minted : LifeLeft(n)

Minting(b) == page[b] \in {"mint", "minted"}

\* One page at most is minting; its request carries the cookie, and is answered with a new
\* one only if there is none.
OneMint ==
    /\ \A b, c \in Pages : Minting(b) /\ Minting(c) => b = c
    /\ \A b \in Pages : page[b] = "mint" => sent[b] = cookie
    /\ \A b \in Pages : page[b] = "minted" /\ cookie # NoToken => sent[b] = NoToken

\* What has voted, or is going to, is the cookie.
OneCookie ==
    /\ \A b \in Pages : page[b] = "vote" => sent[b] \in {NoToken, cookie}
    /\ late \subseteq {cookie} \ {NoToken}
    /\ accepted \subseteq (IF cookie = NoToken THEN {} ELSE {cookie.nonce})

ViewersInv == Signed /\ ViewersTyped /\ (~raced /\ TokensLast => OneMint /\ OneCookie)

-----------------------------------------------------------------------------
\* The numbers of the tokens are natural numbers.
LEMMA ViewersLimits ==
  /\ TokenTTL \in Nat /\ ClockSkew \in Nat /\ Second \in Nat /\ Second >= 1
  /\ \A s \in Skews : s \in Nat /\ s <= ClockSkew
BY ViewersAssumption

\* A genuine token is accepted by every instance for all its life.
LEMMA GenuineIsVerified ==
  ASSUME Signed, NEW x, x # NoToken, Genuine(x), LifeLeft(x.nonce), NEW s \in Skews
  PROVE  Verify(x, now + s)
<1>1. minted[x.nonce] \in Nat /\ minted[x.nonce] <= now /\ now \in Nat /\ x.second \in Int
  BY DEF Signed, Genuine
<1> QED
  BY <1>1, ViewersLimits DEF Verify, Genuine, LifeLeft

\* What an instance whose clock is ahead by s issues now is genuine once it has been recorded.
LEMMA IssueIsGenuine ==
  ASSUME Signed, NEW s \in Skews, minted' = Append(minted, now),
         NEW x, x = Issue(now + s)
  PROVE  Genuine(x)'
<1> DEFINE t == now + s
<1>1. t \in Nat /\ now <= t /\ t <= now + ClockSkew
  BY ViewersLimits DEF Signed
<1>2. x.nonce = Len(minted) + 1 /\ x.second = t - (t % Second)
  BY DEF Issue
<1> HIDE DEF t
<1>3. t % Second \in Nat /\ t % Second < Second
  BY <1>1, ViewersLimits
<1>4. Len(minted) + 1 \in DOMAIN minted' /\ minted'[Len(minted) + 1] = now
  BY DEF Signed
<1>5. now \in Nat
  BY DEF Signed
<1> QED
  BY <1>1, <1>2, <1>3, <1>4, <1>5, ViewersLimits DEF Genuine

\* Time and further tokens change nothing about the tokens that there are.
LEMMA Older ==
  ASSUME Signed, now' \in Nat, now <= now',
         minted' = minted \/ minted' = Append(minted, now)
  PROVE  /\ minted' \in Seq(Nat) /\ \A n \in DOMAIN minted' : minted'[n] <= now'
         /\ \A x : Genuine(x) => Genuine(x)'
         /\ TokensLast' => TokensLast
<1>1. minted \in Seq(Nat) /\ now \in Nat /\ \A n \in DOMAIN minted : minted[n] <= now
  BY DEF Signed
<1>2. \A n \in DOMAIN minted : n \in DOMAIN minted' /\ minted'[n] = minted[n]
  BY <1>1
<1>3. minted' \in Seq(Nat) /\ \A n \in DOMAIN minted' : minted'[n] <= now'
  <2>1. CASE minted' = minted
    BY <1>1, <2>1
  <2>2. CASE minted' = Append(minted, now)
    <3>1. DOMAIN minted' = 1..(Len(minted) + 1) /\ minted'[Len(minted) + 1] = now
      BY <1>1, <2>2
    <3>2. \A n \in DOMAIN minted' : n \in DOMAIN minted \/ n = Len(minted) + 1
      BY <1>1, <3>1
    <3>3. \A n \in DOMAIN minted : minted[n] \in Nat
      BY <1>1
    <3> QED
      BY <1>1, <1>2, <2>2, <3>1, <3>2, <3>3
  <2> QED
    BY <2>1, <2>2
<1>4. \A x : Genuine(x) => Genuine(x)'
  BY <1>2 DEF Genuine
<1>5. ASSUME TokensLast', NEW n \in DOMAIN minted
      PROVE  LifeLeft(n)
  <2>1. now' + ClockSkew + Second <= minted[n] + TokenTTL + 1
    BY <1>2, <1>5 DEF TokensLast, LifeLeft
  <2> QED
    BY <1>1, <2>1, ViewersLimits DEF LifeLeft
<1> QED
  BY <1>3, <1>4, <1>5 DEF TokensLast

\* The invariant holds at first.
LEMMA ViewersInitInv ==
  ASSUME ViewersInit, now = 0
  PROVE  ViewersInv
BY DEF ViewersInit, ViewersInv, Signed, ViewersTyped, OneMint, OneCookie, Minting

\* A page that changes alone, to x, with the token y in flight.
LEMMA PageTurns ==
  ASSUME ViewersTyped, NEW b \in Pages, NEW x, NEW y,
         x \in {"closed", "mint", "minted", "ready", "vote", "refused"},
         Turns(b, x), Carries(b, y)
  PROVE  /\ ViewersTyped'
         /\ page'[b] = x /\ sent'[b] = y
         /\ \A c \in Pages \ {b} : page'[c] = page[c] /\ sent'[c] = sent[c]
BY DEF ViewersTyped, Turns, Carries

\* handleToken keeps the invariant: during its life a token is not replaced.
LEMMA MintKeeps ==
  ASSUME ViewersInv, NEW b \in Pages, Mint(b)
  PROVE  ViewersInv'
<1>1. PICK s \in Skews :
        IF Verify(sent[b], now + s)
            THEN Carries(b, NoToken) /\ UNCHANGED minted
            ELSE /\ Len(minted) < MaxTokens
                 /\ Carries(b, Issue(now + s)) /\ minted' = Append(minted, now)
  BY DEF Mint
<1>2. PICK y : /\ Carries(b, y)
               /\ \/ y = NoToken /\ minted' = minted
                  \/ /\ y = Issue(now + s) /\ minted' = Append(minted, now)
                     /\ ~Verify(sent[b], now + s)
  BY <1>1
<1>3. /\ now' = now /\ cookie' = cookie /\ late' = late /\ accepted' = accepted
      /\ raced' = raced /\ page[b] = "mint" /\ Turns(b, "minted")
  BY DEF Mint
<1>4. /\ ViewersTyped' /\ page'[b] = "minted" /\ sent'[b] = y
      /\ \A c \in Pages \ {b} : page'[c] = page[c] /\ sent'[c] = sent[c]
  BY <1>2, <1>3, PageTurns DEF ViewersInv
<1>5. /\ minted' \in Seq(Nat) /\ \A n \in DOMAIN minted' : minted'[n] <= now'
      /\ \A x : Genuine(x) => Genuine(x)'
      /\ TokensLast' => TokensLast
  BY <1>2, <1>3, Older DEF ViewersInv, Signed
<1>6. y # NoToken => Genuine(y)'
  BY <1>2, IssueIsGenuine DEF ViewersInv
<1>7. Signed'
  BY <1>3, <1>4, <1>5, <1>6 DEF ViewersInv, Signed
<1>8. ASSUME ~raced', TokensLast'
      PROVE  OneMint' /\ OneCookie'
  <2>1. OneMint /\ OneCookie /\ TokensLast
    BY <1>3, <1>5, <1>8 DEF ViewersInv
  <2>2. cookie # NoToken => y = NoToken
    <3>1. ASSUME cookie # NoToken, y # NoToken
          PROVE  FALSE
      <4>1. sent[b] = cookie /\ Genuine(sent[b]) /\ LifeLeft(sent[b].nonce)
        BY <1>3, <2>1, <3>1 DEF ViewersInv, Signed, OneMint, TokensLast, Genuine
      <4>2. Verify(sent[b], now + s)
        BY <3>1, <4>1, GenuineIsVerified DEF ViewersInv
      <4> QED
        BY <1>2, <3>1, <4>2
    <3> QED
      BY <3>1
  <2>3. OneMint'
    BY <1>3, <1>4, <2>1, <2>2 DEF OneMint, Minting
  <2>4. OneCookie'
    BY <1>3, <1>4, <2>1 DEF OneCookie
  <2> QED
    BY <2>3, <2>4
<1> QED
  BY <1>4, <1>7, <1>8 DEF ViewersInv

\* The votes keep the invariant: those that arrive carry the cookie.
LEMMA VoteKeeps ==
  ASSUME ViewersInv, VoteLate \/ \E b \in Pages : Vote(b)
  PROVE  ViewersInv'
<1>1. /\ now' = now /\ cookie' = cookie /\ minted' = minted /\ raced' = raced
      /\ sent' = sent /\ late' \subseteq late
  BY DEF Vote, VoteLate
<1>2. ViewersTyped' /\ \A b \in Pages : page'[b] = page[b] \/ page'[b] \in {"closed", "refused"}
  BY DEF Vote, VoteLate, Turns, ViewersInv, ViewersTyped
<1>3. Signed' /\ (TokensLast' => TokensLast)
  BY <1>1 DEF ViewersInv, Signed, Genuine, TokensLast, LifeLeft
<1>4. accepted' \subseteq accepted \cup {tok.nonce : tok \in late}
                          \cup {sent[b].nonce : b \in {c \in Pages : page[c] = "vote" /\ sent[c] # NoToken}}
  BY DEF Vote, VoteLate, Verify
<1>5. ASSUME ~raced', TokensLast'
      PROVE  OneMint' /\ OneCookie'
  <2>1. OneMint /\ OneCookie
    BY <1>1, <1>3, <1>5 DEF ViewersInv
  <2>2. OneMint'
    BY <1>1, <1>2, <2>1 DEF OneMint, Minting
  <2>3. accepted' \subseteq (IF cookie = NoToken THEN {} ELSE {cookie.nonce})
    BY <1>4, <2>1 DEF OneCookie
  <2> QED
    BY <1>1, <1>2, <2>1, <2>2, <2>3 DEF OneCookie
<1> QED
  BY <1>2, <1>3, <1>5 DEF ViewersInv

\* The first cookie finds nothing that has voted, or is going to, with another one.
LEMMA ShowKeeps ==
  ASSUME ViewersInv, NEW b \in Pages, Show(b)
  PROVE  ViewersInv'
<1>1. /\ now' = now /\ late' = late /\ minted' = minted /\ accepted' = accepted
      /\ raced' = raced /\ page[b] = "minted" /\ Turns(b, "ready") /\ Carries(b, NoToken)
      /\ cookie' = IF sent[b] = NoToken THEN cookie ELSE sent[b]
  BY DEF Show
<1>2. /\ ViewersTyped' /\ page'[b] = "ready" /\ sent'[b] = NoToken
      /\ \A c \in Pages \ {b} : page'[c] = page[c] /\ sent'[c] = sent[c]
  BY <1>1, PageTurns DEF ViewersInv
<1>3. Signed' /\ (TokensLast' => TokensLast)
  BY <1>1, <1>2 DEF ViewersInv, Signed, Genuine, TokensLast, LifeLeft
<1>4. ASSUME ~raced', TokensLast'
      PROVE  OneMint' /\ OneCookie'
  <2>1. OneMint /\ OneCookie
    BY <1>1, <1>3, <1>4 DEF ViewersInv
  <2>2. cookie # NoToken => cookie' = cookie
    BY <1>1, <2>1 DEF OneMint
  <2>3. \A c \in Pages : ~Minting(c)'
    BY <1>1, <1>2, <2>1 DEF OneMint, Minting
  <2>4. OneMint'
    BY <2>3 DEF OneMint, Minting
  <2>5. OneCookie'
    BY <1>1, <1>2, <2>1, <2>2 DEF OneCookie
  <2> QED
    BY <2>4, <2>5
<1> QED
  BY <1>2, <1>3, <1>4 DEF ViewersInv

\* The other steps of a page keep the invariant.
LEMMA PageKeeps ==
  ASSUME ViewersInv, NEW b \in Pages, Open(b) \/ MintLost(b) \/ Submit(b) \/ GiveUp(b)
  PROVE  ViewersInv'
<1>1. /\ now' = now /\ cookie' = cookie /\ minted' = minted /\ accepted' = accepted
      /\ (raced => raced')
  <2>1. now' = now /\ cookie' = cookie /\ minted' = minted /\ accepted' = accepted
    BY DEF Open, MintLost, Submit, GiveUp
  <2>2. raced => raced'
    BY Zenon DEF Open, MintLost, Submit, GiveUp
  <2> QED
    BY <2>1, <2>2
<1>2. PICK x, y :
        /\ Turns(b, x) /\ Carries(b, y) /\ y \in {NoToken, cookie}
        /\ \/ x = "mint" /\ y = cookie
              /\ (~raced' => \A c \in Pages \ {b} : page[c] \notin {"mint", "minted"})
           \/ x \in {"closed", "ready", "vote"}
  BY DEF Open, MintLost, Submit, GiveUp
<1>3. /\ ViewersTyped' /\ page'[b] = x /\ sent'[b] = y
      /\ \A c \in Pages \ {b} : page'[c] = page[c] /\ sent'[c] = sent[c]
  <2>1. ViewersTyped /\ x \in {"closed", "mint", "minted", "ready", "vote", "refused"}
    BY <1>2 DEF ViewersInv
  <2> QED
    BY <1>2, <2>1, PageTurns
<1>4. \/ late' = late
      \/ late' = late \cup ({sent[b]} \ {NoToken}) /\ page[b] = "vote"
  BY DEF Open, MintLost, Submit, GiveUp
<1>5. Signed' /\ (TokensLast' => TokensLast)
  BY <1>1, <1>2, <1>3, <1>4 DEF ViewersInv, Signed, Genuine, TokensLast, LifeLeft
<1>6. ASSUME ~raced', TokensLast'
      PROVE  OneMint' /\ OneCookie'
  <2>1. OneMint /\ OneCookie
    BY <1>1, <1>5, <1>6 DEF ViewersInv
  <2>2. OneMint'
    BY <1>1, <1>2, <1>3, <1>6, <2>1 DEF OneMint, Minting
  <2>3. OneCookie'
    BY <1>1, <1>2, <1>3, <1>4, <2>1 DEF OneCookie
  <2> QED
    BY <2>2, <2>3
<1> QED
  BY <1>3, <1>5, <1>6 DEF ViewersInv

\* Every step keeps the invariant.
LEMMA ViewersNextInv ==
  ASSUME ViewersInv, [ViewersNext]_<<now, viewersVars>>
  PROVE  ViewersInv'
<1>1. CASE ViewersTick
  <2>1. now' \in Nat /\ now <= now' /\ UNCHANGED viewersVars
    BY <1>1 DEF ViewersTick, Passes, viewersVars, ViewersInv, Signed
  <2>2. Signed' /\ (TokensLast' => TokensLast)
    BY <2>1, Older DEF viewersVars, ViewersInv, Signed
  <2> QED
    BY <2>1, <2>2 DEF viewersVars, ViewersInv, ViewersTyped, OneMint, OneCookie, Minting
<1>2. CASE UNCHANGED <<now, viewersVars>>
  BY <1>2
  DEF viewersVars, ViewersInv, Signed, Genuine, ViewersTyped, TokensLast, LifeLeft, OneMint, OneCookie, Minting
<1> QED
  BY <1>1, <1>2, MintKeeps, VoteKeeps, ShowKeeps, PageKeeps DEF ViewersNext

\* The inductive invariant holds in every state.
THEOREM ViewersInvariance == ViewersSpec => []ViewersInv
BY ViewersInitInv, ViewersNextInv, PTL DEF ViewersSpec

\* A browser whose pages do not mint at once has one vote, while its tokens live (token.go
\* handleToken, vote.go voterFrom).
THEOREM OneVote == ViewersSpec => []OneVotePerBrowser
<1>1. ASSUME ViewersInv
      PROVE  OneVotePerBrowser
  <2>1. SUFFICES ASSUME ~raced, TokensLast
                 PROVE  Cardinality(accepted) <= 1
    BY DEF OneVotePerBrowser, TokensLast
  <2>2. PICK n : accepted \subseteq {n}
    BY <1>1, <2>1 DEF ViewersInv, OneCookie
  <2>3. IsFiniteSet({n}) /\ Cardinality({n}) = 1
    BY FS_Singleton
  <2> QED
    BY <2>2, <2>3, FS_Subset, FS_CardinalityType
<1> QED
  BY <1>1, ViewersInvariance, PTL

\* No instance refuses a vote that carries a living token (hmac.go Verify, clockSkew).
THEOREM HonestVotesCount == ViewersSpec => HonestVoteCounts
<1> DEFINE Accepts ==
      \A b \in Pages : page[b] = "vote" /\ sent[b] # NoToken /\ LifeLeft(sent[b].nonce)
                           => page'[b] # "refused"
<1>1. ASSUME ViewersInv, [ViewersNext]_<<now, viewersVars>>
      PROVE  [Accepts]_viewersVars
  <2>1. SUFFICES ASSUME NEW b \in Pages, page[b] = "vote", sent[b] # NoToken,
                        LifeLeft(sent[b].nonce), page'[b] = "refused"
                 PROVE  FALSE
    OBVIOUS
  <2>2. Vote(b)
    BY <1>1, <2>1
    DEF ViewersNext, Mint, Vote, Open, Show, MintLost, Submit, GiveUp, VoteLate, ViewersTick,
        Turns, viewersVars, ViewersInv, ViewersTyped
  <2>3. \A s \in Skews : Verify(sent[b], now + s)
    BY <1>1, <2>1, GenuineIsVerified DEF ViewersInv, Signed
  <2> QED
    BY <1>1, <2>1, <2>2, <2>3 DEF Vote, Turns, ViewersInv, ViewersTyped
<1> QED
  BY <1>1, ViewersInvariance, PTL DEF ViewersSpec, HonestVoteCounts

\* Every token that exists has been issued within the bounds.
ViewersBounded ==
    /\ now \in 0..ViewersEnd /\ Len(minted) <= MaxTokens /\ ViewersTypeOK

\* The second of a token is a natural number.
LEMMA IssueIsToken ==
  ASSUME Signed, now <= ViewersEnd, Len(minted) < MaxTokens, NEW s \in Skews
  PROVE  Issue(now + s) \in Tokens
<1> DEFINE t == now + s
<1>1. t \in Nat /\ t <= ViewersEnd + ClockSkew
  BY ViewersLimits, ViewersAssumption DEF Signed
<1>2. Len(minted) + 1 \in 1..MaxTokens
  BY ViewersAssumption DEF Signed
<1> HIDE DEF t
<1>3. t - (t % Second) \in 0..t
  <2>1. t % Second \in Nat /\ t \div Second \in Nat /\ t = Second * (t \div Second) + (t % Second)
    BY <1>1, ViewersLimits
  <2>2. Second * (t \div Second) \in Nat
    BY <2>1, ViewersLimits
  <2> DEFINE a == Second * (t \div Second)
             r == t % Second
  <2>3. a \in Nat /\ r \in Nat /\ t = a + r
    BY <2>1, <2>2
  <2> HIDE DEF a, r
  <2>4. t - r \in 0..t
    BY <1>1, <2>3
  <2> QED
    BY <2>4 DEF r
<1>4. t - (t % Second) \in 0..(ViewersEnd + ClockSkew)
  BY <1>1, <1>3, ViewersAssumption
<1> QED
  BY <1>2, <1>4 DEF Issue, Tokens, t

\* Every step of a page, a vote or the clock keeps the types.
LEMMA ViewersTypesKeep ==
  ASSUME ViewersInv, ViewersBounded, [ViewersNext]_<<now, viewersVars>>
  PROVE  ViewersBounded'
<1>1. /\ cookie \in Tokens \cup {NoToken} /\ sent \in [Pages -> Tokens \cup {NoToken}]
      /\ page \in [Pages -> {"closed", "mint", "minted", "ready", "vote", "refused"}]
      /\ late \subseteq Tokens /\ accepted \subseteq DOMAIN minted /\ raced \in BOOLEAN
      /\ now \in 0..ViewersEnd /\ Len(minted) <= MaxTokens
      /\ \A n \in DOMAIN minted : minted[n] \in 0..now
  BY DEF ViewersBounded, ViewersTypeOK
<1>2. minted \in Seq(Nat) /\ DOMAIN minted = 1..Len(minted) /\ Len(minted) \in Nat /\ now \in Nat
  BY DEF ViewersInv, Signed
<1>3. ASSUME NEW b \in Pages, Mint(b)
      PROVE  ViewersBounded'
  <2>1. PICK s \in Skews :
          \/ Carries(b, NoToken) /\ minted' = minted
          \/ Len(minted) < MaxTokens /\ Carries(b, Issue(now + s)) /\ minted' = Append(minted, now)
    BY <1>3 DEF Mint
  <2>2. sent' \in [Pages -> Tokens \cup {NoToken}]
    <3>1. CASE Carries(b, NoToken)
      BY <1>1, <3>1 DEF Carries
    <3>2. CASE Len(minted) < MaxTokens /\ Carries(b, Issue(now + s))
      <4>1. Issue(now + s) \in Tokens
        BY <1>1, <3>2, IssueIsToken DEF ViewersInv
      <4> QED
        BY <1>1, <3>2, <4>1 DEF Carries
    <3> QED
      BY <2>1, <3>1, <3>2
  <2>3. /\ Len(minted') <= MaxTokens /\ DOMAIN minted \subseteq DOMAIN minted'
        /\ \A n \in DOMAIN minted' : minted'[n] \in 0..now
    <3>1. CASE minted' = minted
      BY <1>1, <3>1
    <3>2. CASE Len(minted) < MaxTokens /\ minted' = Append(minted, now)
      BY <1>1, <1>2, <3>2, ViewersAssumption
    <3> QED
      BY <2>1, <3>1, <3>2
  <2>4. page' \in [Pages -> {"closed", "mint", "minted", "ready", "vote", "refused"}]
    BY <1>1, <1>3 DEF Mint, Turns
  <2> QED
    BY <1>1, <1>3, <2>2, <2>3, <2>4 DEF Mint, ViewersBounded, ViewersTypeOK
<1>4. ASSUME NEW b \in Pages, Vote(b)
      PROVE  ViewersBounded'
  <2>1. accepted' \subseteq DOMAIN minted
    <3>1. PICK s \in Skews : accepted' = accepted
                             \/ (Verify(sent[b], now + s) /\ accepted' = accepted \cup {sent[b].nonce})
      BY <1>4 DEF Vote
    <3>2. Verify(sent[b], now + s) => sent[b].nonce \in DOMAIN minted
      BY DEF Verify, ViewersInv, Signed, Genuine
    <3> QED
      BY <1>1, <3>1, <3>2
  <2> QED
    BY <1>1, <1>4, <2>1 DEF Vote, Turns, ViewersBounded, ViewersTypeOK
<1>5. CASE VoteLate
  <2>1. accepted' \subseteq DOMAIN minted /\ late' \subseteq late
    BY <1>1, <1>5 DEF VoteLate, ViewersInv, Signed, Genuine
  <2> QED
    BY <1>1, <1>5, <2>1 DEF VoteLate, ViewersBounded, ViewersTypeOK
<1>6. ASSUME NEW b \in Pages, Open(b) \/ Show(b) \/ MintLost(b) \/ Submit(b) \/ GiveUp(b)
      PROVE  ViewersBounded'
  <2>1. /\ page' \in [Pages -> {"closed", "mint", "minted", "ready", "vote", "refused"}]
        /\ sent' \in [Pages -> Tokens \cup {NoToken}]
        /\ UNCHANGED <<now, minted, accepted>>
    BY <1>1, <1>6 DEF Open, Show, MintLost, Submit, GiveUp, Turns, Carries
  <2>2. cookie' \in Tokens \cup {NoToken} /\ late' \subseteq Tokens /\ raced' \in BOOLEAN
    BY <1>1, <1>6 DEF Open, Show, MintLost, Submit, GiveUp
  <2> QED
    BY <1>1, <2>1, <2>2 DEF ViewersBounded, ViewersTypeOK
<1>7. CASE ViewersTick \/ UNCHANGED <<now, viewersVars>>
  <2>1. UNCHANGED viewersVars
    BY <1>7 DEF ViewersTick, viewersVars
  <2>2. now' \in 0..ViewersEnd /\ now <= now'
    <3>1. CASE ViewersTick
      <4>1. now < ViewersEnd /\ now' = now + 1
        BY <3>1 DEF ViewersTick, Passes
      <4> QED
        BY <1>1, <4>1, ViewersAssumption
    <3>2. CASE now' = now
      BY <1>1, <3>2
    <3> QED
      BY <1>7, <3>1, <3>2
  <2>3. \A n \in DOMAIN minted : minted[n] \in 0..now'
    BY <1>1, <2>2
  <2> QED
    BY <1>1, <2>1, <2>2, <2>3 DEF viewersVars, ViewersBounded, ViewersTypeOK
<1> QED
  BY <1>3, <1>4, <1>5, <1>6, <1>7 DEF ViewersNext

\* At first there is no token.
LEMMA ViewersInitTyped == ViewersInit /\ now = 0 => ViewersBounded
<1> SUFFICES ASSUME ViewersInit, now = 0 PROVE ViewersBounded
  OBVIOUS
<1>1. now \in 0..ViewersEnd /\ minted = <<>> /\ Len(minted) <= MaxTokens /\ DOMAIN minted = {}
  BY ViewersAssumption DEF ViewersInit
<1> QED
  BY <1>1 DEF ViewersInit, ViewersBounded, ViewersTypeOK

\* The types of the browser and of the token service.
THEOREM ViewersTypesHold == ViewersSpec => []ViewersTypeOK
<1>1. ViewersSpec => [](ViewersInv /\ ViewersBounded)
  BY ViewersInitInv, ViewersInitTyped, ViewersNextInv, ViewersTypesKeep, PTL DEF ViewersSpec
<1>2. ViewersBounded => ViewersTypeOK
  BY DEF ViewersBounded
<1> QED
  BY <1>1, <1>2, PTL

-----------------------------------------------------------------------------
(* FinalResults.                                                           *)

Accepting == EndsAt + Grace
LastFlush == Accepting + FlushLimit

\* Nothing that Postgres or a snapshot holds exceeds what Redis has counted.
Below == row <= InRedis /\ \A i \in Servers : snap[i] <= InRedis

\* A vote on its way was taken in time, and is not late yet.
OnTheWay ==
    \A v \in Ballots : ballot[v] = "accepted" =>
        cast[v] < Accepting /\ (delayed \/ now <= cast[v] + FlushLimit)

\* An instance that is on time has the poll in its cache.
InCache == prompt \subseteq cached

\* Its snapshot is complete from its refresh at LastFlush on, as long as it tracks the poll, ...
SnapshotComplete ==
    \A i \in prompt :
        ~delayed /\ TrackedBy(i) /\ ((now = LastFlush /\ i \in refreshed) \/ now > LastFlush) =>
            snap[i] = InRedis

\* ... and so is the stored count once it has saved after that.
RowComplete ==
    \A i \in prompt :
        ~delayed /\ ((now = LastFlush + 1 /\ i \in saved) \/ now > LastFlush + 1) => row = InRedis

FinalInv ==
    /\ now \in 0..ResultsEnd /\ FinalTypeOK
    /\ Below /\ OnTheWay /\ InCache /\ SnapshotComplete /\ RowComplete

-----------------------------------------------------------------------------
\* The counts of votes are natural numbers, at most that of the poll's votes.
LEMMA FlushedCounts ==
  /\ InRedis \in Nat /\ Accepted \in Nat /\ Cardinality(Ballots) \in Nat
  /\ InRedis <= Cardinality(Ballots) /\ InRedis <= Accepted
<1> DEFINE S == {v \in Ballots : ballot[v] # "none"}
<1>1. IsFiniteSet(S) /\ {v \in Ballots : ballot[v] = "counted"} \subseteq S
  BY FinalAssumption, FS_Subset
<1>2. InRedis <= Accepted
  BY <1>1, FS_Subset DEF InRedis, Accepted
<1> QED
  BY <1>2, FinalAssumption, FS_Subset, FS_CardinalityType DEF InRedis, Accepted

\* As long as the votes in Redis stay there, their number does not go down.
LEMMA FlushedGrow ==
  ASSUME \A v \in Ballots : ballot[v] = "counted" => ballot'[v] = "counted"
  PROVE  InRedis' \in Nat /\ InRedis <= InRedis' /\ InRedis' <= Cardinality(Ballots)
<1> DEFINE S == {v \in Ballots : ballot'[v] = "counted"}
<1>1. IsFiniteSet(S) /\ Cardinality(S) <= Cardinality(Ballots)
  BY FinalAssumption, FS_Subset
<1>2. {v \in Ballots : ballot[v] = "counted"} \subseteq S
  OBVIOUS
<1>3. Cardinality({v \in Ballots : ballot[v] = "counted"}) <= Cardinality(S)
  BY <1>1, <1>2, FS_Subset
<1> QED
  BY <1>1, <1>3, FS_CardinalityType DEF InRedis

\* Without a delay, no vote is on its way from LastFlush on.
LEMMA NothingOnTheWay ==
  ASSUME FinalInv, ~delayed, now >= LastFlush
  PROVE  \A v \in Ballots : ballot[v] # "accepted"
BY FinalAssumption DEF FinalInv, FinalTypeOK, OnTheWay, LastFlush, Accepting

\* An instance that is on time tracks the poll one unit after LastFlush, and an instance that
\* tracks it has tracked it before.
LEMMA WindowOpen ==
  ASSUME FinalInv, NEW i \in prompt
  PROVE  /\ now <= LastFlush + 1 => TrackedBy(i)
         /\ TrackedBy(i)' /\ now' \in Nat /\ now <= now' => TrackedBy(i)
BY FinalAssumption DEF FinalInv, InCache, TrackedBy, LastFlush, Accepting

\* The limits of the poll are natural numbers.
LEMMA FinalLimits ==
  /\ EndsAt \in Nat /\ Grace \in Nat /\ Settle \in Nat /\ SettleWindow \in Nat
  /\ ResultsEnd \in Nat /\ FlushLimit \in Nat
  /\ FlushLimit + 2 <= Settle /\ Grace + Settle <= SettleWindow
BY FinalAssumption

\* The invariant holds at first.
LEMMA FinalInitInv ==
  ASSUME FinalInit, now = 0
  PROVE  FinalInv
<1>1. InRedis = 0
  <2>1. {v \in Ballots : ballot[v] = "counted"} = {}
    BY DEF FinalInit
  <2> QED
    BY <2>1, FS_EmptySet DEF InRedis
<1>2. FinalTypeOK /\ now \in 0..ResultsEnd
  <2>1. /\ 0 \in 0..ResultsEnd /\ 0 \in 0..Cardinality(Ballots)
        /\ NoSnapshot \in NoSnapshot..Cardinality(Ballots)
    BY FinalLimits, FlushedCounts DEF NoSnapshot
  <2>2. delayed \in BOOLEAN
    BY DEF FinalInit
  <2>3. /\ ballot \in [Ballots -> {"none", "accepted", "counted"}]
        /\ cast \in [Ballots -> 0..ResultsEnd]
        /\ snap \in [Servers -> NoSnapshot..Cardinality(Ballots)]
    BY <2>1 DEF FinalInit
  <2> QED
    BY <2>1, <2>2, <2>3 DEF FinalInit, FinalTypeOK
<1>3. Below
  BY <1>1 DEF FinalInit, Below, NoSnapshot
<1>4. OnTheWay /\ InCache
  BY DEF FinalInit, OnTheWay, InCache
<1>5. SnapshotComplete /\ RowComplete
  BY FinalLimits DEF FinalInit, SnapshotComplete, RowComplete, LastFlush, Accepting
<1> QED
  BY <1>2, <1>3, <1>4, <1>5 DEF FinalInv

\* A vote that is taken keeps the invariant.
LEMMA CastKeeps ==
  ASSUME FinalInv, NEW v \in Ballots, Cast(v)
  PROVE  FinalInv'
<1>1. InRedis' = InRedis
  <2>1. \A w \in Ballots : ballot'[w] = "counted" <=> ballot[w] = "counted"
    BY DEF Cast, FinalInv, FinalTypeOK
  <2> QED
    BY <2>1 DEF InRedis
<1>2. now < Accepting /\ now' = now /\ now < LastFlush
  BY FinalLimits DEF Cast, AcceptsVoteAt, LastFlush, Accepting, FinalInv
<1>3. FinalTypeOK' /\ now' \in 0..ResultsEnd
  BY <1>2 DEF Cast, FinalInv, FinalTypeOK
<1>4. Below'
  BY <1>1 DEF Cast, FinalInv, Below
<1>5. OnTheWay'
  <2>1. ASSUME NEW w \in Ballots, ballot'[w] = "accepted"
        PROVE  cast'[w] < Accepting /\ (delayed' \/ now' <= cast'[w] + FlushLimit)
    <3>1. CASE w = v
      BY <1>2, <3>1, FinalLimits DEF Cast, FinalInv, FinalTypeOK
    <3>2. CASE w # v
      BY <1>2, <2>1, <3>2 DEF Cast, FinalInv, FinalTypeOK, OnTheWay
    <3> QED
      BY <3>1, <3>2
  <2> QED
    BY <2>1 DEF OnTheWay, Accepting
<1>6. InCache'
  BY DEF Cast, FinalInv, InCache
<1>7. SnapshotComplete' /\ RowComplete'
  <2>1. now \in Nat /\ ~(now = LastFlush) /\ ~(now > LastFlush) /\ ~(now = LastFlush + 1)
        /\ ~(now > LastFlush + 1)
    BY <1>2, FinalLimits DEF FinalInv, LastFlush, Accepting
  <2> QED
    BY <1>2, <2>1 DEF SnapshotComplete, RowComplete, LastFlush, Accepting
<1> QED
  BY <1>3, <1>4, <1>5, <1>6, <1>7 DEF FinalInv

\* A flush keeps the invariant.
LEMMA FlushedKeeps ==
  ASSUME FinalInv, NEW v \in Ballots, Flushed(v)
  PROVE  FinalInv'
<1>1. InRedis' \in Nat /\ InRedis <= InRedis'
  <2>1. \A w \in Ballots : ballot[w] = "counted" => ballot'[w] = "counted"
    BY DEF Flushed, FinalInv, FinalTypeOK
  <2> QED
    BY <2>1, FlushedGrow
<1>2. delayed \/ now < LastFlush
  BY NothingOnTheWay, FinalLimits DEF Flushed, FinalInv, LastFlush, Accepting
<1>3. FinalTypeOK' /\ OnTheWay' /\ InCache' /\ now' = now
  BY FinalLimits DEF Flushed, FinalInv, FinalTypeOK, OnTheWay, InCache, Accepting
<1>4. Below'
  BY <1>1, FlushedCounts DEF Flushed, FinalInv, FinalTypeOK, Below, NoSnapshot
<1>5. SnapshotComplete' /\ RowComplete'
  BY <1>2, FinalLimits DEF Flushed, FinalInv, SnapshotComplete, RowComplete, LastFlush, Accepting
<1> QED
  BY <1>3, <1>4, <1>5 DEF FinalInv

\* What an instance that is on time refreshes until LastFlush + 1 is complete.
LEMMA RefreshKeeps ==
  ASSUME FinalInv, NEW i \in Servers, RefreshOf(i)
  PROVE  FinalInv'
<1>1. InRedis' = InRedis /\ now' = now /\ row' = row /\ delayed' = delayed /\ prompt' = prompt
  BY DEF RefreshOf, InRedis
<1>2. snap'[i] = (IF TrackedBy(i) THEN InRedis ELSE NoSnapshot)
  BY DEF RefreshOf, FinalInv, FinalTypeOK
<1>3. \A j \in Servers \ {i} : snap'[j] = snap[j]
  BY DEF RefreshOf, FinalInv, FinalTypeOK
<1>4. \A j \in prompt : TrackedBy(j)' => TrackedBy(j)
  BY DEF RefreshOf, TrackedBy
<1>5. FinalTypeOK' /\ OnTheWay' /\ InCache'
  BY FlushedCounts DEF RefreshOf, FinalInv, FinalTypeOK, OnTheWay, InCache, NoSnapshot
<1>6. Below'
  BY <1>1, <1>2, <1>3, FlushedCounts DEF FinalInv, Below, NoSnapshot
<1>7. SnapshotComplete'
  <2>1. prompt \subseteq Servers /\ refreshed' = refreshed \cup {i}
    BY DEF RefreshOf, FinalInv, FinalTypeOK
  <2>2. ASSUME NEW j \in prompt, ~delayed, TrackedBy(j),
               (now = LastFlush /\ j \in refreshed') \/ now > LastFlush
        PROVE  snap'[j] = InRedis
    <3>1. CASE j = i
      BY <1>2, <2>2, <3>1
    <3>2. CASE j # i
      BY <1>3, <2>1, <2>2, <3>2 DEF FinalInv, SnapshotComplete
    <3> QED
      BY <3>1, <3>2
  <2> QED
    BY <1>1, <1>4, <2>2 DEF SnapshotComplete, LastFlush, Accepting
<1>8. RowComplete'
  BY <1>1 DEF RefreshOf, FinalInv, RowComplete, LastFlush, Accepting
<1> QED
  BY <1>1, <1>5, <1>6, <1>7, <1>8 DEF FinalInv

\* Whoever saves, the stored count reaches that of Redis and stays there.
LEMMA PersistKeeps ==
  ASSUME FinalInv, NEW i \in Servers, PersistOf(i)
  PROVE  FinalInv'
<1>1. /\ InRedis' = InRedis /\ now' = now /\ snap' = snap /\ delayed' = delayed
      /\ prompt' = prompt /\ refreshed' = refreshed /\ cached' = cached
  BY DEF PersistOf, InRedis
<1>2. /\ row \in Nat /\ snap[i] \in Int /\ row <= InRedis /\ snap[i] <= InRedis
      /\ snap[i] >= -1 /\ InRedis \in Nat
  BY FlushedCounts DEF FinalInv, FinalTypeOK, Below, NoSnapshot
<1>3. /\ row' \in Nat /\ row <= row' /\ snap[i] <= row' /\ row' <= InRedis
  BY <1>2 DEF PersistOf, Higher
<1>4. FinalTypeOK'
  BY <1>3, FlushedCounts DEF PersistOf, FinalInv, FinalTypeOK
<1>5. Below' /\ OnTheWay' /\ InCache' /\ SnapshotComplete'
  BY <1>1, <1>3
  DEF PersistOf, FinalInv, Below, OnTheWay, InCache, SnapshotComplete, TrackedBy, LastFlush, Accepting
<1>6. RowComplete'
  <2>1. saved' = saved \cup {i}
    BY DEF PersistOf
  <2>2. ASSUME NEW j \in prompt, ~delayed, (now = LastFlush + 1 /\ j \in saved') \/ now > LastFlush + 1
        PROVE  row' = InRedis
    <3>1. CASE row = InRedis
      BY <1>2, <1>3, <3>1
    <3>2. CASE row # InRedis
      <4>1. now = LastFlush + 1 /\ j = i
        BY <2>1, <2>2, <3>2 DEF FinalInv, RowComplete
      <4>2. snap[i] = InRedis
        <5>1. TrackedBy(j) /\ now > LastFlush
          BY <2>2, <4>1, WindowOpen, FinalLimits DEF FinalInv, LastFlush, Accepting
        <5> QED
          BY <2>2, <4>1, <5>1 DEF FinalInv, SnapshotComplete
      <4> QED
        BY <1>2, <1>3, <4>2
    <3> QED
      BY <3>1, <3>2
  <2> QED
    BY <1>1, <2>2 DEF RowComplete, LastFlush, Accepting
<1> QED
  BY <1>1, <1>4, <1>5, <1>6 DEF FinalInv

\* A restart, or a request for the poll, keeps the invariant: who restarts is not on time.
LEMMA RestartKeeps ==
  ASSUME FinalInv, NEW i \in Servers, RestartOf(i) \/ AskOf(i)
  PROVE  FinalInv'
<1>1. InRedis' = InRedis
  BY DEF RestartOf, AskOf, InRedis
<1>2. CASE RestartOf(i)
  <2>1. /\ \A j \in prompt' : j \in prompt /\ j # i /\ snap'[j] = snap[j]
        /\ row' = row /\ now' = now /\ delayed' = delayed
        /\ refreshed' = refreshed /\ saved' = saved
    BY <1>2 DEF RestartOf, FinalInv, FinalTypeOK
  <2>5. \A j \in prompt' : TrackedBy(j)' => TrackedBy(j)
    BY <2>1, WindowOpen DEF FinalInv
  <2>2. FinalTypeOK' /\ OnTheWay' /\ InCache'
    BY <1>2, FlushedCounts DEF RestartOf, FinalInv, FinalTypeOK, OnTheWay, InCache, NoSnapshot
  <2>3. Below'
    BY <1>1, <1>2, FlushedCounts DEF RestartOf, FinalInv, FinalTypeOK, Below, NoSnapshot
  <2>4. SnapshotComplete' /\ RowComplete'
    BY <1>1, <2>1, <2>5 DEF FinalInv, SnapshotComplete, RowComplete, LastFlush, Accepting
  <2> QED
    BY <2>1, <2>2, <2>3, <2>4 DEF FinalInv
<1>3. CASE AskOf(i)
  BY <1>1, <1>3
  DEF AskOf, FinalInv, FinalTypeOK, Below, OnTheWay, InCache, SnapshotComplete, RowComplete,
      TrackedBy, LastFlush, Accepting
<1> QED
  BY <1>2, <1>3

\* Time goes on: who stays on time has refreshed and saved.
LEMMA FinalTickKeeps ==
  ASSUME FinalInv, FinalTick
  PROVE  FinalInv'
<1>1. /\ InRedis' = InRedis /\ now' = now + 1 /\ row' = row /\ snap' = snap /\ cached' = cached
      /\ now \in Nat /\ now < ResultsEnd
  BY DEF FinalTick, Passes, InRedis, FinalInv
<1>2. /\ prompt' = prompt \cap refreshed \cap saved /\ refreshed' = {} /\ saved' = {}
      /\ (delayed => delayed')
  BY DEF FinalTick, FinalInv, FinalTypeOK
<1>3. FinalTypeOK' /\ now' \in 0..ResultsEnd /\ Below' /\ InCache'
  BY <1>1, <1>2, FinalLimits DEF FinalTick, FinalInv, FinalTypeOK, Below, InCache
<1>4. OnTheWay'
  <2>1. ballot' = ballot /\ cast' = cast
    BY DEF FinalTick
  <2>2. ASSUME NEW v \in Ballots, ballot[v] = "accepted", ~delayed'
        PROVE  now' <= cast[v] + FlushLimit
    <3>1. ~(now' > cast[v] + FlushLimit)
      BY <2>2 DEF FinalTick
    <3> QED
      BY <1>1, <3>1, FinalLimits DEF FinalInv, FinalTypeOK
  <2> QED
    BY <2>1, <2>2 DEF FinalInv, OnTheWay, Accepting
<1>5. SnapshotComplete' /\ RowComplete'
  <2>1. \A j \in prompt' : j \in prompt /\ j \in refreshed /\ j \in saved
                              /\ (TrackedBy(j)' => TrackedBy(j))
    BY <1>1, <1>2, WindowOpen
  <2>2. now \in Nat /\ LastFlush \in Nat /\ now' = now + 1
    BY <1>1, FinalLimits DEF LastFlush, Accepting
  <2>3. SnapshotComplete'
    BY <1>1, <1>2, <2>1, <2>2 DEF FinalInv, SnapshotComplete, LastFlush, Accepting
  <2>4. RowComplete'
    BY <1>1, <1>2, <2>1, <2>2 DEF FinalInv, RowComplete, LastFlush, Accepting
  <2> QED
    BY <2>3, <2>4
<1> QED
  BY <1>1, <1>3, <1>4, <1>5 DEF FinalInv

\* Every step keeps the invariant.
LEMMA FinalNextInv ==
  ASSUME FinalInv, [FinalNext]_<<now, finalVars>>
  PROVE  FinalInv'
<1>1. CASE UNCHANGED <<now, finalVars>>
  BY <1>1
  DEF finalVars, FinalInv, FinalTypeOK, Below, InRedis, OnTheWay, InCache, SnapshotComplete,
      RowComplete, TrackedBy
<1> QED
  BY <1>1, CastKeeps, FlushedKeeps, RefreshKeeps, PersistKeeps, RestartKeeps, FinalTickKeeps
  DEF FinalNext

\* The inductive invariant holds in every state.
THEOREM FinalInvariance == FinalSpec => []FinalInv
BY FinalInitInv, FinalNextInv, PTL DEF FinalSpec

\* Every answer that is declared immutable is the count of all accepted votes, if they reached
\* Redis in time and Postgres answers and some instance kept on time, or if it does not answer
\* and the instance itself kept on time and tracks the poll; and it is never above that count
\* (poll.go handlePublicResults, resultsSettle, and the failed read of resultsOf).
THEOREM ImmutableAnswersAreFinal == FinalSpec => []ImmutableIsFinal
<1>1. ASSUME FinalInv
      PROVE  ImmutableIsFinal
  <2>1. SUFFICES ASSUME Phase(now) = "immutable", NEW i \in Servers, NEW answers \in BOOLEAN
                 PROVE  /\ ResultsOf(i, answers) <= Accepted
                        /\ ~delayed /\ (IF answers THEN prompt # {} ELSE i \in prompt /\ TrackedBy(i)) =>
                               ResultsOf(i, answers) = Accepted
    BY DEF ImmutableIsFinal
  <2>2. now > LastFlush + 1 /\ now > LastFlush /\ now >= LastFlush
    BY <1>1, <2>1, FinalLimits DEF Phase, FinalInv, LastFlush, Accepting
  <2>3. /\ snap[i] \in Int /\ snap[i] <= InRedis /\ InRedis \in Nat /\ Accepted \in Nat
        /\ row \in Nat /\ row <= InRedis /\ InRedis <= Accepted
    BY <1>1, FlushedCounts DEF FinalInv, FinalTypeOK, Below, NoSnapshot
  <2>4. ResultsOf(i, answers) <= Accepted
    BY <2>3 DEF ResultsOf, Higher
  <2>5. ASSUME ~delayed
        PROVE  InRedis = Accepted
    <3>1. \A v \in Ballots : ballot[v] # "none" <=> ballot[v] = "counted"
      BY <1>1, <2>2, <2>5, NothingOnTheWay DEF FinalInv, FinalTypeOK
    <3> QED
      BY <3>1 DEF InRedis, Accepted
  <2>6. ASSUME ~delayed, answers, prompt # {}
        PROVE  ResultsOf(i, answers) = Accepted
    <3>1. row = InRedis
      BY <1>1, <2>2, <2>6 DEF FinalInv, RowComplete
    <3> QED
      BY <2>3, <2>5, <2>6, <3>1 DEF ResultsOf, Higher
  <2>7. ASSUME ~delayed, ~answers, i \in prompt, TrackedBy(i)
        PROVE  ResultsOf(i, answers) = Accepted
    <3>1. snap[i] = InRedis
      BY <1>1, <2>2, <2>7 DEF FinalInv, SnapshotComplete
    <3> QED
      BY <2>3, <2>5, <2>7, <3>1 DEF ResultsOf, Higher
  <2> QED
    BY <2>4, <2>6, <2>7
<1> QED
  BY <1>1, FinalInvariance, PTL

\* The types of the votes, the snapshots and the stored count.
THEOREM FinalTypesHold == FinalSpec => []FinalTypeOK
BY FinalInvariance, PTL DEF FinalInv

-----------------------------------------------------------------------------
(* AccessStats.                                                            *)

Line == [total : SUBSET Served, sum : SUBSET Served, max : Nat]

StatsTypes ==
    /\ counts \in [Counters -> SUBSET Served] /\ latSum \subseteq Served /\ latMax \in Nat
    /\ record \in [Served -> {"idle", "sum", "load", "swap", "done"}] /\ cur \in [Served -> Nat]
    /\ flush \in [Flushers -> {"idle", "counts", "sum", "max", "write"}]
    /\ index \in [Flushers -> Counters] /\ held \in [Flushers -> Line]
    /\ lines \subseteq Line /\ mixed \subseteq Served

\* A Flush that is not at work holds nothing.
HeldAtWork == \A f \in Flushers : flush[f] = "idle" => held[f] = Nothing0

InCounter(r) == \E i \in Counters : r \in counts[i]
InHeld(r) == \E f \in Flushers : r \in held[f].total
InLine(r) == \E l \in lines : r \in l.total

\* A request that has been counted is in one place.
InOnePlace(r) ==
    /\ record[r] # "idle" <=> InCounter(r) \/ InHeld(r) \/ InLine(r)
    /\ ~(InCounter(r) /\ InHeld(r)) /\ ~(InCounter(r) /\ InLine(r)) /\ ~(InHeld(r) /\ InLine(r))
    /\ \A i, j \in Counters : r \in counts[i] /\ r \in counts[j] => i = j
    /\ \A f, g \in Flushers : r \in held[f].total /\ r \in held[g].total => f = g
    /\ \A l, m \in lines : r \in l.total /\ r \in m.total => l = m

Placed == \A r \in Served : InOnePlace(r)

\* What the last Flush leaves behind, once the requests were drained.
Drained ==
    /\ flush["FlushStats"] # "idle" => life \in {"drained", "hurried"}
    /\ life = "drained" /\ flush["FlushStats"] = "counts" =>
        \A i \in Counters : i < index["FlushStats"] => counts[i] = {}
    /\ life = "drained" /\ flush["FlushStats"] \in {"sum", "max", "write"} =>
        \A i \in Counters : counts[i] = {}
    /\ life \in {"flushed", "ended"} => \A i \in Counters : counts[i] = {}

\* The maximum that a request is going to replace is below its latency.
Rising == \A r \in Served : record[r] = "swap" => cur[r] < Latency[r]

\* Only requests whose latency has been added are in the sums.
Summed ==
    \A r \in Served :
        r \in latSum \/ (\E f \in Flushers : r \in held[f].sum) \/ (\E l \in lines : r \in l.sum)
            => record[r] \in {"load", "swap", "done"}

\* A request that is recording and not mixed: no Flush is at work.
Alone(r) ==
    record[r] \in {"sum", "load", "swap"} =>
        ~Flushing /\ InCounter(r) /\ (record[r] # "sum" => r \in latSum)

\* One that is recorded and neither mixed nor written: what the only Flush has taken of it.
Ahead(r) == r \in latSum /\ Latency[r] <= latMax

Taken(f, r) ==
    /\ flush[f] = "counts" => Ahead(r) /\ \A i \in Counters : r \in counts[i] => i >= index[f]
    /\ flush[f] = "sum" => Ahead(r) /\ r \in held[f].total
    /\ flush[f] = "max" =>
        r \notin latSum /\ Latency[r] <= latMax /\ r \in held[f].total /\ r \in held[f].sum
    /\ flush[f] = "write" =>
        r \notin latSum /\ Latency[r] <= held[f].max /\ r \in held[f].total /\ r \in held[f].sum

InStep(r) ==
    record[r] = "done" /\ ~InLine(r) =>
        /\ \A f, g \in Flushers : flush[f] # "idle" /\ flush[g] # "idle" => f = g
        /\ ~Flushing => Ahead(r)
        /\ \A f \in Flushers : flush[f] # "idle" => Taken(f, r)

\* One that is written is in no other sum.
SumWritten(r) == InLine(r) => r \notin latSum /\ \A f \in Flushers : r \notin held[f].sum

Unmixed == \A r \in Served \ mixed : Alone(r) /\ InStep(r) /\ SumWritten(r)

StatsInv ==
    /\ StatsTypes /\ HeldAtWork /\ Placed /\ Drained /\ Rising /\ Summed /\ Unmixed /\ LinesAgree

-----------------------------------------------------------------------------
\* The counters are numbered from 1, and every status has one.
LEMMA Numbering ==
  /\ Len(Tracked) \in Nat /\ 1 \in Counters /\ Len(Tracked) + 1 \in Counters
  /\ \A r \in Served : CounterOf(r) \in Counters /\ Latency[r] \in Nat
  /\ \A i \in Counters : i \in Nat /\ i >= 1 /\ i <= Len(Tracked) + 1
<1>1. Len(Tracked) \in Nat /\ DOMAIN Tracked = 1..Len(Tracked)
  BY StatsAssumption
<1>2. ASSUME NEW r \in Served
      PROVE  CounterOf(r) \in Counters
  <2>1. \E i \in Counters :
          IF \E j \in DOMAIN Tracked : Tracked[j] = Status[r]
              THEN i <= Len(Tracked) /\ Tracked[i] = Status[r] ELSE i = Len(Tracked) + 1
    <3>1. CASE \E j \in DOMAIN Tracked : Tracked[j] = Status[r]
      <4>1. PICK j \in DOMAIN Tracked : Tracked[j] = Status[r]
        BY <3>1
      <4>2. j \in Counters /\ j <= Len(Tracked)
        BY <1>1, <4>1 DEF Counters
      <4> QED
        BY <3>1, <4>1, <4>2
    <3>2. CASE ~\E j \in DOMAIN Tracked : Tracked[j] = Status[r]
      <4>1. Len(Tracked) + 1 \in Counters
        BY <1>1 DEF Counters
      <4> QED
        BY <3>2, <4>1
    <3> QED
      BY <3>1, <3>2
  <2> QED
    BY <2>1 DEF CounterOf
<1> QED
  BY <1>1, <1>2, StatsAssumption DEF Counters

\* A Flush has two callers.
LEMMA TwoFlushers ==
  /\ "Run" \in Flushers /\ "FlushStats" \in Flushers /\ Nothing0 \in Line
  /\ Nothing0.total = {} /\ Nothing0.sum = {}
BY DEF Flushers, Nothing0, Line

\* What is in Unwritten.
LEMMA UnwrittenIs ==
  \A r : r \in Unwritten <=>
            InCounter(r) \/ r \in latSum
                \/ \E f \in Flushers : r \in held[f].total \/ r \in held[f].sum
<1> DEFINE A == UNION {counts[i] : i \in Counters}
           B == UNION {held[f].total \cup held[f].sum : f \in Flushers}
<1>1. Unwritten = A \cup latSum \cup B
  BY DEF Unwritten
<1>2. \A r : r \in A <=> InCounter(r)
  BY DEF InCounter
<1>3. \A r : r \in B <=> \E f \in Flushers : r \in held[f].total \cup held[f].sum
  OBVIOUS
<1> HIDE DEF A, B
<1> QED
  BY <1>1, <1>2, <1>3

\* The invariant holds at first.
LEMMA StatsInitInv ==
  ASSUME StatsInit
  PROVE  StatsInv
<1>1. StatsTypes /\ HeldAtWork /\ Rising
  BY Numbering, TwoFlushers DEF StatsInit, StatsTypes, HeldAtWork, Rising
<1>2. \A r \in Served : ~InCounter(r) /\ ~InHeld(r) /\ ~InLine(r) /\ record[r] = "idle"
  BY TwoFlushers DEF StatsInit, InCounter, InHeld, InLine
<1>3. Placed
  BY <1>2 DEF StatsInit, Placed, InOnePlace, InCounter, InHeld, InLine
<1>4. Drained /\ LinesAgree
  BY TwoFlushers DEF StatsInit, Drained, LinesAgree
<1>5. Summed
  BY TwoFlushers DEF StatsInit, Summed
<1>6. Unmixed
  BY <1>2 DEF Unmixed, Alone, InStep, SumWritten
<1> QED
  BY <1>1, <1>3, <1>4, <1>5, <1>6 DEF StatsInv

-----------------------------------------------------------------------------
(* record.                                                                 *)

\* A request that is counted is in no place before, and in one counter after.
LEMMA RecordCountKeeps ==
  ASSUME StatsInv, NEW r \in Served, RecordCount(r)
  PROVE  StatsInv'
<1>1. /\ UNCHANGED <<latSum, latMax, cur, flush, index, held, lines, life>>
      /\ record[r] = "idle" /\ life \in {"serving", "hurried", "overtime"}
      /\ counts' = [counts EXCEPT ![CounterOf(r)] = @ \cup {r}]
      /\ record' = [record EXCEPT ![r] = "sum"]
      /\ mixed' = IF Flushing THEN mixed \cup {r} ELSE mixed
  BY DEF RecordCount, Step, Overlap
<1>2. CounterOf(r) \in Counters
  BY Numbering
<1> DEFINE k == CounterOf(r)
<1> HIDE DEF k
<1>3. /\ StatsTypes' /\ k \in Counters /\ counts'[k] = counts[k] \cup {r} /\ record'[r] = "sum"
      /\ \A i \in Counters \ {k} : counts'[i] = counts[i]
      /\ \A q \in Served \ {r} : record'[q] = record[q]
  BY <1>1, <1>2 DEF k, StatsInv, StatsTypes
<1>4. ~InCounter(r) /\ ~InHeld(r) /\ ~InLine(r)
  BY <1>1 DEF StatsInv, Placed, InOnePlace
<1>5. \A q \in Served : /\ (InHeld(q)' <=> InHeld(q)) /\ (InLine(q)' <=> InLine(q))
                        /\ (InCounter(q)' <=> InCounter(q) \/ q = r)
  <2>1. \A q \in Served : (InHeld(q)' <=> InHeld(q)) /\ (InLine(q)' <=> InLine(q))
    BY <1>1 DEF InHeld, InLine
  <2>2. \A q \in Served : InCounter(q)' <=> InCounter(q) \/ q = r
    BY <1>3 DEF InCounter
  <2> QED
    BY <2>1, <2>2
<1>6. Placed'
  <2>1. SUFFICES ASSUME NEW q \in Served
                 PROVE  InOnePlace(q)'
    BY DEF Placed
  <2>2. InOnePlace(q)
    BY DEF StatsInv, Placed
  <2>3. CASE q = r
    <3>1. \A i \in Counters : r \in counts'[i] => i = k
      BY <1>3, <1>4 DEF InCounter
    <3> QED
      BY <1>1, <1>3, <1>4, <1>5, <2>2, <2>3, <3>1 DEF InOnePlace
  <2>4. CASE q # r
    <3>1. \A i \in Counters : q \in counts'[i] <=> q \in counts[i]
      BY <1>3, <2>4
    <3> QED
      BY <1>1, <1>3, <1>5, <2>2, <2>4, <3>1 DEF InOnePlace
  <2> QED
    BY <2>3, <2>4
<1>7. HeldAtWork' /\ Drained' /\ Rising' /\ Summed' /\ LinesAgree'
  <2>1. HeldAtWork' /\ Drained'
    BY <1>1 DEF StatsInv, HeldAtWork, Drained
  <2>2. Rising' /\ Summed'
    BY <1>1, <1>3 DEF StatsInv, Rising, Summed
  <2>3. mixed \subseteq mixed'
    BY <1>1
  <2>4. LinesAgree'
    BY <1>1, <2>3 DEF StatsInv, LinesAgree
  <2> QED
    BY <2>1, <2>2, <2>4
<1>8. Unmixed'
  <2>1. SUFFICES ASSUME NEW q \in Served, q \notin mixed'
                 PROVE  Alone(q)' /\ InStep(q)' /\ SumWritten(q)'
    BY DEF Unmixed
  <2>2. CASE q = r
    BY <1>1, <1>3, <1>4, <1>5, <2>1, <2>2 DEF Alone, InStep, SumWritten, Flushing
  <2>3. CASE q # r
    <3>1. Alone(q) /\ InStep(q) /\ SumWritten(q)
      BY <1>1, <2>1 DEF StatsInv, Unmixed
    <3>2. \A i \in Counters : q \in counts'[i] <=> q \in counts[i]
      BY <1>3, <2>3
    <3> QED
      BY <1>1, <1>3, <1>5, <2>3, <3>1, <3>2
      DEF Alone, InStep, SumWritten, Flushing, Taken, Ahead
  <2> QED
    BY <2>2, <2>3
<1> QED
  BY <1>3, <1>6, <1>7, <1>8 DEF StatsInv

\* The other steps of record: who goes on without a Flush at work is not mixed.
LEMMA RecordKeeps ==
  ASSUME StatsInv, NEW r \in Served, RecordSum(r) \/ RecordLoad(r) \/ RecordSwap(r)
  PROVE  StatsInv'
<1>1. /\ UNCHANGED <<counts, flush, index, held, lines, life>>
      /\ record[r] \in {"sum", "load", "swap"}
      /\ mixed' = IF Flushing THEN mixed \cup {r} ELSE mixed
  BY DEF RecordSum, RecordLoad, RecordSwap, Step, Overlap
<1>2. PICK x \in {"load", "swap", "done"} : record' = [record EXCEPT ![r] = x]
  BY DEF RecordSum, RecordLoad, RecordSwap, Step
<1>3. record'[r] = x /\ \A q \in Served \ {r} : record'[q] = record[q]
  BY <1>2 DEF StatsInv, StatsTypes
<1>4. /\ latMax' \in Nat /\ latMax <= latMax' /\ cur' \in [Served -> Nat]
      /\ x = "done" => Latency[r] <= latMax'
      /\ x = "swap" => cur'[r] < Latency[r]
      /\ \A q \in Served \ {r} : cur'[q] = cur[q]
  BY <1>2, <1>3, Numbering DEF RecordSum, RecordLoad, RecordSwap, Step, StatsInv, StatsTypes, Rising
<1>5. latSum' = latSum \/ (latSum' = latSum \cup {r} /\ record[r] = "sum")
  BY DEF RecordSum, RecordLoad, RecordSwap
<1>6. record[r] = "sum" => r \in latSum'
  BY DEF RecordSum, RecordLoad, RecordSwap
<1>7. StatsTypes'
  BY <1>1, <1>2, <1>4, <1>5 DEF StatsInv, StatsTypes
<1>8. \A q \in Served : /\ InHeld(q)' = InHeld(q) /\ InLine(q)' = InLine(q)
                        /\ InCounter(q)' = InCounter(q)
  BY <1>1 DEF InHeld, InLine, InCounter
<1>9. Placed'
  BY <1>1, <1>3, <1>8 DEF StatsInv, Placed, InOnePlace
<1>10. HeldAtWork' /\ Drained' /\ LinesAgree'
  <2>1. mixed \subseteq mixed'
    BY <1>1
  <2> QED
    BY <1>1, <2>1 DEF StatsInv, HeldAtWork, Drained, LinesAgree
<1>11. Rising' /\ Summed'
  BY <1>1, <1>3, <1>4, <1>5 DEF StatsInv, Rising, Summed
<1>12. Unmixed'
  <2>1. SUFFICES ASSUME NEW q \in Served, q \notin mixed'
                 PROVE  Alone(q)' /\ InStep(q)' /\ SumWritten(q)'
    BY DEF Unmixed
  <2>2. Alone(q) /\ InStep(q) /\ SumWritten(q) /\ InOnePlace(q)
    BY <1>1, <2>1 DEF StatsInv, Unmixed, Placed
  <2>3. CASE q = r
    <3>1. ~Flushing /\ InCounter(r) /\ ~InLine(r) /\ r \in latSum'
      BY <1>1, <1>5, <1>6, <2>1, <2>2, <2>3 DEF Alone, InOnePlace
    <3> QED
      BY <1>1, <1>3, <1>4, <1>8, <2>3, <3>1 DEF Alone, InStep, SumWritten, Flushing, Ahead
  <2>4. CASE q # r
    <3>1. q \in latSum' <=> q \in latSum
      BY <1>5, <2>4
    <3>2. latMax \in Nat /\ Latency[q] \in Nat /\ (Latency[q] <= latMax => Latency[q] <= latMax')
      BY <1>4, Numbering DEF StatsInv, StatsTypes
    <3> QED
      BY <1>1, <1>3, <1>8, <2>2, <2>4, <3>1, <3>2
      DEF Alone, InStep, SumWritten, Flushing, Taken, Ahead
  <2> QED
    BY <2>3, <2>4
<1> QED
  BY <1>7, <1>9, <1>10, <1>11, <1>12 DEF StatsInv

-----------------------------------------------------------------------------
(* Flush.                                                                  *)

\* A Flush begins: what is recording, or already split by another one, is mixed.
LEMMA BeginKeeps ==
  ASSUME StatsInv, NEW f \in Flushers, Begin(f), f = "FlushStats" => life \in {"drained", "hurried"}
  PROVE  StatsInv'
<1>1. /\ UNCHANGED <<counts, latSum, latMax, record, cur, held, lines, life>>
      /\ flush[f] = "idle" /\ flush' = [flush EXCEPT ![f] = "counts"]
      /\ index' = [index EXCEPT ![f] = 1]
      /\ mixed' = mixed \cup Recording \cup (IF Flushing THEN Unwritten ELSE {})
  BY DEF Begin, Goes
<1>2. /\ flush'[f] = "counts" /\ index'[f] = 1
      /\ \A g \in Flushers \ {f} : flush'[g] = flush[g] /\ index'[g] = index[g]
  BY <1>1 DEF StatsInv, StatsTypes
<1>3. StatsTypes'
  <2>1. Recording \subseteq Served /\ Unwritten \subseteq Served
    <3>1. Recording \subseteq Served
      BY DEF Recording
    <3>2. /\ \A i \in Counters : counts[i] \subseteq Served
          /\ \A g \in Flushers : held[g].total \subseteq Served /\ held[g].sum \subseteq Served
          /\ latSum \subseteq Served
      BY DEF StatsInv, StatsTypes, Line
    <3> QED
      BY <3>1, <3>2, UnwrittenIs DEF InCounter
  <2> QED
    BY <1>1, <2>1, Numbering DEF StatsInv, StatsTypes
<1>4. HeldAtWork' /\ Rising' /\ Summed'
  BY <1>1, <1>2 DEF StatsInv, HeldAtWork, Rising, Summed
<1>5. Drained'
  BY <1>1, <1>2, Numbering DEF StatsInv, Drained
<1>6. \A q \in Served : /\ (InHeld(q)' <=> InHeld(q)) /\ (InLine(q)' <=> InLine(q))
                        /\ (InCounter(q)' <=> InCounter(q))
  BY <1>1 DEF InHeld, InLine, InCounter
<1>7. Placed'
  BY <1>1, <1>6 DEF StatsInv, Placed, InOnePlace
<1>8. LinesAgree'
  <2>1. mixed \subseteq mixed'
    BY <1>1
  <2> QED
    BY <1>1, <2>1 DEF StatsInv, LinesAgree
<1>9. Unmixed'
  <2>1. SUFFICES ASSUME NEW q \in Served, q \notin mixed'
                 PROVE  Alone(q)' /\ InStep(q)' /\ SumWritten(q)'
    BY DEF Unmixed
  <2>2. /\ Alone(q) /\ InStep(q) /\ SumWritten(q) /\ InOnePlace(q)
        /\ q \notin Recording /\ (Flushing => q \notin Unwritten)
    BY <1>1, <2>1 DEF StatsInv, Unmixed, Placed
  <2>3. record[q] \in {"idle", "done"}
    BY <2>2 DEF Recording
  <2>4. Alone(q)' /\ SumWritten(q)'
    BY <1>1, <1>6, <2>2, <2>3 DEF Alone, SumWritten
  <2>5. ASSUME record[q] = "done", ~InLine(q)
        PROVE  ~Flushing /\ Ahead(q)
    <3>1. q \in Unwritten
      <4>1. InCounter(q) \/ InHeld(q)
        BY <2>2, <2>5 DEF InOnePlace
      <4> QED
        BY <4>1, UnwrittenIs DEF InHeld
    <3> QED
      BY <2>2, <2>5, <3>1 DEF InStep
  <2>6. InStep(q)'
    <3>1. SUFFICES ASSUME record[q] = "done", ~InLine(q)
                   PROVE  /\ \A g, h \in Flushers : flush'[g] # "idle" /\ flush'[h] # "idle" => g = h
                          /\ Flushing'
                          /\ \A g \in Flushers : flush'[g] # "idle" => Taken(g, q)'
      BY <1>1, <1>6 DEF InStep
    <3>2. \A g \in Flushers : flush'[g] # "idle" <=> g = f
      BY <1>2, <2>5, <3>1 DEF Flushing
    <3>3. Taken(f, q)'
      BY <1>1, <1>2, <2>5, <3>1, Numbering DEF Taken, Ahead
    <3> QED
      BY <3>2, <3>3 DEF Flushing
  <2> QED
    BY <2>4, <2>6
<1> QED
  BY <1>3, <1>4, <1>5, <1>7, <1>8, <1>9 DEF StatsInv

\* The only Flush at work, as far as a request that is not mixed is concerned.
LEMMA OnlyFlush ==
  ASSUME StatsInv, NEW f \in Flushers, flush[f] # "idle", NEW q \in Served, q \notin mixed,
         record[q] # "idle", ~InLine(q)
  PROVE  /\ record[q] = "done" /\ Taken(f, q) /\ Flushing
         /\ \A g \in Flushers \ {f} : flush[g] = "idle" /\ held[g] = Nothing0
<1>1. Flushing /\ Alone(q) /\ InStep(q)
  BY DEF Flushing, StatsInv, Unmixed
<1>2. record[q] = "done"
  BY <1>1 DEF Alone, StatsInv, StatsTypes
<1>3. Taken(f, q) /\ \A g \in Flushers \ {f} : flush[g] = "idle"
  BY <1>1, <1>2 DEF InStep
<1> QED
  BY <1>1, <1>2, <1>3 DEF StatsInv, HeldAtWork

\* The next counter is swapped into the total of the line.
LEMMA SwapCountKeeps ==
  ASSUME StatsInv, NEW f \in Flushers, SwapCount(f)
  PROVE  StatsInv'
<1> DEFINE k == index[f]
<1>1. /\ UNCHANGED <<latSum, latMax, record, cur, lines, mixed, life>>
      /\ flush[f] = "counts" /\ k \in Counters
      /\ held' = [held EXCEPT ![f].total = @ \cup counts[k]]
      /\ counts' = [counts EXCEPT ![k] = {}]
  BY DEF SwapCount, StatsInv, StatsTypes
<1>2. \/ /\ k < Len(Tracked) + 1 /\ index' = [index EXCEPT ![f] = k + 1] /\ flush' = flush
      \/ /\ k = Len(Tracked) + 1 /\ index' = index /\ flush' = [flush EXCEPT ![f] = "sum"]
  BY <1>1, Numbering DEF SwapCount, NextCounter, Goes
<1>3. /\ held'[f].total = held[f].total \cup counts[k] /\ held'[f].sum = held[f].sum
      /\ held'[f].max = held[f].max /\ held'[f] \in Line
      /\ \A g \in Flushers \ {f} : held'[g] = held[g] /\ flush'[g] = flush[g] /\ index'[g] = index[g]
  <2> DEFINE h == [held[f] EXCEPT !.total = @ \cup counts[k]]
  <2>1. held' = [held EXCEPT ![f] = h]
    BY <1>1
  <2>2. held[f] \in Line /\ counts[k] \subseteq Served
    BY <1>1 DEF StatsInv, StatsTypes
  <2>3. /\ h \in Line /\ h.total = held[f].total \cup counts[k]
        /\ h.sum = held[f].sum /\ h.max = held[f].max
    BY <2>2 DEF Line
  <2> HIDE DEF h
  <2>4. held'[f] = h /\ \A g \in Flushers \ {f} : held'[g] = held[g]
    BY <2>1 DEF StatsInv, StatsTypes
  <2>5. \A g \in Flushers \ {f} : flush'[g] = flush[g] /\ index'[g] = index[g]
    BY <1>2 DEF StatsInv, StatsTypes
  <2> QED
    BY <2>3, <2>4, <2>5
<1>4. counts'[k] = {} /\ \A i \in Counters \ {k} : counts'[i] = counts[i]
  BY <1>1 DEF StatsInv, StatsTypes
<1>5. \/ flush'[f] = "counts" /\ index'[f] = k + 1 /\ k + 1 \in Counters
      \/ flush'[f] = "sum" /\ index'[f] = k /\ k = Len(Tracked) + 1
  BY <1>1, <1>2, Numbering DEF StatsInv, StatsTypes, Counters
<1> HIDE DEF k
<1>6. StatsTypes'
  <2>1. counts' \in [Counters -> SUBSET Served]
    BY <1>1 DEF StatsInv, StatsTypes
  <2>2. held' \in [Flushers -> Line]
    BY <1>1, <1>3 DEF StatsInv, StatsTypes
  <2>3. flush' \in [Flushers -> {"idle", "counts", "sum", "max", "write"}]
    BY <1>2 DEF StatsInv, StatsTypes
  <2>4. index' \in [Flushers -> Counters]
    BY <1>2, <1>5 DEF StatsInv, StatsTypes
  <2> QED
    BY <1>1, <2>1, <2>2, <2>3, <2>4 DEF StatsInv, StatsTypes
<1>7. HeldAtWork' /\ Rising' /\ Summed' /\ LinesAgree'
  BY <1>1, <1>3, <1>5 DEF StatsInv, HeldAtWork, Rising, Summed, LinesAgree
<1>8. ASSUME NEW q \in Served
      PROVE  /\ (InLine(q)' <=> InLine(q))
             /\ (InCounter(q)' <=> InCounter(q) /\ q \notin counts[k])
             /\ (InHeld(q)' <=> InHeld(q) \/ q \in counts[k])
  <2>1. InLine(q)' <=> InLine(q)
    BY <1>1 DEF InLine
  <2>2. InOnePlace(q)
    BY DEF StatsInv, Placed
  <2>3. InCounter(q)' <=> InCounter(q) /\ q \notin counts[k]
    BY <1>1, <1>4, <2>2 DEF InCounter, InOnePlace
  <2>4. InHeld(q)' <=> InHeld(q) \/ q \in counts[k]
    BY <1>3 DEF InHeld
  <2> QED
    BY <2>1, <2>3, <2>4
<1>9. Placed'
  <2>1. SUFFICES ASSUME NEW q \in Served
                 PROVE  InOnePlace(q)'
    BY DEF Placed
  <2>2. InOnePlace(q)
    BY DEF StatsInv, Placed
  <2>3. CASE q \in counts[k]
    <3>1. InCounter(q) /\ ~InHeld(q) /\ ~InLine(q) /\ record[q] # "idle"
      BY <1>1, <2>2, <2>3 DEF InOnePlace, InCounter
    <3>2. \A g \in Flushers : q \in held'[g].total => g = f
      BY <1>3, <3>1 DEF InHeld
    <3>3. ~InCounter(q)' /\ InHeld(q)' /\ ~InLine(q)'
      BY <1>8, <2>3, <3>1
    <3> QED
      BY <1>1, <2>2, <3>1, <3>2, <3>3 DEF InOnePlace, InCounter
  <2>4. CASE q \notin counts[k]
    <3>1. \A i \in Counters : q \in counts'[i] <=> q \in counts[i]
      BY <1>4, <2>4
    <3>2. \A g \in Flushers : q \in held'[g].total <=> q \in held[g].total
      BY <1>3, <2>4
    <3> QED
      BY <1>1, <1>8, <2>2, <2>4, <3>1, <3>2 DEF InOnePlace
  <2> QED
    BY <2>3, <2>4
<1>10. Drained'
  <2>1. \A i \in Counters : counts[i] = {} => counts'[i] = {}
    BY <1>4
  <2>2. ASSUME life = "drained", f = "FlushStats"
        PROVE  \A i \in Counters : i < k => counts[i] = {}
    BY <1>1, <2>2 DEF StatsInv, Drained, k
  <2>3. ASSUME life = "drained", f = "FlushStats"
        PROVE  \A i \in Counters : i <= k => counts'[i] = {}
    BY <1>1, <1>4, <2>1, <2>2, <2>3, Numbering
  <2>4. CASE f = "FlushStats"
    BY <1>1, <1>5, <2>1, <2>3, <2>4, Numbering DEF StatsInv, Drained
  <2>5. CASE f # "FlushStats"
    BY <1>1, <1>3, <2>1, <2>5, TwoFlushers DEF StatsInv, Drained
  <2> QED
    BY <2>4, <2>5
<1>11. Unmixed'
  <2>1. SUFFICES ASSUME NEW q \in Served, q \notin mixed
                 PROVE  Alone(q)' /\ InStep(q)' /\ SumWritten(q)'
    BY <1>1 DEF Unmixed
  <2>2. SumWritten(q)'
    <3>1. \A g \in Flushers : held'[g].sum = held[g].sum
      BY <1>3
    <3> QED
      BY <1>1, <1>8, <2>1, <3>1 DEF StatsInv, Unmixed, SumWritten
  <2>3. Alone(q)'
    <3>1. Alone(q) /\ Flushing
      BY <1>1, <2>1 DEF StatsInv, Unmixed, Flushing
    <3> QED
      BY <1>1, <3>1 DEF Alone
  <2>4. ASSUME record[q] = "done", ~InLine(q)
        PROVE  /\ \A g, h \in Flushers : flush'[g] # "idle" /\ flush'[h] # "idle" => g = h
               /\ flush'[f] # "idle" /\ Flushing' /\ Taken(f, q)'
    <3>1. Taken(f, q) /\ \A g \in Flushers \ {f} : flush[g] = "idle" /\ held[g] = Nothing0
      BY <1>1, <2>1, <2>4, OnlyFlush
    <3>2. flush'[f] # "idle" /\ \A g \in Flushers \ {f} : flush'[g] = "idle"
      BY <1>3, <1>5, <3>1
    <3>3. Ahead(q)' /\ \A i \in Counters : q \in counts[i] => i >= k
      BY <1>1, <3>1 DEF Taken, Ahead, k
    <3>4. \A i \in Counters : q \in counts'[i] => i >= k + 1 /\ i <= Len(Tracked) + 1
      BY <1>1, <1>4, <3>3, Numbering
    <3>5. ASSUME flush'[f] = "counts"
          PROVE  Taken(f, q)'
      BY <1>5, <3>3, <3>4, <3>5 DEF Taken
    <3>6. ASSUME flush'[f] = "sum"
          PROVE  Taken(f, q)'
      <4>1. ~InCounter(q)'
        BY <1>1, <1>5, <3>4, <3>6, Numbering DEF InCounter
      <4>2. InHeld(q)'
        BY <1>1, <1>8, <1>9, <2>4, <4>1 DEF Placed, InOnePlace
      <4>3. q \in held'[f].total
        BY <1>3, <3>1, <4>2, TwoFlushers DEF InHeld
      <4> QED
        BY <3>3, <3>6, <4>3 DEF Taken, Ahead
    <3> QED
      BY <1>5, <3>2, <3>5, <3>6 DEF Flushing
  <2>5. InStep(q)'
    BY <1>1, <1>8, <2>4 DEF InStep
  <2> QED
    BY <2>2, <2>3, <2>5
<1> QED
  BY <1>6, <1>7, <1>9, <1>10, <1>11 DEF StatsInv

\* The sum is swapped.
LEMMA SwapSumKeeps ==
  ASSUME StatsInv, NEW f \in Flushers, SwapSum(f)
  PROVE  StatsInv'
<1>1. /\ UNCHANGED <<counts, latMax, record, cur, index, lines, mixed, life>>
      /\ flush[f] = "sum" /\ latSum' = {}
      /\ held' = [held EXCEPT ![f].sum = latSum] /\ flush' = [flush EXCEPT ![f] = "max"]
  BY DEF SwapSum, Goes
<1>2. /\ held'[f].total = held[f].total /\ held'[f].sum = latSum
      /\ held'[f].max = held[f].max /\ held'[f] \in Line /\ flush'[f] = "max"
      /\ \A g \in Flushers \ {f} : held'[g] = held[g] /\ flush'[g] = flush[g]
  BY <1>1 DEF StatsInv, StatsTypes, Line
<1>3. StatsTypes'
  <2>1. held' \in [Flushers -> Line]
    BY <1>1, <1>2 DEF StatsInv, StatsTypes
  <2> QED
    BY <1>1, <2>1 DEF StatsInv, StatsTypes
<1>4. HeldAtWork' /\ Rising' /\ Summed' /\ LinesAgree'
  BY <1>1, <1>2 DEF StatsInv, HeldAtWork, Rising, Summed, LinesAgree
<1>5. \A q \in Served : /\ (InHeld(q)' <=> InHeld(q)) /\ (InLine(q)' <=> InLine(q))
                        /\ (InCounter(q)' <=> InCounter(q))
                        /\ \A g \in Flushers : q \in held'[g].total <=> q \in held[g].total
  BY <1>1, <1>2 DEF InHeld, InLine, InCounter
<1>6. Placed'
  BY <1>1, <1>5 DEF StatsInv, Placed, InOnePlace
<1>7. Drained'
  BY <1>1, <1>2 DEF StatsInv, Drained
<1>8. Unmixed'
  <2>1. SUFFICES ASSUME NEW q \in Served, q \notin mixed
                 PROVE  Alone(q)' /\ InStep(q)' /\ SumWritten(q)'
    BY <1>1 DEF Unmixed
  <2>2. SumWritten(q)'
    BY <1>1, <1>2, <1>5, <2>1 DEF StatsInv, Unmixed, SumWritten
  <2>3. Alone(q)'
    <3>1. Alone(q) /\ Flushing
      BY <1>1, <2>1 DEF StatsInv, Unmixed, Flushing
    <3> QED
      BY <1>1, <3>1 DEF Alone
  <2>4. ASSUME record[q] = "done", ~InLine(q)
        PROVE  Taken(f, q)' /\ \A g \in Flushers : flush'[g] # "idle" <=> g = f
    <3>1. Taken(f, q) /\ \A g \in Flushers \ {f} : flush[g] = "idle" /\ held[g] = Nothing0
      BY <1>1, <2>1, <2>4, OnlyFlush
    <3>2. Latency[q] <= latMax /\ q \in latSum /\ q \in held[f].total
      BY <1>1, <3>1 DEF Taken, Ahead
    <3>3. Taken(f, q)'
      BY <1>1, <1>2, <3>2 DEF Taken
    <3> QED
      BY <1>2, <3>1, <3>3
  <2>5. InStep(q)'
    BY <1>1, <1>5, <2>4 DEF InStep, Flushing
  <2> QED
    BY <2>2, <2>3, <2>5
<1> QED
  BY <1>3, <1>4, <1>6, <1>7, <1>8 DEF StatsInv

\* The maximum is swapped.
LEMMA SwapMaxKeeps ==
  ASSUME StatsInv, NEW f \in Flushers, SwapMax(f)
  PROVE  StatsInv'
<1>1. /\ UNCHANGED <<counts, latSum, record, cur, index, lines, mixed, life>>
      /\ flush[f] = "max" /\ latMax' = 0
      /\ held' = [held EXCEPT ![f].max = latMax] /\ flush' = [flush EXCEPT ![f] = "write"]
  BY DEF SwapMax, Goes
<1>2. /\ held'[f].total = held[f].total /\ held'[f].sum = held[f].sum
      /\ held'[f].max = latMax /\ held'[f] \in Line /\ flush'[f] = "write"
      /\ \A g \in Flushers \ {f} : held'[g] = held[g] /\ flush'[g] = flush[g]
  BY <1>1 DEF StatsInv, StatsTypes, Line
<1>3. StatsTypes'
  <2>1. held' \in [Flushers -> Line]
    BY <1>1, <1>2 DEF StatsInv, StatsTypes
  <2> QED
    BY <1>1, <2>1 DEF StatsInv, StatsTypes
<1>4. HeldAtWork' /\ Rising' /\ Summed' /\ LinesAgree'
  BY <1>1, <1>2 DEF StatsInv, HeldAtWork, Rising, Summed, LinesAgree
<1>5. \A q \in Served : /\ (InHeld(q)' <=> InHeld(q)) /\ (InLine(q)' <=> InLine(q))
                        /\ (InCounter(q)' <=> InCounter(q))
                        /\ \A g \in Flushers : q \in held'[g].total <=> q \in held[g].total
  BY <1>1, <1>2 DEF InHeld, InLine, InCounter
<1>6. Placed'
  BY <1>1, <1>5 DEF StatsInv, Placed, InOnePlace
<1>7. Drained'
  BY <1>1, <1>2 DEF StatsInv, Drained
<1>8. Unmixed'
  <2>1. SUFFICES ASSUME NEW q \in Served, q \notin mixed
                 PROVE  Alone(q)' /\ InStep(q)' /\ SumWritten(q)'
    BY <1>1 DEF Unmixed
  <2>2. SumWritten(q)'
    BY <1>1, <1>2, <1>5, <2>1 DEF StatsInv, Unmixed, SumWritten
  <2>3. Alone(q)'
    <3>1. Alone(q) /\ Flushing
      BY <1>1, <2>1 DEF StatsInv, Unmixed, Flushing
    <3> QED
      BY <1>1, <3>1 DEF Alone
  <2>4. ASSUME record[q] = "done", ~InLine(q)
        PROVE  Taken(f, q)' /\ \A g \in Flushers : flush'[g] # "idle" <=> g = f
    <3>1. Taken(f, q) /\ \A g \in Flushers \ {f} : flush[g] = "idle" /\ held[g] = Nothing0
      BY <1>1, <2>1, <2>4, OnlyFlush
    <3>2. /\ Latency[q] <= latMax /\ q \notin latSum
          /\ q \in held[f].total /\ q \in held[f].sum
      BY <1>1, <3>1 DEF Taken
    <3>3. Taken(f, q)'
      BY <1>1, <1>2, <3>2 DEF Taken
    <3> QED
      BY <1>2, <3>1, <3>3
  <2>5. InStep(q)'
    BY <1>1, <1>5, <2>4 DEF InStep, Flushing
  <2> QED
    BY <2>2, <2>3, <2>5
<1> QED
  BY <1>3, <1>4, <1>6, <1>7, <1>8 DEF StatsInv

\* The line is written, unless it counts nothing.
LEMMA WriteKeeps ==
  ASSUME StatsInv, NEW f \in Flushers, Write(f)
  PROVE  StatsInv'
<1> DEFINE h == held[f]
<1>1. /\ UNCHANGED <<counts, latSum, latMax, record, cur, index, mixed>>
      /\ flush[f] = "write" /\ flush' = [flush EXCEPT ![f] = "idle"]
      /\ lines' = (IF h.total = {} THEN lines ELSE lines \cup {h})
      /\ held' = [held EXCEPT ![f] = Nothing0]
      /\ life' = (IF f # "FlushStats" THEN life
                  ELSE IF life = "drained" THEN "flushed" ELSE "overtime")
  BY DEF Write, Goes
<1>2. /\ held'[f] = Nothing0 /\ flush'[f] = "idle" /\ h \in Line
      /\ \A g \in Flushers \ {f} : held'[g] = held[g] /\ flush'[g] = flush[g]
  BY <1>1 DEF StatsInv, StatsTypes
<1> HIDE DEF h
<1>3. StatsTypes'
  BY <1>1, <1>2, TwoFlushers DEF StatsInv, StatsTypes
<1>4. HeldAtWork' /\ Rising'
  BY <1>1, <1>2 DEF StatsInv, HeldAtWork, Rising
<1>5. Summed'
  <2>1. \A r : r \in h.sum => \E g \in Flushers : r \in held[g].sum
    BY DEF h
  <2> QED
    BY <1>1, <1>2, <2>1, TwoFlushers DEF StatsInv, Summed
<1>6. ASSUME NEW q \in Served
      PROVE  /\ (InCounter(q)' <=> InCounter(q))
             /\ (InLine(q)' <=> InLine(q) \/ q \in h.total)
             /\ (InHeld(q)' <=> InHeld(q) /\ q \notin h.total)
             /\ (q \in h.total => InHeld(q))
  <2>1. InCounter(q)' <=> InCounter(q)
    BY <1>1 DEF InCounter
  <2>2. InLine(q)' <=> InLine(q) \/ q \in h.total
    BY <1>1 DEF InLine
  <2>3. q \in h.total => InHeld(q)
    BY DEF h, InHeld
  <2>4. \A g \in Flushers : q \in held[g].total /\ q \in h.total => g = f
    BY DEF h, StatsInv, Placed, InOnePlace
  <2>5. InHeld(q)' <=> InHeld(q) /\ q \notin h.total
    BY <1>2, <2>4, TwoFlushers DEF h, InHeld
  <2> QED
    BY <2>1, <2>2, <2>3, <2>5
<1>7. Placed'
  <2>1. SUFFICES ASSUME NEW q \in Served
                 PROVE  InOnePlace(q)'
    BY DEF Placed
  <2>2. InOnePlace(q)
    BY DEF StatsInv, Placed
  <2>3. \A g, j \in Flushers : q \in held'[g].total /\ q \in held'[j].total => g = j
    BY <1>2, <2>2, TwoFlushers DEF InOnePlace
  <2>4. \A l, m \in lines' : q \in l.total /\ q \in m.total => l = m
    <3>1. \A l \in lines : q \in l.total => q \notin h.total
      BY <1>6, <2>2 DEF InOnePlace, InLine
    <3> QED
      BY <1>1, <2>2, <3>1 DEF InOnePlace
  <2> QED
    BY <1>1, <1>6, <2>2, <2>3, <2>4 DEF InOnePlace
<1>8. Drained'
  <2>1. CASE f = "FlushStats"
    BY <1>1, <1>2, <2>1 DEF StatsInv, Drained
  <2>2. CASE f # "FlushStats"
    BY <1>1, <1>2, <2>2, TwoFlushers DEF StatsInv, Drained
  <2> QED
    BY <2>1, <2>2
\* Who is counted in the line, or added up in it, is both, unless it is mixed.
<1>9. ASSUME NEW q \in Served, q \notin mixed, q \in h.total \/ q \in h.sum
      PROVE  /\ q \in h.total /\ q \in h.sum /\ Latency[q] <= h.max /\ q \notin latSum
             /\ \A g \in Flushers \ {f} : held[g] = Nothing0
  <2>1. record[q] # "idle"
    <3>1. CASE q \in h.total
      BY <1>6, <3>1 DEF StatsInv, Placed, InOnePlace
    <3>2. CASE q \in h.sum
      BY <3>2 DEF h, StatsInv, Summed
    <3> QED
      BY <1>9, <3>1, <3>2
  <2>2. ~InLine(q)
    <3>1. CASE q \in h.total
      BY <1>6, <3>1 DEF StatsInv, Placed, InOnePlace
    <3>2. CASE q \in h.sum
      BY <1>9, <3>2 DEF h, StatsInv, Unmixed, SumWritten
    <3> QED
      BY <1>9, <3>1, <3>2
  <2>3. Taken(f, q) /\ \A g \in Flushers \ {f} : held[g] = Nothing0
    BY <1>1, <1>9, <2>1, <2>2, OnlyFlush
  <2> QED
    BY <1>1, <2>3 DEF Taken, h
<1>10. LinesAgree'
  <2>1. h.total \ mixed = h.sum \ mixed
    BY <1>2, <1>9 DEF Line
  <2>2. \A r \in h.total \ mixed : Latency[r] <= h.max
    BY <1>2, <1>9 DEF Line
  <2> QED
    BY <1>1, <2>1, <2>2 DEF StatsInv, LinesAgree
<1>11. Unmixed'
  <2>1. SUFFICES ASSUME NEW q \in Served, q \notin mixed
                 PROVE  Alone(q)' /\ InStep(q)' /\ SumWritten(q)'
    BY <1>1 DEF Unmixed
  <2>2. Alone(q) /\ InStep(q) /\ SumWritten(q) /\ Flushing
    BY <1>1, <2>1 DEF StatsInv, Unmixed, Flushing
  <2>3. Alone(q)'
    BY <1>1, <2>2 DEF Alone
  <2>4. InStep(q)'
    <3>1. ASSUME record[q] = "done", ~InLine(q)'
          PROVE  FALSE
      <4>1. ~InLine(q) /\ q \notin h.total
        BY <1>6, <3>1
      <4>2. Taken(f, q)
        BY <1>1, <2>1, <3>1, <4>1, OnlyFlush
      <4> QED
        BY <1>1, <4>1, <4>2 DEF Taken, h
    <3> QED
      BY <1>1, <3>1 DEF InStep
  <2>5. SumWritten(q)'
    <3>1. CASE q \in h.total
      BY <1>1, <1>2, <1>9, <2>1, <3>1, TwoFlushers DEF SumWritten
    <3>2. CASE q \notin h.total
      BY <1>1, <1>2, <1>6, <2>2, <3>2, TwoFlushers DEF SumWritten
    <3> QED
      BY <3>1, <3>2
  <2> QED
    BY <2>3, <2>4, <2>5
<1> QED
  BY <1>3, <1>4, <1>5, <1>7, <1>8, <1>10, <1>11 DEF StatsInv

\* The shutdown keeps the invariant.
LEMMA ShutdownKeeps ==
  ASSUME StatsInv, ShutdownReturns \/ Exit
  PROVE  StatsInv'
<1>1. /\ UNCHANGED <<counts, latSum, latMax, record, cur, flush, index, held, ticks, lines, mixed>>
      /\ \/ life = "serving" /\ life' \in {"drained", "hurried"}
         \/ life = "flushed" /\ life' = "ended"
         \/ life = "overtime" /\ life' = "cut"
  BY DEF ShutdownReturns, Exit
<1>2. Drained'
  BY <1>1 DEF StatsInv, Drained
<1>3. \A q \in Served : /\ (InHeld(q)' <=> InHeld(q)) /\ (InLine(q)' <=> InLine(q))
                        /\ (InCounter(q)' <=> InCounter(q))
  BY <1>1 DEF InHeld, InLine, InCounter
<1>4. StatsTypes' /\ HeldAtWork' /\ Rising' /\ Summed' /\ LinesAgree'
  BY <1>1 DEF StatsInv, StatsTypes, HeldAtWork, Rising, Summed, LinesAgree
<1>5. Placed' /\ Unmixed'
  BY <1>1, <1>3
  DEF StatsInv, Placed, InOnePlace, Unmixed, Alone, InStep, SumWritten, Taken, Ahead, Flushing
<1> QED
  BY <1>2, <1>4, <1>5 DEF StatsInv

\* Every step keeps the invariant.
LEMMA StatsNextInv ==
  ASSUME StatsInv, [StatsNext]_statsVars
  PROVE  StatsInv'
<1>1. CASE UNCHANGED statsVars
  BY <1>1
  DEF statsVars, StatsInv, StatsTypes, HeldAtWork, Placed, InOnePlace, InHeld, InLine, InCounter, Drained,
      Rising, Summed, Unmixed, Alone, InStep, SumWritten, Taken, Ahead, Flushing, LinesAgree
<1>2. CASE Tick \/ FlushStats
  BY <1>2, BeginKeeps, TwoFlushers DEF Tick, FlushStats
<1> QED
  BY <1>1, <1>2, RecordCountKeeps, RecordKeeps, SwapCountKeeps, SwapSumKeeps, SwapMaxKeeps,
     WriteKeeps, ShutdownKeeps
  DEF StatsNext

\* The inductive invariant holds in every state.
THEOREM StatsInvariance == StatsSpec => []StatsInv
BY StatsInitInv, StatsNextInv, PTL DEF StatsSpec

\* A request is counted in one line and not in two (logstats.go flushRoute).
THEOREM RequestsAreCountedOnce == StatsSpec => []CountedOnce
<1>1. ASSUME StatsInv
      PROVE  CountedOnce
  <2>1. SUFFICES ASSUME NEW r \in Served, record[r] # "idle"
                 PROVE  Cardinality({i \in Counters : r \in counts[i]})
                          + Cardinality({f \in Flushers : r \in held[f].total})
                          + Cardinality({l \in lines : r \in l.total}) = 1
    BY DEF CountedOnce
  <2> DEFINE A == {i \in Counters : r \in counts[i]}
             B == {f \in Flushers : r \in held[f].total}
             C == {l \in lines : r \in l.total}
  <2>2. InOnePlace(r)
    BY <1>1 DEF StatsInv, Placed
  <2>3. \/ (\E x : A = {x}) /\ B = {} /\ C = {}
        \/ (\E x : B = {x}) /\ A = {} /\ C = {}
        \/ (\E x : C = {x}) /\ A = {} /\ B = {}
    <3>1. CASE InCounter(r)
      <4>1. PICK i \in Counters : r \in counts[i]
        BY <3>1 DEF InCounter
      <4>2. A = {i} /\ B = {} /\ C = {}
        BY <2>2, <3>1, <4>1 DEF InOnePlace, InHeld, InLine
      <4> QED
        BY <4>2
    <3>2. CASE InHeld(r)
      <4>1. PICK f \in Flushers : r \in held[f].total
        BY <3>2 DEF InHeld
      <4>2. B = {f} /\ A = {} /\ C = {}
        BY <2>2, <3>2, <4>1 DEF InOnePlace, InCounter, InLine
      <4> QED
        BY <4>2
    <3>3. CASE InLine(r)
      <4>1. PICK l \in lines : r \in l.total
        BY <3>3 DEF InLine
      <4>2. C = {l} /\ A = {} /\ B = {}
        BY <2>2, <3>3, <4>1 DEF InOnePlace, InCounter, InHeld
      <4> QED
        BY <4>2
    <3> QED
      BY <2>1, <2>2, <3>1, <3>2, <3>3 DEF InOnePlace
  <2> HIDE DEF A, B, C
  <2>4. Cardinality({}) = 0 /\ \A x : Cardinality({x}) = 1
    BY FS_EmptySet, FS_Singleton
  <2>5. \A S : (\E x : S = {x}) => Cardinality(S) = 1
    BY <2>4
  <2>6. Cardinality(A) + Cardinality(B) + Cardinality(C) = 1
    <3>1. CASE (\E x : A = {x}) /\ B = {} /\ C = {}
      BY <2>4, <2>5, <3>1
    <3>2. CASE (\E x : B = {x}) /\ A = {} /\ C = {}
      BY <2>4, <2>5, <3>2
    <3>3. CASE (\E x : C = {x}) /\ A = {} /\ B = {}
      BY <2>4, <2>5, <3>3
    <3> QED
      BY <2>3, <3>1, <3>2, <3>3
  <2> QED
    BY <2>6 DEF A, B, C
<1> QED
  BY <1>1, StatsInvariance, PTL

\* Sum, count and maximum of a line belong together, but for what is mixed (record, flushRoute).
THEOREM LinesAreConsistent == StatsSpec => []LinesAgree
<1>1. StatsInv => LinesAgree
  BY DEF StatsInv
<1> QED
  BY <1>1, StatsInvariance, PTL

\* Drained requests are in a line when the process ends, or held by the ticker (main.go).
THEOREM LastIntervalIsWritten == StatsSpec => []LastIntervalWritten
<1>1. ASSUME StatsInv
      PROVE  LastIntervalWritten
  <2>1. SUFFICES ASSUME life = "ended", NEW r \in Served, record[r] # "idle"
                 PROVE  r \in held["Run"].total \/ \E l \in lines : r \in l.total
    BY DEF LastIntervalWritten
  <2>2. (\A i \in Counters : counts[i] = {}) /\ flush["FlushStats"] = "idle"
    BY <1>1, <2>1 DEF StatsInv, Drained
  <2>3. held["FlushStats"].total = {}
    BY <1>1, <2>2, TwoFlushers DEF StatsInv, HeldAtWork
  <2>4. InHeld(r) \/ InLine(r)
    BY <1>1, <2>1, <2>2 DEF StatsInv, Placed, InOnePlace, InCounter
  <2> QED
    BY <2>3, <2>4 DEF InHeld, InLine, Flushers
<1> QED
  BY <1>1, StatsInvariance, PTL

Lives == {"serving", "drained", "hurried", "flushed", "overtime", "ended", "cut"}

\* What the invariant does not say of the types.
StatsBounded == ticks \in 0..MaxTicks /\ life \in Lives

\* Only a tick, a written line and the shutdown change them.
LEMMA StatsTypesKeep ==
  ASSUME StatsBounded, [StatsNext]_statsVars
  PROVE  StatsBounded'
<1>1. ASSUME NEW r \in Served, RecordCount(r) \/ RecordSum(r) \/ RecordLoad(r) \/ RecordSwap(r)
      PROVE  UNCHANGED <<ticks, life>>
  BY <1>1 DEF RecordCount, RecordSum, RecordLoad, RecordSwap
<1>2. ASSUME NEW f \in Flushers, SwapCount(f) \/ SwapSum(f) \/ SwapMax(f)
      PROVE  UNCHANGED <<ticks, life>>
  BY <1>2 DEF SwapCount, SwapSum, SwapMax
<1>3. ASSUME NEW f \in Flushers, Write(f)
      PROVE  ticks' = ticks /\ life' \in {life, "flushed", "overtime"}
  BY <1>3 DEF Write
<1>4. CASE Tick
  <2>1. ticks < MaxTicks /\ ticks' = ticks + 1 /\ life' = life
    BY <1>4 DEF Tick, Begin
  <2> QED
    BY <2>1, StatsAssumption DEF StatsBounded
<1>5. CASE ShutdownReturns \/ FlushStats \/ Exit
  BY <1>5 DEF ShutdownReturns, FlushStats, Begin, Exit, StatsBounded, Lives
<1> QED
  BY <1>1, <1>2, <1>3, <1>4, <1>5 DEF StatsNext, statsVars, StatsBounded, Lives

\* At first nothing has happened.
LEMMA StatsInitBounded == StatsInit => StatsBounded
BY StatsAssumption DEF StatsInit, StatsBounded, Lives

\* The types of the access statistics.
THEOREM StatsTypesHold == StatsSpec => []StatsTypeOK
<1>1. StatsSpec => [](StatsInv /\ StatsBounded)
  BY StatsInitInv, StatsInitBounded, StatsNextInv, StatsTypesKeep, PTL DEF StatsSpec
<1>2. StatsInv /\ StatsBounded => StatsTypeOK
  BY DEF StatsInv, StatsTypes, StatsBounded, Lives, StatsTypeOK
<1> QED
  BY <1>1, <1>2, PTL

-----------------------------------------------------------------------------
(* LoadGen.                                                                *)

LoadSpec == LoadInit /\ [][LoadNext]_loadVars

\* The votes of the buckets b in the field f, and in all of them.
InBucketsOf(b, f) == SumFunction([s \in DOMAIN b |-> b[s][f]])
InFieldsOf(b) == SumFunction([f \in Fields |-> InBucketsOf(b, f)])

\* The workers with a job, and those whose vote has been counted and not been recorded.
Busy(k) == {w \in Workers : k[w] \in {"mint", "vote", "reply"}}
Owing(k, c) == {w \in Workers : k[w] = "reply" /\ c[w] = 200}

Slots == [0..(Duration + 1) -> [Fields -> Nat]]
Answers == [Codes -> Nat]

LoadTyped ==
    /\ second \in 0..LastSecond /\ fire \in {"idle", "sending", "closed", "done"}
    /\ next \in 0..Total /\ jobs \in Seq(Nat) /\ Len(jobs) <= QueueLength
    /\ work \in [Workers -> {"ready", "mint", "vote", "reply", "ended"}]
    /\ code \in [Workers -> Codes]
    /\ lagged \in Nat /\ mintFails \in Nat /\ votes \in Nat /\ voters \in Nat
    /\ codes \in Answers /\ buckets \in Slots
    /\ seen \in {Unread} \cup Nat

\* Every vote of the schedule is somewhere.
VotesPlaced ==
    /\ next = lagged + mintFails + SumFunction(codes) + Len(jobs) + Cardinality(Busy(work))
    /\ votes = SumFunction(codes)

\* While there is a bucket for the time, every vote is in one.
VotesShown ==
    /\ InBucketsOf(buckets, "ok") <= codes[200]
    /\ second \in DOMAIN buckets =>
        InBucketsOf(buckets, "ok") = codes[200] /\ InFieldsOf(buckets) = votes

\* What the service has counted is recorded, is on its way, or has had no answer.
VotesCounted ==
    /\ codes[200] + Cardinality(Owing(work, code)) <= voters
    /\ voters <= codes[200] + Cardinality(Owing(work, code)) + codes[0]

\* After the last worker nothing is counted any more.
RunIsOver ==
    /\ fire = "done" => \A w \in Workers : work[w] = "ended"
    /\ seen # Unread => fire = "done" /\ seen = voters

LoadInv == LoadTyped /\ VotesPlaced /\ VotesShown /\ VotesCounted /\ RunIsOver

-----------------------------------------------------------------------------
\* The constants of a run, and the fields that an answer has.
LEMMA LoadLimits ==
  /\ Total \in Nat \ {0} /\ Duration \in Nat /\ QueueLength \in Nat \ {0} /\ LastSecond \in Nat
  /\ IsFiniteSet(Workers) /\ IsFiniteSet(Codes) /\ IsFiniteSet(Fields) /\ IsFiniteSet(0..(Duration + 1))
  /\ 0 \in Codes /\ 200 \in Codes /\ \A c \in Codes : FieldOf(c) \in Fields /\ (FieldOf(c) = "ok" <=> c = 200)
<1>1. IsFiniteSet(Codes)
  <2>1. IsFiniteSet({0}) /\ IsFiniteSet({200})
    BY FS_Singleton
  <2>2. IsFiniteSet(Refusals)
    <3>1. IsFiniteSet(201..599)
      BY FS_Interval, 201 \in Int, 599 \in Int
    <3> QED
      BY <3>1, FS_Subset, LoadAssumption
  <2>3. IsFiniteSet({0} \cup {200})
    BY <2>1, FS_Union
  <2>4. IsFiniteSet(({0} \cup {200}) \cup Refusals)
    BY <2>2, <2>3, FS_Union
  <2>5. Codes = ({0} \cup {200}) \cup Refusals
    BY DEF Codes
  <2> QED
    BY <2>4, <2>5
<1>2. IsFiniteSet(Fields)
  <2>1. IsFiniteSet({"ok"}) /\ IsFiniteSet({"dup"}) /\ IsFiniteSet({"limited"}) /\ IsFiniteSet({"other"})
    BY FS_Singleton
  <2>2. IsFiniteSet({"ok"} \cup {"dup"}) /\ IsFiniteSet({"limited"} \cup {"other"})
    BY <2>1, FS_Union
  <2>3. IsFiniteSet(({"ok"} \cup {"dup"}) \cup ({"limited"} \cup {"other"}))
    BY <2>2, FS_Union
  <2>4. Fields = ({"ok"} \cup {"dup"}) \cup ({"limited"} \cup {"other"})
    BY DEF Fields
  <2> QED
    BY <2>3, <2>4
<1>3. IsFiniteSet(0..(Duration + 1))
  BY LoadAssumption, FS_Interval
<1>4. \A c \in Codes : FieldOf(c) \in Fields /\ (FieldOf(c) = "ok" <=> c = 200)
  BY DEF FieldOf, Fields
<1> QED
  BY <1>1, <1>2, <1>3, <1>4, LoadAssumption DEF Codes

\* Two sets that agree on all but w.
SameBut(S, R, w) == S \ {w} = R \ {w}

\* They differ by one at most.
LEMMA CountChanges ==
  ASSUME NEW S, NEW R, NEW w, IsFiniteSet(S), SameBut(S, R, w)
  PROVE  /\ Cardinality(R) \in Nat /\ Cardinality(S) \in Nat
         /\ Cardinality(R) = Cardinality(S) + (IF w \in R THEN 1 ELSE 0) - (IF w \in S THEN 1 ELSE 0)
<1>1. CASE w \in S /\ w \notin R
  <2>1. R = S \ {w}
    BY <1>1 DEF SameBut
  <2>2. IsFiniteSet(R) /\ Cardinality(R) = Cardinality(S) - 1
    BY <1>1, <2>1, FS_RemoveElement
  <2>3. Cardinality(R) \in Nat /\ Cardinality(S) \in Nat
    BY <2>2, FS_CardinalityType
  <2> QED
    BY <1>1, <2>2, <2>3
<1>2. CASE w \in R /\ w \notin S
  <2>1. R = S \cup {w}
    BY <1>2 DEF SameBut
  <2>2. IsFiniteSet(R) /\ Cardinality(R) = Cardinality(S) + 1
    BY <1>2, <2>1, FS_AddElement
  <2>3. Cardinality(R) \in Nat /\ Cardinality(S) \in Nat
    BY <2>2, FS_CardinalityType
  <2> QED
    BY <1>2, <2>2, <2>3
<1>3. CASE w \in S <=> w \in R
  <2>1. R = S
    BY <1>3 DEF SameBut
  <2>2. Cardinality(S) \in Nat
    BY FS_CardinalityType
  <2> QED
    BY <1>3, <2>1, <2>2
<1> QED
  BY <1>1, <1>2, <1>3

\* h is f with one more of c.
Raised(h, f, c) == h = [f EXCEPT ![c] = @ + 1]

\* One more of one value is one more in the sum.
LEMMA SumGrows ==
  ASSUME NEW S, IsFiniteSet(S), NEW f \in [S -> Nat], NEW c \in S, NEW h,
         Raised(h, f, c)
  PROVE  h \in [S -> Nat] /\ SumFunction(f) \in Nat /\ SumFunction(h) = SumFunction(f) + 1
<1>1. h \in [S -> Nat] /\ h[c] = f[c] + 1 /\ AgreeBut(f, h, S, c)
  BY DEF AgreeBut, Raised
<1>2. SumFunctionOnSet(h, S) = SumFunctionOnSet(f, S) - f[c] + h[c]
  BY <1>1, SumChangesByOne
<1>3. SumFunctionOnSet(f, S) \in Nat
  BY SumIsNat
<1>4. SumFunction(f) = SumFunctionOnSet(f, S) /\ SumFunction(h) = SumFunctionOnSet(h, S)
  BY <1>1 DEF SumFunction
<1>5. f[c] \in Nat
  OBVIOUS
<1> QED
  BY <1>1, <1>2, <1>3, <1>4, <1>5

\* All values are zero, and so is the sum.
LEMMA SumOfNothing ==
  ASSUME NEW S, IsFiniteSet(S), NEW f, f = [x \in S |-> 0]
  PROVE  SumFunction(f) = 0
BY SumOfZeros DEF SumFunction

\* No value is more than the sum, nor are two of them together.
LEMMA SumOfTwo ==
  ASSUME NEW S, IsFiniteSet(S), NEW f \in [S -> Nat], NEW c \in S, NEW d \in S
  PROVE  /\ SumFunction(f) \in Nat /\ f[c] <= SumFunction(f)
         /\ c # d => f[c] + f[d] <= SumFunction(f)
<1> DEFINE h == [f EXCEPT ![c] = 0]
           g == [h EXCEPT ![d] = 0]
<1>1. h \in [S -> Nat] /\ h[c] = 0 /\ AgreeBut(f, h, S, c) /\ (c # d => h[d] = f[d])
  BY DEF AgreeBut
<1>2. g \in [S -> Nat] /\ g[d] = 0 /\ AgreeBut(h, g, S, d)
  BY <1>1 DEF AgreeBut
<1>3. f[c] \in Nat /\ f[d] \in Nat
  OBVIOUS
<1> HIDE DEF h, g
<1>4. SumFunctionOnSet(h, S) = SumFunctionOnSet(f, S) - f[c] + 0
  BY <1>1, SumChangesByOne
<1>5. SumFunctionOnSet(g, S) = SumFunctionOnSet(h, S) - h[d] + 0
  BY <1>2, SumChangesByOne
<1>6. SumFunctionOnSet(f, S) \in Nat /\ SumFunctionOnSet(h, S) \in Nat /\ SumFunctionOnSet(g, S) \in Nat
  BY <1>1, <1>2, SumIsNat
<1>7. SumFunction(f) = SumFunctionOnSet(f, S)
  BY DEF SumFunction
<1> QED
  BY <1>1, <1>3, <1>4, <1>5, <1>6, <1>7

\* The sums of the buckets are natural numbers.
LEMMA BucketsAreNat ==
  ASSUME NEW b \in Slots
  PROVE  InFieldsOf(b) \in Nat /\ \A f \in Fields : InBucketsOf(b, f) \in Nat
<1> DEFINE D == 0..(Duration + 1)
<1>1. ASSUME NEW f \in Fields
      PROVE  InBucketsOf(b, f) \in Nat
  <2> DEFINE u == [x \in D |-> b[x][f]]
  <2>1. u \in [D -> Nat] /\ InBucketsOf(b, f) = SumFunction(u) /\ IsFiniteSet(D)
    BY LoadLimits DEF Slots, InBucketsOf
  <2> HIDE DEF u, D
  <2> QED
    BY <2>1, SumIsNat DEF SumFunction
<1>2. InFieldsOf(b) \in Nat
  <2> DEFINE u == [f \in Fields |-> InBucketsOf(b, f)]
  <2>1. u \in [Fields -> Nat] /\ InFieldsOf(b) = SumFunction(u) /\ IsFiniteSet(Fields)
    BY <1>1, LoadLimits DEF InFieldsOf
  <2> HIDE DEF u
  <2> QED
    BY <2>1, SumIsNat DEF SumFunction
<1> QED
  BY <1>1, <1>2

\* q is b with one more vote in the field g of the bucket s.
Filled(q, b, s, g) == q = [b EXCEPT ![s][g] = @ + 1]

\* A vote that is recorded in a bucket is one more in its field.
LEMMA BucketGrows ==
  ASSUME NEW b \in Slots, NEW s \in 0..(Duration + 1), NEW g \in Fields,
         NEW q, Filled(q, b, s, g)
  PROVE  /\ q \in Slots /\ InFieldsOf(b) \in Nat /\ InFieldsOf(q) = InFieldsOf(b) + 1
         /\ \A f \in Fields : /\ InBucketsOf(b, f) \in Nat
                              /\ InBucketsOf(q, f) = InBucketsOf(b, f) + (IF f = g THEN 1 ELSE 0)
<1> DEFINE D == 0..(Duration + 1)
<1>1. q \in Slots /\ DOMAIN q = D /\ DOMAIN b = D
  BY DEF Slots, Filled
<1>2. IsFiniteSet(D) /\ IsFiniteSet(Fields)
  BY LoadLimits
<1>3. ASSUME NEW f \in Fields
      PROVE  /\ InBucketsOf(b, f) \in Nat
             /\ InBucketsOf(q, f) = InBucketsOf(b, f) + (IF f = g THEN 1 ELSE 0)
  <2> DEFINE u == [x \in D |-> b[x][f]]
             v == [x \in D |-> q[x][f]]
  <2>1. u \in [D -> Nat]
    BY DEF Slots
  <2>2. InBucketsOf(b, f) = SumFunction(u) /\ InBucketsOf(q, f) = SumFunction(v)
    BY <1>1 DEF InBucketsOf
  <2>3. f = g => Raised(v, u, s)
    BY <1>1 DEF Slots, Raised, Filled
  <2>4. f # g => v = u
    BY <1>1 DEF Slots, Filled
  <2>5. SumFunction(u) \in Nat
    <3> HIDE DEF u, v, D
    <3> QED BY <1>2, <2>1, SumIsNat DEF SumFunction
  <2>6. f = g => SumFunction(v) = SumFunction(u) + 1
    <3>1. s \in D
      OBVIOUS
    <3> HIDE DEF u, v, D
    <3> QED BY <1>2, <2>1, <2>3, <3>1, SumGrows
  <2> HIDE DEF u, v, D
  <2> QED
    BY <2>2, <2>4, <2>5, <2>6
<1>4. InFieldsOf(b) \in Nat /\ InFieldsOf(q) = InFieldsOf(b) + 1
  <2> DEFINE u == [f \in Fields |-> InBucketsOf(b, f)]
             v == [f \in Fields |-> InBucketsOf(q, f)]
  <2>1. u \in [Fields -> Nat]
    BY <1>3
  <2>2. Raised(v, u, g)
    <3>1. ASSUME NEW f \in Fields
          PROVE  v[f] = IF f = g THEN u[g] + 1 ELSE u[f]
      <4>1. u[f] = InBucketsOf(b, f) /\ v[f] = InBucketsOf(q, f) /\ InBucketsOf(b, f) \in Nat
        BY <1>3
      <4>2. u[g] = InBucketsOf(b, g)
        OBVIOUS
      <4>3. v[f] = u[f] + (IF f = g THEN 1 ELSE 0)
        BY <1>3, <4>1
      <4> HIDE DEF u, v
      <4> QED
        BY <4>1, <4>2, <4>3
    <3>2. v = [f \in Fields |-> v[f]] /\ u = [f \in Fields |-> u[f]]
      OBVIOUS
    <3> HIDE DEF u, v
    <3> QED
      BY <3>1, <3>2 DEF Raised
  <2>3. SumFunction(u) \in Nat /\ SumFunction(v) = SumFunction(u) + 1
    <3> HIDE DEF u, v
    <3> QED BY <1>2, <2>1, <2>2, SumGrows
  <2> QED
    BY <2>3 DEF InFieldsOf
<1> QED
  BY <1>1, <1>3, <1>4

States == {"ready", "mint", "vote", "reply", "ended"}
AtWork == {"mint", "vote", "reply"}

\* l is k with x at w.
Moved(l, k, w, x) == l = [k EXCEPT ![w] = x]

\* A step of one worker changes the numbers of the busy and of the owing ones by one at most.
LEMMA WorkerMoves ==
  ASSUME NEW k \in [Workers -> States], NEW d \in [Workers -> Codes], NEW w \in Workers,
         NEW x \in States, NEW c \in Codes,
         NEW l, Moved(l, k, w, x), NEW e, Moved(e, d, w, c)
  PROVE  /\ Cardinality(Busy(k)) \in Nat /\ Cardinality(Owing(k, d)) \in Nat
         /\ Cardinality(Busy(l)) = Cardinality(Busy(k)) + (IF x \in AtWork THEN 1 ELSE 0)
                                                        - (IF k[w] \in AtWork THEN 1 ELSE 0)
         /\ Cardinality(Owing(l, e)) =
              Cardinality(Owing(k, d)) + (IF x = "reply" /\ c = 200 THEN 1 ELSE 0)
                                       - (IF k[w] = "reply" /\ d[w] = 200 THEN 1 ELSE 0)
<1>1. IsFiniteSet(Busy(k)) /\ IsFiniteSet(Owing(k, d))
  <2>1. Busy(k) \subseteq Workers /\ Owing(k, d) \subseteq Workers
    BY DEF Busy, Owing
  <2> QED
    BY <2>1, LoadLimits, FS_Subset
<1>2. /\ SameBut(Busy(k), Busy(l), w)
      /\ w \in Busy(k) <=> k[w] \in AtWork
      /\ w \in Busy(l) <=> x \in AtWork
  BY DEF Busy, AtWork, SameBut, Moved
<1>3. /\ SameBut(Owing(k, d), Owing(l, e), w)
      /\ w \in Owing(k, d) <=> (k[w] = "reply" /\ d[w] = 200)
      /\ w \in Owing(l, e) <=> (x = "reply" /\ c = 200)
  BY DEF Owing, SameBut, Moved
<1>4. /\ Cardinality(Busy(k)) \in Nat
      /\ Cardinality(Busy(l)) = Cardinality(Busy(k)) + (IF x \in AtWork THEN 1 ELSE 0)
                                                     - (IF k[w] \in AtWork THEN 1 ELSE 0)
  BY <1>1, <1>2, CountChanges
<1>5. /\ Cardinality(Owing(k, d)) \in Nat
      /\ Cardinality(Owing(l, e)) =
           Cardinality(Owing(k, d)) + (IF x = "reply" /\ c = 200 THEN 1 ELSE 0)
                                    - (IF k[w] = "reply" /\ d[w] = 200 THEN 1 ELSE 0)
  BY <1>1, <1>3, CountChanges
<1> QED
  BY <1>4, <1>5

\* What is known of the sizes.
LEMMA LoadSizes ==
  ASSUME LoadTyped
  PROVE  /\ SumFunction(codes) \in Nat /\ codes[0] \in Nat /\ codes[200] \in Nat
         /\ codes[0] + codes[200] <= SumFunction(codes)
         /\ \A c \in Codes : codes[c] \in Nat /\ codes[c] <= SumFunction(codes)
         /\ Cardinality(Busy(work)) \in Nat /\ Cardinality(Owing(work, code)) \in Nat
         /\ Cardinality(Owing(work, code)) <= Cardinality(Busy(work))
<1>1. codes \in [Codes -> Nat]
  BY DEF LoadTyped, Answers
<1>2. /\ SumFunction(codes) \in Nat /\ codes[0] + codes[200] <= SumFunction(codes)
      /\ \A c \in Codes : codes[c] <= SumFunction(codes)
  <2>1. 0 # 200
    OBVIOUS
  <2> QED
    BY <1>1, <2>1, LoadLimits, SumOfTwo
<1>3. Busy(work) \subseteq Workers /\ Owing(work, code) \subseteq Busy(work)
  BY DEF Busy, Owing
<1>4. IsFiniteSet(Busy(work)) /\ IsFiniteSet(Owing(work, code))
  BY <1>3, LoadLimits, FS_Subset
<1>5. Cardinality(Busy(work)) \in Nat /\ Cardinality(Owing(work, code)) \in Nat
  BY <1>4, FS_CardinalityType
<1>6. Cardinality(Owing(work, code)) <= Cardinality(Busy(work))
  BY <1>3, <1>4, FS_Subset
<1> QED
  BY <1>1, <1>2, <1>5, <1>6, LoadLimits

\* At first there is nothing to count.
LEMMA LoadInitInv == LoadInit => LoadInv
<1> SUFFICES ASSUME LoadInit PROVE LoadInv
  OBVIOUS
<1> USE DEF LoadInit
<1>1. LoadTyped
  BY LoadLimits DEF LoadTyped, Answers, Slots, Codes, Unread
<1>2. Busy(work) = {} /\ Owing(work, code) = {} /\ Cardinality({}) = 0
  BY FS_EmptySet DEF Busy, Owing
<1>3. SumFunction(codes) = 0
  <2>1. codes = [c \in Codes |-> 0] /\ IsFiniteSet(Codes)
    BY LoadLimits
  <2> QED
    BY <2>1, SumOfNothing
<1>4. ASSUME NEW f \in Fields
      PROVE  InBucketsOf(buckets, f) = 0
  <2> DEFINE u == [s \in DOMAIN buckets |-> buckets[s][f]]
  <2>1. u = [s \in 0..(Duration + 1) |-> 0] /\ IsFiniteSet(0..(Duration + 1))
    BY LoadLimits
  <2>2. SumFunction(u) = 0
    <3> HIDE DEF u
    <3> QED BY <2>1, SumOfNothing
  <2> QED
    BY <2>2 DEF InBucketsOf
<1>5. InFieldsOf(buckets) = 0
  <2> DEFINE u == [f \in Fields |-> InBucketsOf(buckets, f)]
  <2>1. u = [f \in Fields |-> 0] /\ IsFiniteSet(Fields)
    BY <1>4, LoadLimits
  <2>2. SumFunction(u) = 0
    <3> HIDE DEF u
    <3> QED BY <2>1, SumOfNothing
  <2> QED
    BY <2>2 DEF InFieldsOf
<1>6. codes[200] = 0 /\ codes[0] = 0 /\ InBucketsOf(buckets, "ok") = 0
  BY <1>4, LoadLimits DEF Fields
<1>7. /\ voters = 0 /\ votes = 0 /\ fire # "done" /\ seen = Unread
      /\ next = 0 /\ lagged = 0 /\ mintFails = 0 /\ Len(jobs) = 0
  OBVIOUS
<1> HIDE DEF LoadInit
<1>8. VotesPlaced
  BY <1>2, <1>3, <1>7 DEF VotesPlaced
<1>9. VotesShown
  BY <1>5, <1>6, <1>7 DEF VotesShown
<1>10. VotesCounted
  BY <1>2, <1>6, <1>7 DEF VotesCounted
<1>11. RunIsOver
  BY <1>7 DEF RunIsOver
<1> QED
  BY <1>1, <1>8, <1>9, <1>10, <1>11 DEF LoadInv

\* The schedule and the clock.
LEMMA FireKeeps ==
  ASSUME LoadInv, Start \/ Send \/ Close \/ FireReturns \/ Verify3s \/ LoadTick
  PROVE  LoadInv'
<1>1. UNCHANGED <<work, code, mintFails, codes, votes, buckets, voters>>
  BY DEF Start, Send, Close, FireReturns, Verify3s, LoadTick
<1>2. /\ jobs \in Seq(Nat) /\ Len(jobs) \in Nat /\ next \in 0..Total /\ lagged \in Nat
      /\ second \in 0..LastSecond
  BY DEF LoadInv, LoadTyped
<1>3. LoadTyped' /\ VotesPlaced'
  <2>1. CASE Send
    <3>1. next < Total /\ next' = next + 1 /\ next \in Nat /\ second' = second /\ fire' = fire
          /\ seen' = seen
      BY <1>2, <2>1, LoadLimits DEF Send
    <3>2. CASE Len(jobs) < QueueLength
      <4>1. jobs' = Append(jobs, next) /\ lagged' = lagged
        BY <2>1, <3>2 DEF Send
      <4>2. jobs' \in Seq(Nat) /\ Len(jobs') = Len(jobs) + 1
        BY <1>2, <3>1, <4>1
      <4>3. LoadTyped'
        BY <1>1, <1>2, <3>1, <3>2, <4>1, <4>2, LoadLimits DEF LoadInv, LoadTyped
      <4>4. VotesPlaced'
        <5> DEFINE all == SumFunction(codes)
                   busy == Cardinality(Busy(work))
        <5>1. all \in Nat /\ busy \in Nat /\ mintFails \in Nat
          BY LoadSizes DEF LoadInv, LoadTyped
        <5>2. next = lagged + mintFails + all + Len(jobs) + busy /\ votes = all
          BY DEF LoadInv, VotesPlaced
        <5> HIDE DEF all, busy
        <5>3. next' = lagged' + mintFails' + all + Len(jobs') + busy /\ votes' = all
          BY <1>1, <1>2, <3>1, <4>1, <4>2, <5>1, <5>2
        <5> QED
          BY <1>1, <5>3 DEF VotesPlaced, all, busy
      <4> QED
        BY <4>3, <4>4
    <3>3. CASE ~(Len(jobs) < QueueLength)
      <4>1. jobs' = jobs /\ lagged' = lagged + 1
        BY <2>1, <3>3 DEF Send
      <4>2. LoadTyped'
        BY <1>1, <1>2, <3>1, <4>1, LoadLimits DEF LoadInv, LoadTyped
      <4>3. VotesPlaced'
        <5> DEFINE all == SumFunction(codes)
                   busy == Cardinality(Busy(work))
        <5>1. all \in Nat /\ busy \in Nat /\ mintFails \in Nat
          BY LoadSizes DEF LoadInv, LoadTyped
        <5>2. next = lagged + mintFails + all + Len(jobs) + busy /\ votes = all
          BY DEF LoadInv, VotesPlaced
        <5> HIDE DEF all, busy
        <5>3. next' = lagged' + mintFails' + all + Len(jobs') + busy /\ votes' = all
          BY <1>1, <1>2, <3>1, <4>1, <5>1, <5>2
        <5> QED
          BY <1>1, <5>3 DEF VotesPlaced, all, busy
      <4> QED
        BY <4>2, <4>3
    <3> QED
      BY <3>2, <3>3
  <2>2. CASE Start \/ Close \/ FireReturns \/ LoadTick \/ Verify3s
    <3>1. /\ UNCHANGED <<next, jobs, lagged>>
          /\ second' \in 0..LastSecond /\ fire' \in {"idle", "sending", "closed", "done"}
          /\ seen' \in {Unread} \cup Nat
      BY <1>2, <2>2, LoadLimits DEF Start, Close, FireReturns, LoadTick, Verify3s, LoadInv, LoadTyped
    <3> QED
      BY <1>1, <3>1 DEF LoadInv, LoadTyped, VotesPlaced
  <2> QED
    BY <2>1, <2>2
<1>4. VotesShown'
  <2>1. second' \in DOMAIN buckets => second \in DOMAIN buckets
    <3>1. second' = second \/ second' = second + 1
      BY DEF Start, Send, Close, FireReturns, Verify3s, LoadTick
    <3>2. DOMAIN buckets = 0..(Duration + 1)
      BY DEF LoadInv, LoadTyped, Slots
    <3> QED
      BY <1>2, <3>1, <3>2, LoadLimits
  <2> QED
    BY <1>1, <2>1 DEF LoadInv, VotesShown
<1>5. VotesCounted'
  BY <1>1 DEF LoadInv, VotesCounted
<1>6. RunIsOver'
  BY <1>1 DEF LoadInv, RunIsOver, Start, Send, Close, FireReturns, Verify3s, LoadTick
<1> QED
  BY <1>3, <1>4, <1>5, <1>6 DEF LoadInv

\* The worker w goes to x with the answer c on its way, and nothing is recorded.
WorkerTurns(w, x, c) ==
    /\ work' = [work EXCEPT ![w] = x] /\ code' = [code EXCEPT ![w] = c]
    /\ UNCHANGED <<second, fire, next, lagged, codes, votes, buckets, seen>>

\* What all of them have in common: a vote that is still to be recorded stays somewhere.
WorkerTurned(w, x, c) ==
    /\ WorkerTurns(w, x, c)
    /\ work[w] \notin {"ended", "reply"}
    /\ jobs' \in Seq(Nat) /\ Len(jobs') \in Nat /\ Len(jobs') <= QueueLength
    /\ mintFails' \in Nat /\ voters' \in Nat
    /\ Len(jobs') + mintFails' + (IF x \in AtWork THEN 1 ELSE 0)
         = Len(jobs) + mintFails + (IF work[w] \in AtWork THEN 1 ELSE 0)
    /\ voters' = voters + (IF x = "reply" /\ c = 200 THEN 1 ELSE 0)

\* A worker gets a job, mints, has its vote counted, or ends.
LEMMA WorkerKeeps ==
  ASSUME LoadInv, NEW w \in Workers, Take(w) \/ Minted(w) \/ MintFails(w) \/ Serve(w)
  PROVE  LoadInv'
<1>1. /\ work \in [Workers -> States] /\ code \in [Workers -> Codes] /\ jobs \in Seq(Nat)
      /\ lagged \in Nat /\ mintFails \in Nat /\ voters \in Nat /\ next \in Nat
      /\ Len(jobs) \in Nat /\ Len(jobs) <= QueueLength
  BY LoadLimits DEF LoadInv, LoadTyped, States
<1>2. /\ SumFunction(codes) \in Nat /\ codes[0] \in Nat /\ codes[200] \in Nat
      /\ Cardinality(Busy(work)) \in Nat /\ Cardinality(Owing(work, code)) \in Nat
  BY LoadSizes DEF LoadInv
<1>3. /\ next = lagged + mintFails + SumFunction(codes) + Len(jobs) + Cardinality(Busy(work))
      /\ votes = SumFunction(codes)
      /\ codes[200] + Cardinality(Owing(work, code)) <= voters
      /\ voters <= codes[200] + Cardinality(Owing(work, code)) + codes[0]
  BY DEF LoadInv, VotesPlaced, VotesCounted
<1>4. \E x \in States, c \in Codes : WorkerTurned(w, x, c)
  <2>1. CASE Take(w) /\ jobs # <<>>
    <3>1. WorkerTurns(w, "mint", code[w]) /\ jobs' = Tail(jobs) /\ work[w] = "ready"
      BY <1>1, <2>1 DEF Take, Works, WorkerTurns
    <3>2. jobs' \in Seq(Nat) /\ Len(jobs') = Len(jobs) - 1 /\ Len(jobs') \in Nat
      BY <1>1, <2>1, <3>1
    <3>3. mintFails' = mintFails /\ voters' = voters
      BY <2>1 DEF Take
    <3>4. Len(jobs') + mintFails' + 1 = Len(jobs) + mintFails + 0
      BY <1>1, <3>2, <3>3
    <3>5. "mint" \in AtWork /\ work[w] \notin AtWork
      BY <3>1 DEF AtWork
    <3>6. voters' = voters + 0 /\ Len(jobs') <= QueueLength /\ voters' \in Nat /\ mintFails' \in Nat
      BY <1>1, <3>2, <3>3, LoadLimits
    <3>7. work[w] \notin {"ended", "reply"}
      BY <3>1
    <3>8. WorkerTurned(w, "mint", code[w])
      BY <3>1, <3>2, <3>4, <3>5, <3>6, <3>7 DEF WorkerTurned
    <3>9. "mint" \in States /\ code[w] \in Codes
      BY <1>1 DEF States
    <3> QED
      BY <3>8, <3>9
  <2>2. CASE Take(w) /\ jobs = <<>>
    <3>1. WorkerTurns(w, "ended", code[w]) /\ work[w] = "ready"
      BY <1>1, <2>2 DEF Take, Works, WorkerTurns
    <3>2. jobs' = jobs /\ mintFails' = mintFails /\ voters' = voters
      BY <2>2 DEF Take
    <3>3. WorkerTurned(w, "ended", code[w])
      BY <1>1, <3>1, <3>2 DEF WorkerTurned, AtWork
    <3>4. "ended" \in States /\ code[w] \in Codes
      BY <1>1 DEF States
    <3> QED
      BY <3>3, <3>4
  <2>3. CASE Minted(w)
    <3>1. WorkerTurns(w, "vote", code[w]) /\ work[w] = "mint"
      BY <1>1, <2>3 DEF Minted, Works, WorkerTurns
    <3>2. jobs' = jobs /\ mintFails' = mintFails /\ voters' = voters
      BY <2>3 DEF Minted
    <3>3. WorkerTurned(w, "vote", code[w])
      BY <1>1, <3>1, <3>2 DEF WorkerTurned, AtWork
    <3>4. "vote" \in States /\ code[w] \in Codes
      BY <1>1 DEF States
    <3> QED
      BY <3>3, <3>4
  <2>4. CASE MintFails(w)
    <3>1. WorkerTurns(w, "ready", code[w]) /\ work[w] = "mint"
      BY <1>1, <2>4 DEF MintFails, Works, WorkerTurns
    <3>2. jobs' = jobs /\ mintFails' = mintFails + 1 /\ voters' = voters
      BY <2>4 DEF MintFails
    <3>3. WorkerTurned(w, "ready", code[w])
      BY <1>1, <3>1, <3>2 DEF WorkerTurned, AtWork
    <3>4. "ready" \in States /\ code[w] \in Codes
      BY <1>1 DEF States
    <3> QED
      BY <3>3, <3>4
  <2>5. CASE Serve(w)
    <3>1. PICK c \in Codes \ {0} : code' = [code EXCEPT ![w] = c]
      BY <2>5 DEF Serve
    <3>2. WorkerTurns(w, "reply", c) /\ work[w] = "vote" /\ code'[w] = c
      BY <1>1, <2>5, <3>1 DEF Serve, Works, WorkerTurns
    <3>3. /\ jobs' = jobs /\ mintFails' = mintFails
          /\ voters' = IF c = 200 THEN voters + 1 ELSE voters
      BY <2>5, <3>2 DEF Serve
    <3>4. WorkerTurned(w, "reply", c)
      BY <1>1, <3>2, <3>3 DEF WorkerTurned, AtWork
    <3>5. "reply" \in States /\ c \in Codes
      BY <1>1 DEF States
    <3> QED
      BY <3>4, <3>5
  <2> QED
    BY <2>1, <2>2, <2>3, <2>4, <2>5
<1>5. PICK x \in States, c \in Codes : WorkerTurned(w, x, c)
  BY <1>4
<1>6. /\ UNCHANGED <<second, fire, next, lagged, codes, votes, buckets, seen>>
      /\ Moved(work', work, w, x) /\ Moved(code', code, w, c)
  BY <1>5 DEF WorkerTurned, WorkerTurns, Moved
<1> DEFINE was == IF work[w] \in AtWork THEN 1 ELSE 0
           is == IF x \in AtWork THEN 1 ELSE 0
           new == IF x = "reply" /\ c = 200 THEN 1 ELSE 0
           busy == Cardinality(Busy(work))
           busy2 == Cardinality(Busy(work'))
           owing == Cardinality(Owing(work, code))
           owing2 == Cardinality(Owing(work', code'))
           recorded == SumFunction(codes)
           queued == Len(jobs)
           queued2 == Len(jobs')
           confirmed == codes[200]
           silent == codes[0]
           failed2 == mintFails'
<1>7. busy2 = busy + is - was /\ owing2 = owing + new
  <2>1. /\ Cardinality(Owing(work, code)) \in Nat
        /\ busy2 = busy + is - was
        /\ owing2 = owing + new - (IF work[w] = "reply" /\ code[w] = 200 THEN 1 ELSE 0)
    BY <1>1, <1>6, WorkerMoves
  <2>2. work[w] # "reply"
    BY <1>5 DEF WorkerTurned
  <2>3. new \in Nat
    OBVIOUS
  <2> HIDE DEF new, owing2
  <2> QED
    BY <2>1, <2>2, <2>3
<1>8. /\ was \in Nat /\ is \in Nat /\ new \in Nat /\ busy \in Nat /\ owing \in Nat /\ recorded \in Nat
      /\ queued \in Nat /\ queued2 \in Nat /\ confirmed \in Nat /\ silent \in Nat
      /\ lagged \in Nat /\ mintFails \in Nat /\ failed2 \in Nat /\ voters \in Nat
  BY <1>1, <1>2, <1>5 DEF WorkerTurned
<1>9. queued2 + failed2 + is = queued + mintFails + was /\ voters' = voters + new
  BY <1>5 DEF WorkerTurned
<1>10. LoadTyped'
  <2>1. /\ jobs' \in Seq(Nat) /\ Len(jobs') <= QueueLength /\ mintFails' \in Nat /\ voters' \in Nat
    BY <1>5 DEF WorkerTurned
  <2>2. work' \in [Workers -> States] /\ code' \in [Workers -> Codes]
    BY <1>1, <1>6 DEF Moved
  <2> QED
    BY <1>6, <2>1, <2>2 DEF LoadInv, LoadTyped, States
<1>11. VotesPlaced'
  <2>1. next = lagged + mintFails + recorded + queued + busy /\ votes = recorded
    BY <1>3
  <2>2. next = lagged + failed2 + recorded + queued2 + busy2
    <3> HIDE DEF was, is, new, busy, busy2, owing2, recorded, queued, queued2, failed2
    <3> QED BY <1>7, <1>8, <1>9, <2>1
  <2> QED
    BY <1>6, <2>1, <2>2 DEF VotesPlaced
<1>12. VotesShown'
  BY <1>6 DEF LoadInv, VotesShown
<1>13. VotesCounted'
  <2>1. confirmed + owing <= voters /\ voters <= confirmed + owing + silent
    BY <1>3
  <2>2. confirmed + owing2 <= voters' /\ voters' <= confirmed + owing2 + silent
    <3> HIDE DEF was, is, new, busy2, owing, owing2, queued, queued2, confirmed, silent, failed2
    <3> QED BY <1>7, <1>8, <1>9, <2>1
  <2> QED
    BY <1>6, <2>2 DEF VotesCounted
<1>14. RunIsOver'
  <2>1. work[w] # "ended"
    BY <1>5 DEF WorkerTurned
  <2> QED
    BY <1>6, <2>1 DEF LoadInv, RunIsOver, Moved
<1> QED
  BY <1>10, <1>11, <1>12, <1>13, <1>14 DEF LoadInv

\* An answer, or none, is recorded under its code and in the bucket of its time.
LEMMA AnswerKeeps ==
  ASSUME LoadInv, NEW w \in Workers, NEW c \in Codes, Record(w, c), work[w] \in {"vote", "reply"},
         c # 0 => work[w] = "reply" /\ c = code[w]
  PROVE  LoadInv'
<1>1. /\ votes' = votes + 1 /\ Raised(codes', codes, c)
      /\ second \in DOMAIN buckets => Filled(buckets', buckets, second, FieldOf(c))
      /\ second \notin DOMAIN buckets => buckets' = buckets
      /\ Moved(work', work, w, "ready") /\ Moved(code', code, w, 0)
      /\ UNCHANGED <<second, fire, next, jobs, lagged, mintFails, voters, seen>>
  BY DEF Record, Works, Moved, Raised, Filled
<1>2. /\ work \in [Workers -> States] /\ code \in [Workers -> Codes] /\ jobs \in Seq(Nat)
      /\ lagged \in Nat /\ mintFails \in Nat /\ voters \in Nat /\ next \in Nat /\ votes \in Nat
      /\ Len(jobs) \in Nat /\ codes \in [Codes -> Nat] /\ buckets \in Slots
  BY LoadLimits DEF LoadInv, LoadTyped, States, Answers
<1>3. /\ SumFunction(codes) \in Nat /\ codes[0] \in Nat /\ codes[200] \in Nat
      /\ Cardinality(Busy(work)) \in Nat /\ Cardinality(Owing(work, code)) \in Nat
  BY LoadSizes DEF LoadInv
<1>4. /\ next = lagged + mintFails + SumFunction(codes) + Len(jobs) + Cardinality(Busy(work))
      /\ votes = SumFunction(codes)
      /\ codes[200] + Cardinality(Owing(work, code)) <= voters
      /\ voters <= codes[200] + Cardinality(Owing(work, code)) + codes[0]
  BY DEF LoadInv, VotesPlaced, VotesCounted
<1> DEFINE old == IF work[w] = "reply" /\ code[w] = 200 THEN 1 ELSE 0
           busy == Cardinality(Busy(work))
           busy2 == Cardinality(Busy(work'))
           owing == Cardinality(Owing(work, code))
           owing2 == Cardinality(Owing(work', code'))
<1>5. busy2 = busy - 1 /\ owing2 = owing - old
  <2>1. "ready" \in States /\ "ready" \notin AtWork /\ 0 \in Codes /\ work[w] \in AtWork
    BY LoadLimits DEF States, AtWork
  <2>2. work \in [Workers -> States] /\ code \in [Workers -> Codes]
    BY <1>2
  <2>3. Moved(work', work, w, "ready") /\ Moved(code', code, w, 0)
    BY <1>1
  <2>4. /\ busy2 = busy + (IF "ready" \in AtWork THEN 1 ELSE 0)
                        - (IF work[w] \in AtWork THEN 1 ELSE 0)
        /\ owing2 = owing + (IF "ready" = "reply" /\ 0 = 200 THEN 1 ELSE 0)
                          - (IF work[w] = "reply" /\ code[w] = 200 THEN 1 ELSE 0)
    <3> HIDE DEF busy, busy2, owing, owing2, old
    <3> QED BY <2>1, <2>2, <2>3, WorkerMoves DEF busy, busy2, owing, owing2
  <2>5. busy \in Nat /\ owing \in Nat /\ old \in Nat
    BY <1>3
  <2> HIDE DEF busy, busy2, owing, owing2
  <2> QED
    BY <2>1, <2>4, <2>5
<1>6. codes' \in [Codes -> Nat] /\ SumFunction(codes') = SumFunction(codes) + 1
  BY <1>1, <1>2, LoadLimits, SumGrows
<1>7. /\ codes'[200] = codes[200] + (IF c = 200 THEN 1 ELSE 0)
      /\ codes'[0] = codes[0] + (IF c = 0 THEN 1 ELSE 0)
  BY <1>1, <1>2, LoadLimits DEF Raised
<1>8. /\ InBucketsOf(buckets, "ok") \in Nat /\ InFieldsOf(buckets) \in Nat /\ buckets' \in Slots
      /\ second \in DOMAIN buckets =>
           /\ InBucketsOf(buckets', "ok") = InBucketsOf(buckets, "ok") + (IF c = 200 THEN 1 ELSE 0)
           /\ InFieldsOf(buckets') = InFieldsOf(buckets) + 1
      /\ second \notin DOMAIN buckets => buckets' = buckets
  <2>1. /\ "ok" \in Fields /\ FieldOf(c) \in Fields /\ (FieldOf(c) = "ok" <=> c = 200)
        /\ DOMAIN buckets = 0..(Duration + 1)
    BY <1>2, LoadLimits DEF Fields, Slots
  <2>2. InBucketsOf(buckets, "ok") \in Nat /\ InFieldsOf(buckets) \in Nat
    BY <1>2, <2>1, BucketsAreNat
  <2>3. CASE second \in DOMAIN buckets
    <3>1. /\ Filled(buckets', buckets, second, FieldOf(c))
          /\ second \in 0..(Duration + 1)
      BY <1>1, <2>1, <2>3
    <3>2. /\ buckets' \in Slots /\ InFieldsOf(buckets') = InFieldsOf(buckets) + 1
          /\ InBucketsOf(buckets', "ok")
               = InBucketsOf(buckets, "ok") + (IF "ok" = FieldOf(c) THEN 1 ELSE 0)
      BY <1>2, <2>1, <3>1, BucketGrows
    <3> QED
      BY <2>1, <2>2, <2>3, <3>2
  <2>4. CASE second \notin DOMAIN buckets
    BY <1>1, <1>2, <2>2, <2>4
  <2> QED
    BY <2>3, <2>4
<1>9. LoadTyped'
  <2>1. work' \in [Workers -> States] /\ code' \in [Workers -> Codes]
    BY <1>1, <1>2, LoadLimits DEF States, Moved
  <2> QED
    BY <1>1, <1>2, <1>6, <1>8, <2>1 DEF LoadInv, LoadTyped, Answers, States
<1>10. VotesPlaced'
  <2>1. next = lagged + mintFails + SumFunction(codes) + Len(jobs) + busy /\ votes = SumFunction(codes)
    BY <1>4
  <2>2. /\ busy \in Nat /\ votes' = votes + 1 /\ SumFunction(codes) \in Nat
        /\ lagged \in Nat /\ mintFails \in Nat /\ Len(jobs) \in Nat
    BY <1>1, <1>2, <1>3
  <2>3. busy2 = busy - 1 /\ SumFunction(codes') = SumFunction(codes) + 1
    BY <1>5, <1>6
  <2> HIDE DEF busy, busy2
  <2>4. next = lagged + mintFails + SumFunction(codes') + Len(jobs) + busy2 /\ votes' = SumFunction(codes')
    BY <2>1, <2>2, <2>3
  <2> QED
    BY <1>1, <2>4 DEF VotesPlaced, busy2
<1>11. VotesShown'
  <2>1. second' = second /\ DOMAIN buckets' = DOMAIN buckets
    BY <1>1, <1>2, <1>8 DEF Slots
  <2>2. CASE second \in DOMAIN buckets
    <3>1. InBucketsOf(buckets, "ok") = codes[200] /\ InFieldsOf(buckets) = votes
      BY <2>2 DEF LoadInv, VotesShown
    <3>2. InBucketsOf(buckets', "ok") = codes'[200] /\ InFieldsOf(buckets') = votes'
      BY <1>1, <1>2, <1>7, <1>8, <2>2, <3>1
    <3>3. InBucketsOf(buckets', "ok") <= codes'[200]
      BY <1>3, <1>7, <3>2
    <3> QED
      BY <3>2, <3>3 DEF VotesShown
  <2>3. CASE second \notin DOMAIN buckets
    <3>1. InBucketsOf(buckets, "ok") <= codes[200]
      BY DEF LoadInv, VotesShown
    <3>2. InBucketsOf(buckets', "ok") <= codes'[200]
      BY <1>3, <1>7, <1>8, <2>3, <3>1
    <3> QED
      BY <2>1, <2>3, <3>2 DEF VotesShown
  <2> QED
    BY <2>2, <2>3
<1>12. VotesCounted'
  <2>1. /\ codes[200] + owing <= voters /\ voters <= codes[200] + owing + codes[0] /\ owing \in Nat
    BY <1>3, <1>4
  <2>2. old \in {0, 1} /\ (c = 200 => old = 1) /\ (c # 200 /\ c # 0 => old = 0)
    OBVIOUS
  <2> DEFINE confirmed == codes[200]
             confirmed2 == codes'[200]
             silent == codes[0]
             silent2 == codes'[0]
  <2>3. /\ confirmed \in Nat /\ silent \in Nat /\ voters \in Nat /\ owing2 = owing - old
        /\ confirmed2 = confirmed + (IF c = 200 THEN 1 ELSE 0)
        /\ silent2 = silent + (IF c = 0 THEN 1 ELSE 0)
    BY <1>2, <1>3, <1>5, <1>7
  <2>4. confirmed + owing <= voters /\ voters <= confirmed + owing + silent
    BY <2>1
  <2>5. confirmed2 + owing2 <= voters /\ voters <= confirmed2 + owing2 + silent2
    <3> HIDE DEF owing, owing2, old, confirmed, confirmed2, silent, silent2
    <3>1. CASE c = 0
      BY <2>1, <2>2, <2>3, <2>4, <3>1
    <3>2. CASE c = 200
      BY <2>1, <2>2, <2>3, <2>4, <3>2
    <3>3. CASE c # 0 /\ c # 200
      BY <2>1, <2>2, <2>3, <2>4, <3>3
    <3> QED
      BY <3>1, <3>2, <3>3
  <2> QED
    BY <1>1, <2>5 DEF VotesCounted
<1>13. RunIsOver'
  BY <1>1 DEF LoadInv, RunIsOver, Moved
<1> QED
  BY <1>9, <1>10, <1>11, <1>12, <1>13 DEF LoadInv

\* Every step of a run of the load generator keeps the invariant.
LEMMA LoadNextInv ==
  ASSUME LoadInv, [LoadNext]_loadVars
  PROVE  LoadInv'
<1>1. CASE UNCHANGED loadVars
  BY <1>1 DEF loadVars, LoadInv, LoadTyped, VotesPlaced, VotesShown, VotesCounted, RunIsOver
<1>2. ASSUME NEW w \in Workers, Reply(w) \/ Fail(w)
      PROVE  LoadInv'
  <2>1. code[w] \in Codes /\ 0 \in Codes
    BY LoadLimits DEF LoadInv, LoadTyped
  <2> QED
    BY <1>2, <2>1, AnswerKeeps DEF Reply, Fail
<1> QED
  BY <1>1, <1>2, FireKeeps, WorkerKeeps DEF LoadNext, LoadSteps, Worker

\* The inductive invariant holds in every state.
THEOREM LoadInvariance == LoadSpec => []LoadInv
BY LoadInitInv, LoadNextInv, PTL DEF LoadSpec

\* Every scheduled vote is in one place, and the report's buckets agree (main.go fire, record).
THEOREM VotesAreAccounted == LoadSpec => []VotesAccounted
<1>1. LoadInv => VotesAccounted
  <2>1. InBuckets("ok") = InBucketsOf(buckets, "ok")
    BY DEF InBuckets, InBucketsOf
  <2>2. SumFunction([f \in Fields |-> InBuckets(f)]) = InFieldsOf(buckets)
    BY DEF InBuckets, InBucketsOf, InFieldsOf
  <2> QED
    BY <2>1, <2>2 DEF LoadInv, VotesPlaced, VotesShown, Busy, VotesAccounted
<1> QED
  BY <1>1, LoadInvariance, PTL

\* The divergence that verify reports is that of the requests without an answer (main.go).
THEOREM DivergenceIsExplained == LoadSpec => []DivergenceExplained
<1>1. LoadInv => DivergenceExplained
  <2>1. ASSUME LoadInv, seen # Unread
        PROVE  seen - codes[200] \in 0..codes[0]
    <3>1. seen = voters /\ \A w \in Workers : work[w] = "ended"
      BY <2>1 DEF LoadInv, RunIsOver
    <3>2. Owing(work, code) = {} /\ Cardinality({}) = 0
      BY <3>1, FS_EmptySet DEF Owing
    <3>3. codes[0] \in Nat /\ codes[200] \in Nat /\ voters \in Nat
      BY <2>1, LoadSizes DEF LoadInv, LoadTyped
    <3>4. codes[200] <= voters /\ voters <= codes[200] + codes[0]
      BY <2>1, <3>2, <3>3 DEF LoadInv, VotesCounted
    <3> QED
      BY <3>1, <3>3, <3>4
  <2> QED
    BY <2>1 DEF DivergenceExplained
<1> QED
  BY <1>1, LoadInvariance, PTL

\* No count exceeds the votes of the schedule.
LEMMA LoadInvTypes == LoadInv => LoadTypeOK
<1>1. ASSUME LoadInv
      PROVE  LoadTypeOK
  <2>1. /\ next \in 0..Total /\ Len(jobs) \in Nat /\ lagged \in Nat /\ mintFails \in Nat
        /\ codes \in [Codes -> Nat] /\ voters \in Nat /\ Total \in Nat
    BY <1>1, LoadLimits DEF LoadInv, LoadTyped, Answers
  <2>2. SumFunction(codes) + Cardinality(Busy(work)) <= Total
    BY <1>1, <2>1, LoadSizes DEF LoadInv, VotesPlaced
  <2>3. /\ \A c \in Codes : codes[c] <= Total
        /\ voters <= Total
    BY <1>1, <2>1, <2>2, LoadSizes DEF LoadInv, VotesCounted
  <2>4. codes \in [Codes -> 0..Total] /\ voters \in 0..Total
    BY <2>1, <2>3
  <2>5. seen \in {Unread} \cup 0..Total
    BY <1>1, <2>4 DEF LoadInv, RunIsOver
  <2> QED
    BY <1>1, <2>4, <2>5 DEF LoadInv, LoadTyped, LoadTypeOK
<1> QED
  BY <1>1

\* The types of the load generator.
THEOREM LoadTypes == LoadSpec => []LoadTypeOK
BY LoadInvTypes, LoadInvariance, PTL
=============================================================================
