------------------------------ MODULE Viewers ------------------------------
(***************************************************************************)
(* The pages of one browser and the tokens of one poll: web/index.html,     *)
(* internal/httpapi/token.go, internal/token/hmac.go and voterFrom of       *)
(* internal/httpapi/vote.go, on instances whose clocks differ.              *)
(*                                                                         *)
(* A token is what the secret of the instances has signed: the number of    *)
(* its nonce and its second.  The pages of a browser share its cookie.      *)
(***************************************************************************)
EXTENDS Clock, Sequences, FiniteSets

CONSTANTS
    Pages,          \* of one browser
    Skews,          \* how far the clock of each instance is ahead of the latest one
    TokenTTL,       \* cfg.TokenTTL, also the cookie's MaxAge
    ClockSkew,      \* clockSkew
    Second,         \* a second, in units of the clock
    NoToken,
    MaxTokens,      \* bound: tokens issued
    ViewersEnd      \* bound: end of time

\* NTP keeps the instances together far better than the tolerance asks for.
ASSUME ViewersAssumption ==
    /\ Skews \subseteq 0..ClockSkew
    /\ TokenTTL \in Nat /\ ClockSkew \in Nat /\ Second \in Nat \ {0}
    /\ MaxTokens \in Nat /\ ViewersEnd \in Nat

VARIABLES
    cookie,             \* the browser's cookie; its MaxAge ends no earlier than the token
    page,               \* where the script of each page is; closed: until it is reloaded
    sent,               \* the cookie that its request carries, or that its reply sets
    late,               \* votes on their way whose page no longer waits
    minted,             \* history: the time at which each token was issued
    accepted,           \* the voter ids whose votes were accepted
    raced               \* history: a mint was sent while another one was on its way

viewersVars == <<cookie, page, sent, late, minted, accepted, raced>>

Tokens == [nonce : 1..MaxTokens, second : 0..(ViewersEnd + ClockSkew)]

ViewersInit ==
    /\ cookie = NoToken
    /\ page = [b \in Pages |-> "closed"] /\ sent = [b \in Pages |-> NoToken]
    /\ late = {} /\ minted = <<>> /\ accepted = {} /\ raced = FALSE

Turns(b, x) == page' = [page EXCEPT ![b] = x]
Carries(b, x) == sent' = [sent EXCEPT ![b] = x]

-----------------------------------------------------------------------------
(* The server: an instance whose clock says t.                             *)

Issue(t) == [nonce |-> Len(minted) + 1, second |-> t - (t % Second)]

\* Mutant: no tolerance for a token of an instance that is ahead.
VerifyStrict(tok, t) ==
    tok # NoToken /\ t >= tok.second /\ t <= tok.second + TokenTTL

Verify(tok, t) ==
    tok # NoToken /\ t >= tok.second - ClockSkew /\ t <= tok.second + TokenTTL

\* Mutant: every call issues a token.
MintAlways(b) ==
    /\ page[b] = "mint" /\ Len(minted) < MaxTokens
    /\ \E s \in Skews : Carries(b, Issue(now + s))
    /\ minted' = Append(minted, now)
    /\ Turns(b, "minted")
    /\ UNCHANGED <<now, cookie, late, accepted, raced>>

\* handleToken: a valid token stays, otherwise the reply sets a new one.
Mint(b) ==
    /\ page[b] = "mint"
    /\ \E s \in Skews :
        IF Verify(sent[b], now + s)
            THEN Carries(b, NoToken) /\ UNCHANGED minted
            ELSE /\ Len(minted) < MaxTokens
                 /\ Carries(b, Issue(now + s)) /\ minted' = Append(minted, now)
    /\ Turns(b, "minted")
    /\ UNCHANGED <<now, cookie, late, accepted, raced>>

\* handleVote: voterFrom, then the key of the voter id.
Vote(b) ==
    /\ page[b] = "vote"
    /\ \E s \in Skews :
        IF Verify(sent[b], now + s)
            THEN accepted' = accepted \cup {sent[b].nonce} /\ Turns(b, "closed")
            ELSE Turns(b, "refused") /\ UNCHANGED accepted
    /\ UNCHANGED <<now, cookie, sent, late, minted, raced>>

\* A vote that its page has given up arrives all the same.
VoteLate ==
    /\ \E tok \in late, s \in Skews :
        /\ late' = late \ {tok}
        /\ accepted' = accepted \cup (IF Verify(tok, now + s) THEN {tok.nonce} ELSE {})
    /\ UNCHANGED <<now, cookie, page, sent, minted, raced>>

-----------------------------------------------------------------------------
(* The browser.                                                            *)

\* The page is opened or reloaded: the script asks for a token first.
Open(b) ==
    /\ page[b] \in {"closed", "ready", "refused"}
    /\ Turns(b, "mint") /\ Carries(b, cookie)
    /\ raced' = (raced \/ \E c \in Pages \ {b} : page[c] \in {"mint", "minted"})
    /\ UNCHANGED <<now, cookie, late, minted, accepted>>

\* The reply of the mint: the browser keeps the cookie, the page shows the poll.
Show(b) ==
    /\ page[b] = "minted"
    /\ cookie' = IF sent[b] = NoToken THEN cookie ELSE sent[b]
    /\ Turns(b, "ready") /\ Carries(b, NoToken)
    /\ UNCHANGED <<now, late, minted, accepted, raced>>

\* The mint, or its reply, is lost: "Ошибка загрузки", until the page is reloaded.
MintLost(b) ==
    /\ page[b] \in {"mint", "minted"}
    /\ Turns(b, "closed") /\ Carries(b, NoToken)
    /\ UNCHANGED <<now, cookie, late, minted, accepted, raced>>

\* The viewer votes.  Once counted, or refused, the button is disabled.
Submit(b) ==
    /\ page[b] = "ready"
    /\ Turns(b, "vote") /\ Carries(b, cookie)
    /\ UNCHANGED <<now, cookie, late, minted, accepted, raced>>

\* No connection: the button is enabled, and the vote may arrive later or never.
GiveUp(b) ==
    /\ page[b] = "vote"
    /\ Turns(b, "ready") /\ Carries(b, NoToken)
    /\ late' \in {late, late \cup ({sent[b]} \ {NoToken})}
    /\ UNCHANGED <<now, cookie, minted, accepted, raced>>

ViewersTick ==
    /\ Passes(ViewersEnd)
    /\ UNCHANGED <<cookie, page, sent, late, minted, accepted, raced>>

ViewersNext ==
    \/ \E b \in Pages : Mint(b) \/ Vote(b) \/ Open(b) \/ Show(b) \/ MintLost(b)
                        \/ Submit(b) \/ GiveUp(b)
    \/ VoteLate \/ ViewersTick

ViewersSpec == (ViewersInit /\ now = 0) /\ [][ViewersNext]_<<now, viewersVars>>

-----------------------------------------------------------------------------
ViewersTypeOK ==
    /\ cookie \in Tokens \cup {NoToken}
    /\ page \in [Pages -> {"closed", "mint", "minted", "ready", "vote", "refused"}]
    /\ sent \in [Pages -> Tokens \cup {NoToken}] /\ late \subseteq Tokens
    /\ \A n \in DOMAIN minted : minted[n] \in 0..now
    /\ accepted \subseteq DOMAIN minted /\ raced \in BOOLEAN

\* A token's life for whichever instance looks at it: it ends earlier on a clock that is
\* ahead, and by the fraction of a second that Issue has dropped.
LifeLeft(n) == now + ClockSkew + Second <= minted[n] + TokenTTL + 1

\* token.go handleToken ("without this the dedup was bypassed by reloading the page"): a
\* browser that keeps its cookie has no second vote, however often its pages are reloaded,
\* mints or votes are lost, and whichever instances serve them, until its first token reaches
\* the end of its life, and unless two of its pages ask for a token at the same time.
OneVotePerBrowser ==
    ~raced /\ (\A n \in DOMAIN minted : LifeLeft(n)) => Cardinality(accepted) <= 1

\* hmac.go clockSkew ("the vote would be refused without any fault of the viewer"): a vote
\* that carries a token is refused by no instance before the end of the token's life.
HonestVoteCounts ==
    [][\A b \in Pages :
        page[b] = "vote" /\ sent[b] # NoToken /\ LifeLeft(sent[b].nonce)
            => page'[b] # "refused"]_viewersVars
=============================================================================
