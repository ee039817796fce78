----------------------------- MODULE PollModel -----------------------------
(***************************************************************************)
(* A poll from its description to a vote: its creation and its way through  *)
(* the tables (internal/poll/store.go, the CHECKs of migrations), the page  *)
(* that shows it (web/index.html), and the check of what the page sends     *)
(* (internal/poll/model.go).                                                *)
(*                                                                         *)
(* A text stands for what is left of it after TrimSpace and case folding;   *)
(* 0 is the zero time.                                                      *)
(***************************************************************************)
EXTENDS Integers, SequencesExt

CONSTANTS
    MaxOptions,     \* as in store.go
    Precision,      \* Go's units of time in one of timestamptz (1000)
    Blank, Texts,   \* the empty text; the others
    OptionIds,      \* uuids of options
    PollTimes,      \* bound: the times in a description
    NoPoll

ASSUME PollAssumption ==
    /\ MaxOptions \in Nat /\ MaxOptions >= 2
    /\ Precision \in Nat \ {0}
    /\ PollTimes \subseteq Nat /\ Blank \notin Texts

VARIABLES
    desc,       \* the CreateParams of the poll that was created
    ids,        \* the uuids that Create gave its options
    chosen      \* the page's variable chosen

pollVars == <<desc, ids, chosen>>

Null == -1      \* of a nullable column that holds positive numbers

SeqsUpTo(S, n) == UNION {[1..k -> S] : k \in 0..n}
Distinct(s) == \A i \in DOMAIN s : \A j \in 1..(i - 1) : s[j] # s[i]

\* CreateParams.
Descriptions ==
    [question : Texts \cup {Blank}, kind : {"single", "multiple", "other"},
     max : -1..(MaxOptions + 1), starts : PollTimes, ends : PollTimes,
     texts : SeqsUpTo(Texts \cup {Blank}, MaxOptions + 1)]

-----------------------------------------------------------------------------
(* Creation.                                                               *)

\* Mutant: the end may be the start.
ValidEmpty(d) ==
    /\ d.question # Blank
    /\ d.kind \in {"single", "multiple"}
    /\ Len(d.texts) \in 2..MaxOptions
    /\ Distinct(d.texts) /\ \A i \in DOMAIN d.texts : d.texts[i] # Blank
    /\ d.kind = "single" => d.max = 0
    /\ d.kind = "multiple" => d.max \in 0..Len(d.texts)
    /\ d.starts # 0 /\ d.ends # 0
    /\ d.ends >= d.starts

\* CreateParams.Validate finds nothing.
Valid(d) ==
    /\ d.question # Blank
    /\ d.kind \in {"single", "multiple"}
    /\ Len(d.texts) \in 2..MaxOptions
    /\ Distinct(d.texts) /\ \A i \in DOMAIN d.texts : d.texts[i] # Blank
    /\ d.kind = "single" => d.max = 0
    /\ d.kind = "multiple" => d.max \in 0..Len(d.texts)
    /\ d.starts # 0 /\ d.ends # 0
    /\ d.ends > d.starts

\* timestamptz drops what is finer than its precision.
Kept(t) == t - (t % Precision)

\* The row that Create inserts, and what the schema accepts.
PollRow(d) ==
    [kind |-> d.kind, max |-> IF d.kind = "multiple" /\ d.max > 0 THEN d.max ELSE Null,
     starts |-> Kept(d.starts), ends |-> Kept(d.ends)]
Checks(r) ==
    /\ r.kind \in {"single", "multiple"}
    /\ r.max = Null \/ r.max > 0
    /\ r.ends > r.starts
    /\ r.kind = "multiple" \/ r.max = Null

OptionRows(s) == {[id |-> s[i], position |-> i - 1] : i \in DOMAIN s}

\* What Create returns.
Created(d, s) ==
    [kind |-> d.kind, max |-> d.max, starts |-> d.starts, ends |-> d.ends, options |-> s]

\* Mutant: the options are read in the order of their ids.
InOrderOfId(rows) ==
    CHOOSE q \in [1..Cardinality(rows) -> {r.id : r \in rows}] :
        \A i, j \in DOMAIN q : i < j => q[i] < q[j]

\* The options are read in the order of their positions.
InOrder(rows) ==
    [i \in 1..Cardinality(rows) |-> (CHOOSE r \in rows : r.position = i - 1).id]

\* What Get and scanPolls return.
Loaded(row, rows) ==
    [kind |-> row.kind, max |-> IF row.max = Null THEN 0 ELSE row.max,
     starts |-> row.starts, ends |-> row.ends, options |-> InOrder(rows)]

-----------------------------------------------------------------------------
(* Voting.                                                                 *)

ChoiceLimit(p) ==
    IF p.kind = "single" THEN 1
    ELSE IF p.max > 0 /\ p.max < Len(p.options) THEN p.max ELSE Len(p.options)

\* The position of an option, 0 if it is not one of the poll.
IndexOf(p, o) ==
    IF \E i \in DOMAIN p.options : p.options[i] = o
        THEN CHOOSE i \in DOMAIN p.options : p.options[i] = o
        ELSE 0

\* Mutant: the limit itself is too many.
ValidateBelowLimit(p, s) ==
    /\ s # <<>>
    /\ Len(s) < ChoiceLimit(p)
    /\ Distinct(s) /\ \A i \in DOMAIN s : IndexOf(p, s[i]) # 0

\* Mutant: an option may be chosen twice.
ValidateTwice(p, s) ==
    /\ s # <<>>
    /\ Len(s) <= ChoiceLimit(p)
    /\ \A i \in DOMAIN s : IndexOf(p, s[i]) # 0

ValidateChoice(p, s) ==
    /\ s # <<>>
    /\ Len(s) <= ChoiceLimit(p)
    /\ Distinct(s) /\ \A i \in DOMAIN s : IndexOf(p, s[i]) # 0

\* The counters that handleVote has increased.
Touched(p, s) == {IndexOf(p, s[i]) : i \in DOMAIN s}

-----------------------------------------------------------------------------
PollInit == desc = NoPoll /\ ids = <<>> /\ chosen = <<>>

\* An operator creates a poll; what Validate refuses leaves nothing behind.
CreatePoll ==
    /\ desc = NoPoll
    /\ \E d \in {x \in Descriptions : Valid(x)} :
        /\ desc' = d
        /\ \E s \in [DOMAIN d.texts -> OptionIds] : Distinct(s) /\ ids' = s
    /\ UNCHANGED chosen

\* The poll in the cache of any process.
Poll == Loaded(PollRow(desc), OptionRows(ids))

\* The limit of the page is the max_choices of handleGetPoll's answer.
PageLimit == ChoiceLimit(Poll)

\* A viewer clicks on an option of the page.
Click(o) ==
    /\ desc # NoPoll
    /\ \E i \in DOMAIN ids : ids[i] = o
    /\ chosen' =
        IF \E i \in DOMAIN chosen : chosen[i] = o
            THEN RemoveFirst(chosen, o)
        ELSE IF Poll.kind # "multiple" THEN <<o>>
        ELSE IF Len(chosen) >= PageLimit THEN chosen ELSE Append(chosen, o)
    /\ UNCHANGED <<desc, ids>>

PollNext == CreatePoll \/ \E o \in OptionIds : Click(o)

PollSpec == PollInit /\ [][PollNext]_pollVars

-----------------------------------------------------------------------------
PollTypeOK ==
    /\ desc \in Descriptions \cup {NoPoll}
    /\ ids \in SeqsUpTo(OptionIds, MaxOptions) /\ chosen \in SeqsUpTo(OptionIds, MaxOptions)

WholeTimes == Kept(desc.starts) = desc.starts /\ Kept(desc.ends) = desc.ends

\* store.go Validate, admin.go writeStoreError: a description that passes Validate is not
\* refused by a CHECK of the schema, which would be a 500 for a mistake in the request.  It
\* takes times that the table can hold: Validate lets pass a poll shorter than a microsecond.
ValidIsStorable == desc # NoPoll /\ WholeTimes => Checks(PollRow(desc))

\* store.go Create, Get, scanPolls: every process that loads a poll, however often, gets the
\* poll that was created, with the options at the same positions.  Counters are registered by
\* one copy of a poll and indexed by all of them.
LoadsAgree == desc # NoPoll /\ WholeTimes => Poll = Created(desc, ids)

\* counter.go Add, snapshotter.go Sum: an accepted vote, whoever wrote the request, adds one to
\* as many counters of its poll as it names options, which for a single poll is one.
VoteAddsUp ==
    desc # NoPoll =>
        \A req \in SeqsUpTo(OptionIds, MaxOptions) :
            ValidateChoice(Poll, req) =>
                /\ Touched(Poll, req) \subseteq DOMAIN ids
                /\ Cardinality(Touched(Poll, req)) = Len(req)
                /\ Len(req) >= 1 /\ (Poll.kind = "single" => Len(req) = 1)

\* index.html: whatever a viewer has clicked together, in any order, the server accepts.
PageIsAccepted == chosen # <<>> => ValidateChoice(Poll, chosen)
=============================================================================
