--------------------------- MODULE DocumentSeals ---------------------------
(***************************************************************************)
(* The seal of an approved document (document-seal.service.ts): a chain of *)
(* hashes over its content and its steps, kept in the rows, and recomputed *)
(* to verify.  SHA-256 is taken to be injective: a hash is of one text.    *)
(* That text is the columns joined with '|', which is not escaped, and a   *)
(* comment that is null is joined as an empty one.  The other columns have *)
(* a form without '|', so that the text tells them apart.                  *)
(* The steps come from the database without ORDER BY and are sorted by     *)
(* their number; steps of one number stay in the order they came in.       *)
(***************************************************************************)
EXTENDS Naturals, Sequences, FiniteSets, SequencesExt

CONSTANTS
  StepRows, \* approval_steps.id, with the approver
  LastStep, \* bound on the step numbers
  Letters,  \* what titles and contents are written with
  Bar,      \* '|', one of them
  MaxText,  \* bound on the length of a title and a content
  Authors,  \* author_id and submitted_at
  Answers,  \* what a step may say: status, acted_at and comment
  Empty,    \* an answer with an empty comment
  Mute      \* the same with the comment null

SealAssumption ==
  /\ LastStep \in Nat \ {0} /\ IsFiniteSet(StepRows)
  /\ MaxText \in Nat /\ Bar \in Letters
  /\ {Empty, Mute} \subseteq Answers /\ Empty # Mute

VARIABLES
  content, \* the hashed columns of approval_documents
  steps,   \* rows of approval_steps: number and answer
  seal,    \* content_hash, seal_hash and the step_hash of every row, or none
  asSealed \* content and steps when they were sealed (history)

vars == <<content, steps, seal, asSealed>>

Texts == UNION {[1 .. n -> Letters] : n \in 0 .. MaxText}
Contents == [title : Texts, text : Texts, author : Authors]
Present == DOMAIN steps
NoSeal == [content |-> <<>>, seal |-> <<>>, step |-> <<>>]
Sealed == seal # NoSeal

\* The orders in which the sorted rows may stand.
Sorted == {rows \in SetToSeqs(Present) :
             \A i, j \in 1 .. Len(rows) : i < j => steps[rows[i]].number <= steps[rows[j]].number}

\* Mutant: the columns are strung together.
JoinedBare(doc) == [text |-> doc.title \o doc.text, author |-> doc.author]
\* The texts that are hashed.
Joined(doc) == [text |-> doc.title \o <<Bar>> \o doc.text, author |-> doc.author]
Spoken(answer) == IF answer = Mute THEN Empty ELSE answer

ContentHash == <<"content", Joined(content)>>
StepHash(r, prev) == <<"step", r, steps[r].number, Spoken(steps[r].answer), prev>>
SealHash(contentHash, last) == <<"seal", contentHash, last>>

\* The hashes along the rows, each over the one before, the first over the content.
Chain(rows, first) ==
  LET hash[i \in 0 .. Len(rows)] == IF i = 0 THEN first ELSE StepHash(rows[i], hash[i - 1])
  IN [i \in 0 .. Len(rows) |-> hash[i]]

Init ==
  /\ content \in Contents
  /\ \E rows \in (SUBSET StepRows) \ {{}} : steps \in [rows -> [number : 1 .. LastStep, answer : Answers]]
  /\ seal = NoSeal
  /\ asSealed = <<>>

\* Mutant: every step is hashed over the content, not over the step before.
SealLoose ==
  /\ ~Sealed
  /\ \E rows \in Sorted :
       seal' = [content |-> ContentHash,
                seal |-> SealHash(ContentHash, StepHash(rows[Len(rows)], ContentHash)),
                step |-> [r \in Present |-> StepHash(r, ContentHash)]]
  /\ asSealed' = <<content, steps>>
  /\ UNCHANGED <<content, steps>>
\* seal, at the final approval.
Seal ==
  /\ ~Sealed
  /\ \E rows \in Sorted :
       LET chain == Chain(rows, ContentHash) IN
       seal' = [content |-> ContentHash,
                seal |-> SealHash(ContentHash, chain[Len(rows)]),
                step |-> [r \in Present |-> chain[CHOOSE i \in 1 .. Len(rows) : rows[i] = r]]]
  /\ asSealed' = <<content, steps>>
  /\ UNCHANGED <<content, steps>>

\* The rows are changed behind the service: what the seal is there to show.
\* The hashes are left as they are.
Alter ==
  /\ Sealed
  /\ \/ content' \in Contents /\ UNCHANGED steps
     \/ \E r \in Present, answer \in Answers :
          steps' = [steps EXCEPT ![r].answer = answer] /\ UNCHANGED content
     \/ \E r \in Present :
          steps' = [s \in Present \ {r} |-> steps[s]] /\ UNCHANGED content
  /\ UNCHANGED <<seal, asSealed>>

Next == Seal \/ Alter

Spec == Init /\ [][Next]_vars

\* verify, with the rows in some order.
\* Mutant: only the seal over the stored hashes is recomputed.
ValidOuter(rows) ==
  seal.seal = SealHash(seal.content, IF rows = <<>> THEN seal.content ELSE seal.step[Last(rows)])
Valid(rows) ==
  LET expected(i) == StepHash(rows[i], IF i = 1 THEN seal.content ELSE seal.step[rows[i - 1]]) IN
  /\ Sealed
  /\ ContentHash = seal.content
  /\ \A i \in 1 .. Len(rows) : seal.step[rows[i]] = expected(i)
  /\ seal.seal = SealHash(seal.content,
                          IF rows = <<>> THEN seal.content ELSE seal.step[Last(rows)])

Distinct == \A r, s \in Present : steps[r].number = steps[s].number => r = s

\* What the hashes see of a document and its steps, and where they see all.
Seen(doc, rows) ==
  <<Joined(doc), [r \in DOMAIN rows |-> [number |-> rows[r].number, answer |-> Spoken(rows[r].answer)]]>>
Clear(doc, rows) ==
  /\ \A i \in 1 .. Len(doc.title) : doc.title[i] # Bar
  /\ \A r \in DOMAIN rows : rows[r].answer # Mute

-----------------------------------------------------------------------------
\* A seal shows every change of one or more columns or rows from a document to another
\* that have no '|' in the title and no comment that is null, in whatever order the
\* database returns the steps.  In general it shows those changes that move more than
\* the '|' between title and content, or than a comment from null to empty or back.
\* And it shows nothing else if no two steps have one number, while with two of a
\* number there is an order in which it verifies.
SealTells == Sealed =>
  /\ <<content, steps>> # asSealed /\ Clear(content, steps) /\ Clear(asSealed[1], asSealed[2])
       => \A rows \in Sorted : ~Valid(rows)
  /\ Seen(content, steps) # Seen(asSealed[1], asSealed[2]) => \A rows \in Sorted : ~Valid(rows)
  /\ Seen(content, steps) = Seen(asSealed[1], asSealed[2]) =>
       /\ \E rows \in Sorted : Valid(rows)
       /\ Distinct => \A rows \in Sorted : Valid(rows)
=============================================================================
