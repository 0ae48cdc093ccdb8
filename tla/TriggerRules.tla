------------------------------- MODULE TriggerRules -------------------------------
(***************************************************************************)
(* Which event of a chat starts a turn by itself: the trigger rules of the *)
(* policy (evaluate_trigger), with exact and fuzzy names, and the hours of *)
(* its schedule (schedule_allows).                                         *)
(*                                                                         *)
(* A text is a sequence of graphemes after normalisation: letters, and a   *)
(* separator that stands for a space or a punctuation mark.  The           *)
(* algorithms are translated step by step; the definitions they are        *)
(* compared with say what a match is without saying how it is found.       *)
(***************************************************************************)
EXTENDS Integers, SequencesExt

CONSTANTS Letters, Ideographs, Separator,
          Policies,        \* the policies the owner may try to save
          MaxText,         \* graphemes of a message
          DayMinutes       \* minutes of a day

ASSUME TriggerAssumption ==
  /\ Ideographs \subseteq Letters /\ Separator \notin Letters
  /\ MaxText \in Nat /\ DayMinutes \in Nat \ {0}

(* Names and words of a rule are texts themselves.                         *)
Texts == Seq(Letters \cup {Separator})
ASSUME PolicyAssumption ==
  \A p \in Policies :
    p.rules \in Seq([kind : {"reaction_invocation", "every_message", "reply_to_assistant",
                            "literal_prefix", "direct_address"},
                     aliases : SUBSET Texts, words : SUBSET Texts, literal : Texts,
                     bare : BOOLEAN, fuzzy : BOOLEAN, minimum : Nat])

VARIABLES chatPolicy,    \* the policy of the chat
          participant,   \* who wrote or reacted
          kind,          \* "message", "edit" or "reaction"
          reply,         \* the message replies to the assistant
          text

triggerVars == <<chatPolicy, participant, kind, reply, text>>

(* validate_policy: what the owner can save.  Only a distance of one or none*)
(* is accepted, and "fuzzy" tells which.                                   *)
HasText(word) == \E i \in DOMAIN word : word[i] \in Letters
ValidRule(rule) ==
  /\ rule.kind = "literal_prefix" => HasText(rule.literal)
  /\ rule.kind = "direct_address" =>
       /\ rule.aliases # {} /\ \A w \in rule.aliases \cup rule.words : HasText(w)
       /\ rule.minimum >= 1
ValidSchedule(s) ==
  /\ s.days \subseteq 0..6 /\ {s.start, s.end} \subseteq 0..DayMinutes - 1
  /\ s.enabled => s.days # {} /\ s.start # s.end
Valid(p) ==
  /\ p.participants \subseteq {"owner", "peer"} /\ ValidSchedule(p.schedule)
  /\ \A i \in DOMAIN p.rules : ValidRule(p.rules[i])

TriggerInit ==
  /\ chatPolicy \in {p \in Policies : Valid(p)} /\ participant \in {"owner", "peer"}
  /\ kind \in {"message", "reaction"} /\ reply \in BOOLEAN
  /\ text = <<>>

(* A message comes in; it is edited, and every version is evaluated anew.  *)
Receive(l) ==
  /\ kind = "message" /\ Len(text) < MaxText
  /\ text' = Append(text, l)
  /\ UNCHANGED <<chatPolicy, participant, kind, reply>>
Edit ==
  /\ kind = "message" /\ text # <<>>
  /\ kind' = "edit" /\ text' = Tail(text)
  /\ UNCHANGED <<chatPolicy, participant, reply>>
TriggerNext == Edit \/ \E l \in Letters \cup {Separator} : Receive(l)
TriggerSpec == TriggerInit /\ [][TriggerNext]_triggerVars

-----------------------------------------------------------------------------
(* _has_boundary, _skip_separators                                         *)
Cjk(word) == \E i \in DOMAIN word : word[i] \in Ideographs
HasBoundary(t, end, word) == end >= Len(t) \/ Cjk(word) \/ t[end + 1] \notin Letters
Skip(t, start) ==
  CHOOSE i \in start..Len(t) :
    /\ \A j \in start + 1..i : t[j] = Separator
    /\ i < Len(t) => t[i + 1] # Separator
StartsWith(t, start, word) == IsPrefix(word, SubSeq(t, start + 1, Len(t)))

(* _bounded_damerau_levenshtein, row by row: row i holds the distances of  *)
(* the first i graphemes on the left from each beginning of the right.  It *)
(* gives up on a row that is above the maximum everywhere.                 *)
TooFar == -1
MinOf(S) == CHOOSE x \in S : \A y \in S : x <= y
SwapsAnyLetters(left, right, i, j) == i > 1 /\ j > 1 /\ left[i] = right[j - 1]
Swaps(left, right, i, j) ==
  i > 1 /\ j > 1 /\ left[i] = right[j - 1] /\ left[i - 1] = right[j]
Cell(left, right, i, j, before, above, twice) ==
  MinOf({before + 1, above[j] + 1, above[j - 1] + (IF left[i] = right[j] THEN 0 ELSE 1)}
        \cup (IF Swaps(left, right, i, j) THEN {twice[j - 2] + 1} ELSE {}))
Row(left, right, i, above, twice) ==
  LET row[j \in 0..Len(right)] ==
        IF j = 0 THEN i ELSE Cell(left, right, i, j, row[j - 1], above, twice)
  IN  row
Rows(left, right) ==
  LET rows[i \in 0..Len(left)] ==
        IF i = 0 THEN [j \in 0..Len(right) |-> j]
        ELSE Row(left, right, i, rows[i - 1], IF i > 1 THEN rows[i - 2] ELSE rows[0])
  IN  rows
Distance(left, right, maximum) ==
  LET rows == Rows(left, right)
      d == rows[Len(left)][Len(right)]
  IN  IF \/ Len(left) - Len(right) \notin -maximum..maximum
         \/ \E i \in 1..Len(left) : \A j \in 0..Len(right) : rows[i][j] > maximum
         \/ d > maximum
      THEN TooFar ELSE d

(* _fuzzy_candidates: the beginnings of the rest of about the length of    *)
(* the alias that end at a boundary.                                       *)
Candidates(t, start, alias) ==
  LET from == Skip(t, start)
      upTo(n) == SubSeq(t, from + 1, from + n)
      low == IF Len(alias) > 1 THEN Len(alias) - 1 ELSE 1
  IN  {upTo(n) : n \in {k \in low..Len(alias) + 1 :
                          from + k <= Len(t) /\ HasBoundary(t, from + k, alias)}}

(* _match_direct_address                                                   *)
Starts(t, rule) ==
  (IF rule.bare THEN {0} ELSE {})
  \cup {Skip(t, Len(w)) : w \in {v \in rule.words : StartsWith(t, 0, v) /\ HasBoundary(t, Len(v), v)}}
Exact(t, rule) ==
  \E s \in Starts(t, rule), a \in rule.aliases :
    StartsWith(t, s, a) /\ HasBoundary(t, s + Len(a), a)
Scored(t, rule) ==
  UNION {{<<Distance(c, a, 1), a>> : c \in UNION {Candidates(t, s, a) : s \in Starts(t, rule)}} :
           a \in {b \in rule.aliases : Len(b) >= rule.minimum}}
Better(x, y) == x[1] < y[1] \/ (x[1] = y[1] /\ Len(x[2]) >= Len(y[2]))
BestOfEqualLength(t, rule) ==
  LET found == {x \in Scored(t, rule) : x[1] # TooFar}
  IN  {x[2] : x \in {y \in found : \A z \in found : y[1] <= z[1]}}
Best(t, rule) ==
  LET found == {x \in Scored(t, rule) : x[1] # TooFar}
  IN  {x[2] : x \in {y \in found : \A z \in found : Better(y, z)}}
DirectAddress(t, rule) ==
  IF Exact(t, rule) THEN "matched"
  ELSE IF ~rule.fuzzy \/ Best(t, rule) = {} THEN "not_addressed"
  ELSE IF Cardinality(Best(t, rule)) = 1 THEN "matched" ELSE "ambiguous"

(* evaluate_trigger: the first rule that matches decides, for those whose  *)
(* messages may trigger.  A reaction stands for one with an emoji of the   *)
(* rule.                                                                   *)
Applies(rule) ==
  \/ rule.kind = "reaction_invocation" /\ kind = "reaction"
  \/ /\ kind # "reaction"
     /\ \/ rule.kind = "every_message"
        \/ rule.kind = "reply_to_assistant" /\ reply
        \/ /\ rule.kind = "literal_prefix" /\ StartsWith(text, 0, rule.literal)
           /\ HasBoundary(text, Len(rule.literal), rule.literal)
        \/ rule.kind = "direct_address" /\ DirectAddress(text, rule) = "matched"
Deciding == {i \in DOMAIN chatPolicy.rules : Applies(chatPolicy.rules[i])}
TriggerDecision ==  \* the rule that triggers, or 0
  IF Deciding = {} \/ participant \notin chatPolicy.participants THEN 0 ELSE MinOf(Deciding)

(* schedule_allows, at a minute of a day of the week.                      *)
AllowsFromToday(s, day, minute) ==
  \/ ~s.enabled
  \/ s.start < s.end /\ day \in s.days /\ s.start <= minute /\ minute < s.end
  \/ s.start >= s.end /\ day \in s.days /\ (minute >= s.start \/ minute < s.end)
Allows(s, day, minute) ==
  \/ ~s.enabled
  \/ s.start < s.end /\ day \in s.days /\ s.start <= minute /\ minute < s.end
  \/ s.start >= s.end /\ minute >= s.start /\ day \in s.days
  \/ s.start >= s.end /\ minute < s.start /\ (day - 1) % 7 \in s.days /\ minute < s.end

-----------------------------------------------------------------------------
(* What the code promises, without its algorithms.                         *)
Without(word, i) == SubSeq(word, 1, i - 1) \o SubSeq(word, i + 1, Len(word))
Differ(u, v) == {i \in DOMAIN u : u[i] # v[i]}
OneTypo(u, v) ==
  \/ \E i \in DOMAIN u : Without(u, i) = v
  \/ \E i \in DOMAIN v : Without(v, i) = u
  \/ /\ Len(u) = Len(v)
     /\ \/ Cardinality(Differ(u, v)) = 1
        \/ \E i \in DOMAIN u :
             Differ(u, v) = {i, i + 1} /\ u[i] = v[i + 1] /\ u[i + 1] = v[i]

(* The words that begin after the separators at a start.                   *)
Beginnings(t, start, alias) ==
  {SubSeq(t, Skip(t, start) + 1, n) : n \in {k \in Skip(t, start) + 1..Len(t) : HasBoundary(t, k, alias)}}
Meant(t, rule, same(_, _)) ==
  {a \in rule.aliases : Len(a) >= rule.minimum
     /\ \E s \in Starts(t, rule) : \E w \in Beginnings(t, s, a) : same(w, a)}
Longest(S) == {a \in S : \A b \in S : Len(a) >= Len(b)}
Addressed(t, rule) ==
  LET same(u, v) == u = v
      exactly == Longest(Meant(t, rule, same))
      nearly == Longest(Meant(t, rule, OneTypo))
  IN  Exact(t, rule) \/ (rule.fuzzy /\ Cardinality(IF exactly # {} THEN exactly ELSE nearly) = 1)

(* A message addresses the assistant by name exactly when it begins with a *)
(* name, or, for names that are long enough, with a word one typo away     *)
(* from one name and from no other that fits as well: the bounded edit     *)
(* distance with its early end and the lengths it looks at miss no such    *)
(* word and accept no other.                                               *)
NamesAreRecognised ==
  kind # "reaction" =>
    \A i \in DOMAIN chatPolicy.rules :
      chatPolicy.rules[i].kind = "direct_address" =>
        (TriggerDecision = i <=> /\ participant \in chatPolicy.participants
                          /\ Addressed(text, chatPolicy.rules[i])
                          /\ \A j \in 1..i - 1 : ~Applies(chatPolicy.rules[j]))

(* The hours of a schedule are those of its days, each from its start to   *)
(* the next end, which may fall on the day after, also from the last day   *)
(* of the week into the first.                                             *)
Hours(s) ==
  LET lasts == IF s.start < s.end THEN s.end - s.start ELSE s.end + DayMinutes - s.start
  IN  {(day * DayMinutes + s.start + k) % (7 * DayMinutes) : day \in s.days, k \in 0..lasts - 1}
ScheduleIsWeekly ==
  LET s == chatPolicy.schedule
  IN  s.enabled => \A day \in 0..6, minute \in 0..DayMinutes - 1 :
                     Allows(s, day, minute) <=> day * DayMinutes + minute \in Hours(s)
=============================================================================
