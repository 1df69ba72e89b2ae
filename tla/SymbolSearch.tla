---------------------------- MODULE SymbolSearch ----------------------------
(***************************************************************************)
(* Workspace-symbol search (ls-store search.rs).  A text is a sequence of  *)
(* characters [low, cls]: low is the character in lower case, as a number  *)
(* in the order strings compare, and cls tells lower and upper case,       *)
(* digits and separators apart.                                            *)
(***************************************************************************)
EXTENDS Integers, Sequences, FiniteSets, SequencesExt, FiniteSetsExt

CONSTANT FuzzyCandidateCap   \* FUZZY_CANDIDATE_CAP

Alnum(c) == c.cls # "sep"
Low(s) == [i \in DOMAIN s |-> s[i].low]

normalize(s) == Low(SelectSeq(s, Alnum))

\* A hump: the first of a run, upper case after another case, a digit after another
StartsHump(s, i) ==
    \/ i = 1 \/ s[i - 1].cls = "sep"
    \/ s[i].cls \in {"upper", "digit"} /\ s[i - 1].cls # s[i].cls

\* The kept characters with the flag the code keeps beside them
normalized_with_humps(s) ==
    LET kept == SelectSeq([i \in DOMAIN s |-> i], LAMBDA i : Alnum(s[i]))
    IN  [k \in DOMAIN kept |-> [low |-> s[kept[k]].low, hump |-> StartsHump(s, kept[k])]]

initials(s) == Low(SelectSeq(normalized_with_humps(s), LAMBDA c : c.hump))

\* The maximal runs of letters and digits
field_tokens(s) ==
    LET starts == SelectSeq([i \in DOMAIN s |-> i],
                      LAMBDA i : Alnum(s[i]) /\ (i = 1 \/ ~Alnum(s[i - 1])))
        end(i) == Max({j \in i .. Len(s) : \A k \in i .. j : Alnum(s[k])})
    IN  [n \in DOMAIN starts |-> Low(SubSeq(s, starts[n], end(starts[n])))]

NoMatch == -1

\* Mutant: each query character takes the first place that matches it
max_hump_hits_greedy(query, name) ==
    LET step(acc, c) ==
            LET at == {j \in acc.next .. Len(name) : name[j].low = c}
            IN  IF at = {} THEN [acc EXCEPT !.ok = FALSE]
                ELSE [next |-> Min(at) + 1, ok |-> acc.ok,
                      hits |-> acc.hits + IF name[Min(at)].hump THEN 1 ELSE 0]
        end == FoldLeft(step, [next |-> 1, ok |-> TRUE, hits |-> 0], query)
    IN  IF end.ok THEN end.hits ELSE NoMatch

\* The table over (query index, name index), from the last query character back
max_hump_hits(query, name) ==
    LET n == Len(name)
        row(next, c) ==
            LET cell[j \in 1 .. n + 1] ==
                    IF j = n + 1 THEN NoMatch
                    ELSE LET take == IF name[j].low = c /\ next[j + 1] # NoMatch
                                     THEN next[j + 1] + (IF name[j].hump THEN 1 ELSE 0)
                                     ELSE NoMatch
                         IN  Max({cell[j + 1], take})
            IN  cell
    IN  FoldLeft(row, [j \in 1 .. n + 1 |-> 0], Reverse(query))[1]

ExactBase == 1000000
PrefixBase == 100000
SubseqBase == 1000
HumpBonus == 1000
NoScore == -1000000     \* None: below every score, so it sorts last

score(query, display) ==
    LET nq == normalize(query)
        nn == normalized_with_humps(display)
        hits == max_hump_hits(nq, nn)
    IN  CASE nq = <<>> \/ nn = <<>> -> NoScore
          [] nq # <<>> /\ Low(nn) = nq -> ExactBase - Len(nn)
          [] nq # <<>> /\ Low(nn) # nq /\ IsPrefix(nq, Low(nn)) -> PrefixBase - Len(nn)
          [] nn # <<>> /\ ~IsPrefix(nq, Low(nn)) ->
               IF hits = NoMatch THEN NoScore ELSE SubseqBase + hits * HumpBonus - Len(nn)

LexLess(s, t) ==
    \/ s # t /\ IsPrefix(s, t)
    \/ \E i \in DOMAIN s \cap DOMAIN t :
         s[i] < t[i] /\ \A j \in 1 .. i - 1 : s[j] = t[j]

EntryBefore(a, b) == LexLess(a.key, b.key) \/ (a.key = b.key /\ a.row < b.row)

\* The rows whose key starts with the prefix, until out holds cap of them
fill_prefix(sorted, prefix, out, cap) ==
    LET hits == SelectSeq(sorted, LAMBDA e : IsPrefix(prefix, e.key) /\ e.row \notin out)
        room == Max({0, Min({Len(hits), cap - Cardinality(out)})})
    IN  out \cup {hits[i].row : i \in 1 .. room}

\* The keys of the rows, sorted; a row without a key is left out
KeyedRows(keys) ==
    SortSeq(SelectSeq([r \in DOMAIN keys |-> [key |-> keys[r], row |-> r]],
                      LAMBDA e : e.key # <<>>), EntryBefore)

\* A row is [display, owner, package, sym]
RowTokens(row) ==
    ToSet(field_tokens(row.display) \o field_tokens(row.owner) \o field_tokens(row.package))

\* Every query token starts some token of the row
PrefixAnd(rows, qtokens) ==
    {r \in DOMAIN rows :
        \A q \in ToSet(qtokens) : \E t \in RowTokens(rows[r]) : IsPrefix(q, t)}

\* One token only: rows whose name or initials start with its first character
Fuzzy(rows, qtokens) ==
    LET first == <<Head(Head(qtokens))>>
        names == [r \in DOMAIN rows |-> normalize(rows[r].display)]
        short == [r \in DOMAIN rows |-> initials(rows[r].display)]
        by_name == fill_prefix(KeyedRows(names), first, {}, FuzzyCandidateCap)
    IN  fill_prefix(KeyedRows(short), first, by_name, FuzzyCandidateCap)

Candidates(rows, query) ==
    LET qtokens == field_tokens(query)
    IN  PrefixAnd(rows, qtokens)
        \cup (IF Len(qtokens) # 1 THEN {}
              ELSE {r \in Fuzzy(rows, qtokens) : score(query, rows[r].display) # NoScore})

workspace_symbol_search(rows, query, limit) ==
    LET points(r) == score(query, rows[r].display)
        before(r, s) == points(r) > points(s)
                        \/ (points(r) = points(s) /\ rows[r].sym < rows[s].sym)
        ranked == SetToSortSeq(Candidates(rows, query), before)
    IN  IF field_tokens(query) = <<>> \/ limit = 0 THEN <<>>
        ELSE SubSeq(ranked, 1, Min({limit, Len(ranked)}))

workspace_symbol_name_exists(rows, display) ==
    display # <<>> /\ \E r \in DOMAIN rows : rows[r].display = display
=============================================================================
