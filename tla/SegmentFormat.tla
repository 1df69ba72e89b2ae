---------------------------- MODULE SegmentFormat ----------------------------
(***************************************************************************)
(* The contents of one segment (ls-store): how the writer lays the postings *)
(* out in blocks with skip metadata, what the reader checks before it       *)
(* serves a segment, and the scans that use the metadata.                   *)
(*                                                                          *)
(* A file is the sequence of its entries, so sizes and byte offsets are     *)
(* left out.  Ordinals start at 1 and 0 stands for the -1 of the code.      *)
(***************************************************************************)
EXTENDS Integers, Sequences, FiniteSets, SequencesExt, FiniteSetsExt

CONSTANTS
    BlockSize,   \* records of a block, format::BLOCK_SIZE
    CharMask,    \* the largest character a packed position holds
    LineMax      \* the largest line it holds

-----------------------------------------------------------------------------
(* Positions (text.rs): a packed position saturates in both components     *)

pack(line, char) == Min({line, LineMax}) * (CharMask + 1) + Min({char, CharMask})
unpack_line(packed) == packed \div (CharMask + 1)
unpack_char(packed) == packed % (CharMask + 1)
PackedStart(span) == pack(span.sl, span.sc)
PackedEnd(span) == pack(span.el, span.ec)

span_ok(span) ==
    /\ span.sc <= CharMask /\ span.ec <= CharMask
    /\ span.sl <= LineMax /\ span.el <= LineMax
    /\ PackedStart(span) <= PackedEnd(span)

-----------------------------------------------------------------------------
(* writer.rs                                                               *)

ord_in(v, n) == v \in 1 .. n
ord_opt(v, n) == v = 0 \/ ord_in(v, n)

validate(data) ==
    LET docs == Len(data.docs)
        targets == data.targets
        syms == Len(data.symbols)
        occ_ok(o) == ord_in(o.doc, docs) /\ ord_in(o.target, targets) /\ span_ok(o.span)
        all_ok(groups) == \A g \in DOMAIN groups : \A i \in DOMAIN groups[g] : occ_ok(groups[g][i])
    IN  /\ Len(data.defs) = Len(data.refs)
        /\ Len(data.doc_occs) = docs
        /\ \A d \in 1 .. docs : ord_in(data.docs[d].target, targets)
        /\ all_ok(data.refs) /\ all_ok(data.defs) /\ all_ok(data.renames)
        /\ \A d \in 1 .. docs : \A i \in DOMAIN data.doc_occs[d] :
             LET o == data.doc_occs[d][i] IN ord_in(o.sym, syms) /\ span_ok(o.span)
        /\ \A s \in 1 .. syms :
             LET y == data.symbols[s]
             IN  /\ ord_opt(y.ref_group, Len(data.refs))
                 /\ ord_opt(y.rename_group, Len(data.renames))
                 /\ ord_opt(y.def_target, targets)
        /\ \A i \in DOMAIN data.search : ord_in(data.search[i].sym, syms)

\* The caller's symbols in dictionary order; two with one name are refused
Distinct(data) == \A s, t \in DOMAIN data.symbols :
                     data.symbols[s].name = data.symbols[t].name => s = t
sort_symbol_indices(data) ==
    SortSeq([s \in DOMAIN data.symbols |-> s],
            LAMBDA s, t : data.symbols[s].name < data.symbols[t].name)
caller_to_sorted(data) ==
    [s \in DOMAIN data.symbols |->
        CHOOSE p \in DOMAIN data.symbols : sort_symbol_indices(data)[p] = s]

Record(o) == [doc |-> o.doc, epoch |-> o.epoch, target |-> o.target,
              start |-> PackedStart(o.span), end |-> PackedEnd(o.span), flags |-> o.flags]
RecordBefore(a, b) ==
    \/ a.doc < b.doc
    \/ a.doc = b.doc /\ a.start < b.start
    \/ a.doc = b.doc /\ a.start = b.start /\ a.end < b.end

\* The places of a run of n entries after offset, cut into blocks
Chunks(offset, n) ==
    [k \in 1 .. (n + BlockSize - 1) \div BlockSize |->
        [first |-> offset + (k - 1) * BlockSize + 1,
         count |-> Min({BlockSize, n - (k - 1) * BlockSize})]]

Within(block) == block.first .. block.first + block.count - 1

\* The skip metadata of one block of records
Aggregates(records, block) ==
    LET of == {records[r] : r \in Within(block)}
        with(flag) == Cardinality({r \in Within(block) : flag \in records[r].flags})
    IN  [first |-> block.first, count |-> block.count,
         editable |-> with("editable"), defs |-> with("def"),
         docs |-> <<Min({r.doc : r \in of}), Max({r.doc : r \in of})>>,
         epochs |-> <<Min({r.epoch : r \in of}), Max({r.epoch : r \in of})>>,
         targets |-> {r.target : r \in of}]

\* One postings file and its group index; the blocks of all files share one list
layout_groups(groups, shared) ==
    FoldLeft(LAMBDA acc, group :
        LET records == acc.records \o SortSeq([i \in DOMAIN group |-> Record(group[i])],
                                              RecordBefore)
            blocks == Chunks(Len(acc.records), Len(group))
        IN  [records |-> records,
             entries |-> Append(acc.entries,
                 [offset |-> Len(acc.records), count |-> Len(group),
                  block |-> IF group = <<>> THEN 0 ELSE Len(acc.blocks) + 1]),
             blocks |-> acc.blocks \o [k \in DOMAIN blocks |-> Aggregates(records, blocks[k])]],
        [records |-> <<>>, entries |-> <<>>, blocks |-> shared], groups)

DocRecordBefore(a, b) == a.start < b.start \/ (a.start = b.start /\ a.end < b.end)

Interval(records, block) ==
    [first |-> block.first, count |-> block.count,
     first_line |-> unpack_line(records[block.first].start),
     last_line |-> Max({unpack_line(records[r].end) : r \in Within(block)})]

\* Every document's occurrences, sorted, cut into intervals of lines
build_doc_files(data) ==
    FoldLeft(LAMBDA acc, d :
        LET occs == data.doc_occs[d]
            recs == [i \in DOMAIN occs |->
                        [sym |-> caller_to_sorted(data)[occs[i].sym],
                         start |-> PackedStart(occs[i].span), end |-> PackedEnd(occs[i].span),
                         flags |-> occs[i].flags]]
            records == acc.records \o SortSeq(recs, DocRecordBefore)
            blocks == Chunks(Len(acc.records), Len(occs))
        IN  [records |-> records,
             docs |-> Append(acc.docs,
                 [epoch |-> data.docs[d].epoch, target |-> data.docs[d].target,
                  offset |-> Len(acc.records), count |-> Len(occs),
                  interval |-> IF occs = <<>> THEN 0 ELSE Len(acc.intervals) + 1,
                  intervals |-> Len(blocks)]),
             intervals |-> acc.intervals \o [k \in DOMAIN blocks |-> Interval(records, blocks[k])]],
        [records |-> <<>>, docs |-> <<>>, intervals |-> <<>>],
        [d \in DOMAIN data.docs |-> d])

Postings(layout) == [records |-> layout.records, entries |-> layout.entries]

\* SegmentWriter::write up to the files: what is then published
write(data) ==
    LET refs == layout_groups(data.refs, <<>>)
        defs == layout_groups(data.defs, refs.blocks)
        renames == layout_groups(data.renames, defs.blocks)
        order == sort_symbol_indices(data)
    IN  [refs |-> Postings(refs), defs |-> Postings(defs), renames |-> Postings(renames),
         blocks |-> renames.blocks, doc |-> build_doc_files(data), targets |-> data.targets,
         symbols |-> [p \in DOMAIN order |-> data.symbols[order[p]]],
         search |-> SortSeq([i \in DOMAIN data.search |->
                        [name |-> data.search[i].name,
                         sym |-> caller_to_sorted(data)[data.search[i].sym]]],
                        LAMBDA a, b : a.name < b.name)]

Writable(data) == validate(data) /\ Distinct(data)

-----------------------------------------------------------------------------
(* reader.rs: what an opened segment has been checked for                  *)

RecordsSorted(s, from, to) == \A i \in from .. to - 1 : ~RecordBefore(s[i + 1], s[i])
DocRecordsSorted(s, from, to) == \A i \in from .. to - 1 : ~DocRecordBefore(s[i + 1], s[i])

validate_symbol_dict(seg) ==
    /\ \A p \in 1 .. Len(seg.symbols) - 1 : seg.symbols[p].name < seg.symbols[p + 1].name
    /\ \A p \in DOMAIN seg.symbols :
         LET y == seg.symbols[p]
         IN  /\ ord_opt(y.ref_group, Len(seg.refs.entries))
             /\ ord_opt(y.rename_group, Len(seg.renames.entries))
             /\ ord_opt(y.def_target, seg.targets)

validate_group_records(seg, postings) ==
    \A r \in DOMAIN postings.records :
        LET rec == postings.records[r]
        IN  ord_in(rec.doc, Len(seg.doc.docs)) /\ ord_in(rec.target, seg.targets)
            /\ rec.start <= rec.end

validate_doc_records(seg) ==
    \A r \in DOMAIN seg.doc.records :
        LET rec == seg.doc.records[r]
        IN  ord_in(rec.sym, Len(seg.symbols)) /\ rec.start <= rec.end

\* Mutant: the counts of a block are checked, its target set is not
validate_block_counts(postings, block, want) ==
    [Aggregates(postings.records, want) EXCEPT !.targets = block.targets] = block

\* Every aggregate of a block is computed again from its records
validate_block(postings, block, want) == Aggregates(postings.records, want) = block

\* The groups tile the postings in order, and their blocks tile the block list
validate_role_groups(seg, postings, cursor) ==
    LET step(acc, e) ==
            LET chunks == Chunks(acc.offset, e.count)
                here(k) == acc.cursor + k - 1
            IN  [offset |-> acc.offset + e.count,
                 cursor |-> acc.cursor + Len(chunks),
                 ok |-> /\ acc.ok
                        /\ e.offset = acc.offset
                        /\ e.offset + e.count <= Len(postings.records)
                        /\ e.block = IF e.count = 0 THEN 0 ELSE acc.cursor
                        /\ RecordsSorted(postings.records, e.offset + 1, e.offset + e.count)
                        /\ \A k \in DOMAIN chunks :
                             /\ here(k) <= Len(seg.blocks)
                             /\ validate_block(postings, seg.blocks[here(k)], chunks[k])]
        end == FoldLeft(step, [offset |-> 0, cursor |-> cursor, ok |-> TRUE], postings.entries)
    IN  [ok |-> end.ok /\ end.offset = Len(postings.records), cursor |-> end.cursor]

validate_doc_index(seg) ==
    LET step(acc, d) ==
            LET chunks == Chunks(acc.offset, d.count)
                here(k) == acc.cursor + k - 1
            IN  [offset |-> acc.offset + d.count,
                 cursor |-> acc.cursor + Len(chunks),
                 ok |-> /\ acc.ok
                        /\ ord_in(d.target, seg.targets)
                        /\ d.offset = acc.offset
                        /\ d.offset + d.count <= Len(seg.doc.records)
                        /\ d.interval = (IF d.count = 0 THEN 0 ELSE acc.cursor)
                        /\ d.intervals = Len(chunks)
                        /\ DocRecordsSorted(seg.doc.records, d.offset + 1, d.offset + d.count)
                        /\ \A k \in DOMAIN chunks :
                             /\ here(k) <= Len(seg.doc.intervals)
                             /\ seg.doc.intervals[here(k)] = Interval(seg.doc.records, chunks[k])]
        end == FoldLeft(step, [offset |-> 0, cursor |-> 1, ok |-> TRUE], seg.doc.docs)
    IN  /\ end.ok
        /\ end.offset = Len(seg.doc.records)
        /\ end.cursor = Len(seg.doc.intervals) + 1

validate_meta_and_search(seg) ==
    /\ \A i \in DOMAIN seg.search : ord_in(seg.search[i].sym, Len(seg.symbols))
    /\ \A i \in 1 .. Len(seg.search) - 1 : seg.search[i].name <= seg.search[i + 1].name

validate_structure(seg) ==
    LET refs == validate_role_groups(seg, seg.refs, 1)
        defs == validate_role_groups(seg, seg.defs, refs.cursor)
        renames == validate_role_groups(seg, seg.renames, defs.cursor)
    IN  /\ Len(seg.refs.entries) = Len(seg.defs.entries)
        /\ validate_symbol_dict(seg)
        /\ \A p \in {seg.refs, seg.defs, seg.renames} : validate_group_records(seg, p)
        /\ validate_doc_records(seg)
        /\ refs.ok /\ defs.ok /\ renames.ok
        /\ renames.cursor = Len(seg.blocks) + 1
        /\ validate_doc_index(seg)
        /\ validate_meta_and_search(seg)

-----------------------------------------------------------------------------
(* reader.rs: scans over an opened segment                                 *)

\* The records of a group, block by block; a block is skipped on its metadata
scan_group(seg, postings, group, allowed, editable) ==
    LET entry == postings.entries[group]
        n == (entry.count + BlockSize - 1) \div BlockSize
        read(b) == allowed \cap b.targets # {} /\ (editable => b.editable # 0)
        serve(rec) == /\ rec.target \in allowed
                      /\ rec.epoch = seg.doc.docs[rec.doc].epoch
                      /\ editable => "editable" \in rec.flags
        of(b) == SelectSeq(SubSeq(postings.records, b.first, b.first + b.count - 1), serve)
    IN  IF entry.count = 0 THEN <<>>
        ELSE FlattenSeq([k \in 1 .. n |->
                LET b == seg.blocks[entry.block + k - 1]
                IN  IF read(b) THEN of(b) ELSE <<>>])

AllTargets(seg) == 1 .. seg.targets
scan_ref_group(seg, g, allowed) == scan_group(seg, seg.refs, g, allowed, FALSE)
scan_def_group(seg, g) == scan_group(seg, seg.defs, g, AllTargets(seg), FALSE)
scan_rename_group(seg, g) == scan_group(seg, seg.renames, g, AllTargets(seg), TRUE)

scan_doc(seg, d) ==
    LET e == seg.doc.docs[d] IN SubSeq(seg.doc.records, e.offset + 1, e.offset + e.count)

\* The record under a position: the smallest span, the first one of its size
symbol_at(seg, d, line, char) ==
    LET e == seg.doc.docs[d]
        query == pack(line, char)
        live == {k \in e.interval .. e.interval + e.intervals - 1 :
                    /\ seg.doc.intervals[k].first_line <= line
                    /\ seg.doc.intervals[k].last_line >= line}
        covering == {r \in UNION {Within(seg.doc.intervals[k]) : k \in live} :
                        seg.doc.records[r].start <= query /\ query <= seg.doc.records[r].end}
        size(r) == seg.doc.records[r].end - seg.doc.records[r].start
    IN  IF covering = {} THEN 0
        ELSE Min({r \in covering : \A o \in covering : size(r) <= size(o)})

\* Binary search of the sorted dictionary; 0 when the name is absent
find_symbol_ord(seg, name) ==
    LET halve(range, n) ==
            LET mid == (range.lo + range.hi) \div 2
                at == seg.symbols[mid + 1].name
            IN  IF range.lo >= range.hi \/ range.found > 0 THEN range
                ELSE CASE at < name -> [range EXCEPT !.lo = mid + 1]
                       [] at > name -> [range EXCEPT !.hi = mid]
                       [] OTHER -> [range EXCEPT !.found = mid + 1]
    IN  FoldLeft(halve, [lo |-> 0, hi |-> Len(seg.symbols), found |-> 0],
                 [n \in 1 .. Len(seg.symbols) |-> n]).found

=============================================================================
