----------------------------- MODULE Normalize ------------------------------
(* A raw batch of offers becomes a list of rows, one per identity, with    *)
(* the readings they came from (scrapers/normalize.py).                    *)
(*                                                                         *)
(* A merchant name is one of its spellings: Key gives its compact key, ""  *)
(* when the name is all noise words or not in a Latin script, and Score    *)
(* the likeness of two keys (rapidfuzz), which is not transitive.          *)
EXTENDS Discount, Sequences

CONSTANTS None, Key, Score, Upper, Placeholders

NoKey == ""
Keys == {Key[name] : name \in DOMAIN Key} \ {NoKey}

ASSUME KeyAssumption ==
  /\ Key \in [DOMAIN Key -> STRING]
  /\ Score \in [Keys \X Keys -> 0 .. 100]
  /\ \A k, l \in Keys : Score[<<k, l>>] = 100 <=> k = l

Threshold == 90

Near(k, l) == k = l \/ (k # NoKey /\ l # NoKey /\ Score[<<k, l>>] >= Threshold)

NormalizeCode(code) ==
  IF code = None \/ Upper[code] \in Placeholders THEN None ELSE Upper[code]

(* The known key most like k, the first of equals.                         *)
Best(k, known) ==
  CHOOSE i \in DOMAIN known :
    \A j \in DOMAIN known : Score[<<k, known[j].key>>] < Score[<<k, known[i].key>>]
                            \/ (Score[<<k, known[j].key>>] = Score[<<k, known[i].key>>] /\ i <= j)

MatchCanonicalMerchant(name, known) ==
  IF \/ Key[name] = NoKey \/ known = <<>>
     \/ Score[<<Key[name], known[Best(Key[name], known)].key>>] < Threshold
  THEN name
  ELSE known[Best(Key[name], known)].name

Registered(name, known) ==
  IF Key[name] # NoKey /\ MatchCanonicalMerchant(name, known) = name
     /\ \A i \in DOMAIN known : known[i].key # Key[name]
  THEN Append(known, [key |-> Key[name], name |-> name])
  ELSE known

Identified(raw) == NormalizeCode(raw.code) # None \/ raw.ref # None

Identity(row) == IF row.code # None THEN <<row.merchant, "code", row.code>>
                                    ELSE <<row.merchant, "ref", row.ref>>

Row(raw, known) ==
  [merchant |-> Key[MatchCanonicalMerchant(raw.merchant, known)],
   code     |-> NormalizeCode(raw.code),
   ref      |-> raw.ref,
   reveal   |-> raw.reveal \/ NormalizeCode(raw.code) = None,
   text     |-> raw.text,
   label    |-> SanitizeDiscount(raw.label, raw.text),
   ends     |-> raw.ends,
   sources  |-> <<raw>>]

\* Mutant: the readings of a duplicate are dropped.
MergeWithoutSources(old, new) ==
  [old EXCEPT !.text = First(@, new.text)]

(* What the first reading lacks is filled in, field by field.              *)
MergeLabel(old, new) ==
  [type  |-> IF old.type = "unknown" THEN new.type ELSE old.type,
   value |-> IF old.value = NoValue THEN new.value ELSE old.value]

Merge(old, new) ==
  [old EXCEPT !.text = First(old.text, new.text),
              !.label = MergeLabel(old.label, new.label),
              !.ends = IF old.ends = None THEN new.ends ELSE old.ends,
              !.sources = old.sources \o new.sources]

Absorb(acc, raw) ==
  LET row == Row(raw, acc.known)
      same == {i \in DOMAIN acc.rows : Identity(acc.rows[i]) = Identity(row)}
  IN [known |-> Registered(raw.merchant, acc.known),
      rows  |-> IF ~Identified(raw) THEN acc.rows
                ELSE IF same = {} THEN Append(acc.rows, row)
                ELSE LET i == CHOOSE j \in same : TRUE
                     IN [acc.rows EXCEPT ![i] = Merge(acc.rows[i], row)]]

(* The raw coupons are absorbed in the order of the batch.                 *)
NormalizeAndDedupe(raws) ==
  LET after[n \in 0 .. Len(raws)] ==
        IF n = 0 THEN [known |-> <<>>, rows |-> <<>>] ELSE Absorb(after[n - 1], raws[n])
  IN after[Len(raws)].rows

=============================================================================
