---------------------------- MODULE OrderedDict ----------------------------
(* The OrderedDict of Python as the result caches use it: a sequence of       *)
(* entries with a key each, the one that was used least recently first.       *)
EXTENDS Integers, Sequences, SequencesExt

(* The entries of a key: none or one.                                         *)
Lookup(dict, key) == {e \in ToSet(dict) : e.key = key}

(* pop(key, None)                                                             *)
Popped(dict, key) == RemoveFirstMatch(dict, LAMBDA e : e.key = key)

(* dict[key] = e; move_to_end(key)                                            *)
Stored(dict, e) == Append(Popped(dict, e.key), e)

(* while len(dict) > max: popitem(last=False), after one entry was stored.    *)
Trimmed(dict, max) == IF Len(dict) > max THEN Tail(dict) ELSE dict

(* No key has two entries.                                                    *)
Keyed(dict) == \A i, j \in DOMAIN dict : dict[i].key = dict[j].key => i = j
=============================================================================
