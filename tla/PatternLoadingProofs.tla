------------------------ MODULE PatternLoadingProofs ------------------------
(* Proofs about PatternLoading for all files and every sequence of calls:    *)
(* type correctness, that conditionals nest, that the opcode index agrees    *)
(* with the list of patterns, and that the loader implements PatternStore.   *)
EXTENDS PatternLoading, FiniteSetTheorems, SequenceTheorems, WellFoundedInduction, TLAPS

(* The loops over patterns are within bounds, and the file that is worked at *)
(* is the head of the queue.                                                 *)
Looping == pc \in {"sift", "rebuild"} => next \in 1..Len(patterns) + 1
AtFile == pc \in {"process", "evaluate"} => queue # <<>>

LoadingInv == TypeOK /\ ConditionalsNest /\ IndexAgrees /\ Looping /\ AtFile

-----------------------------------------------------------------------------
(* The patterns an index lists under a key. Entering one lists it where it   *)
(* has entries, and nothing else.                                            *)
Listed(index, key, q) == \E k \in DOMAIN index[key] : index[key][k] = q

(* The index with one more pattern lists it under its keys, nothing else.  *)
LEMMA IndexedPattern ==
    ASSUME NEW index \in [Keys -> Seq(Pattern)], NEW p \in Pattern
    PROVE  /\ Indexed(index, p) \in [Keys -> Seq(Pattern)]
           /\ \A key \in Keys : \A q :
                Listed(Indexed(index, p), key, q)
                  <=> Listed(index, key, q) \/ (q = p /\ Entries(p, key) # {})
<1> SUFFICES ASSUME NEW key \in Keys
             PROVE  /\ Indexed(index, p)[key] \in Seq(Pattern)
                    /\ \A q : Listed(Indexed(index, p), key, q)
                                <=> Listed(index, key, q) \/ (q = p /\ Entries(p, key) # {})
  BY DEF Indexed
<1> DEFINE n == Cardinality(Entries(p, key))
           more == [k \in 1..n |-> p]
<1>1. n \in Nat /\ (n = 0 <=> Entries(p, key) = {})
  <2>1. p.alternatives \in Seq(Opcodes \union {NoOpcode})
    BY DEF Pattern
  <2>2. DOMAIN p.alternatives = 1..Len(p.alternatives) /\ Len(p.alternatives) \in Nat
    BY <2>1, LenProperties
  <2>3. IsFiniteSet(1..Len(p.alternatives))
    BY <2>2, FS_Interval
  <2>4. IsFiniteSet(Entries(p, key))
    BY <2>2, <2>3, FS_Subset DEF Entries
  <2> QED
    BY <2>4, FS_CardinalityType, FS_EmptySet
<1> HIDE DEF n
<1>2. more \in Seq(Pattern) /\ Len(more) = n
  BY <1>1, IsASeq
<1>3. index[key] \in Seq(Pattern)
  OBVIOUS
<1>4. Indexed(index, p)[key] = index[key] \o more
  BY DEF Indexed, n
<1>5. /\ index[key] \o more \in Seq(Pattern)
      /\ DOMAIN (index[key] \o more) = 1..Len(index[key]) + n
      /\ DOMAIN index[key] = 1..Len(index[key]) /\ Len(index[key]) \in Nat
      /\ \A k \in 1..Len(index[key]) + n :
           (index[key] \o more)[k] = IF k <= Len(index[key]) THEN index[key][k] ELSE p
  <2>1. /\ index[key] \o more \in Seq(Pattern)
        /\ Len(index[key] \o more) = Len(index[key]) + n
        /\ \A k \in 1..Len(index[key]) + n :
             (index[key] \o more)[k] =
               IF k <= Len(index[key]) THEN index[key][k] ELSE more[k - Len(index[key])]
    BY <1>1, <1>2, <1>3, ConcatProperties
  <2>2. Len(index[key]) \in Nat /\ DOMAIN index[key] = 1..Len(index[key])
    BY <1>3, LenProperties
  <2>3. DOMAIN (index[key] \o more) = 1..Len(index[key]) + n
    BY <2>1, LenProperties
  <2>4. \A k \in 1..Len(index[key]) + n :
          k > Len(index[key]) => more[k - Len(index[key])] = p
    BY <1>1, <2>2
  <2> QED
    BY <1>1, <2>1, <2>2, <2>3, <2>4
<1> HIDE DEF more
<1>6. \A q : (\E k \in DOMAIN (index[key] \o more) : (index[key] \o more)[k] = q)
               <=> (\E k \in DOMAIN index[key] : index[key][k] = q) \/ (q = p /\ n # 0)
  <2> SUFFICES ASSUME NEW q
               PROVE  (\E k \in DOMAIN (index[key] \o more) : (index[key] \o more)[k] = q)
                        <=> (\E k \in DOMAIN index[key] : index[key][k] = q) \/ (q = p /\ n # 0)
    OBVIOUS
  <2>1. ASSUME NEW k \in DOMAIN (index[key] \o more), (index[key] \o more)[k] = q
        PROVE  (\E l \in DOMAIN index[key] : index[key][l] = q) \/ (q = p /\ n # 0)
    BY <1>1, <1>5, <2>1
  <2>2. ASSUME NEW k \in DOMAIN index[key], index[key][k] = q
        PROVE  \E l \in DOMAIN (index[key] \o more) : (index[key] \o more)[l] = q
    BY <1>1, <1>5, <2>2
  <2>3. ASSUME q = p, n # 0
        PROVE  \E l \in DOMAIN (index[key] \o more) : (index[key] \o more)[l] = q
    <3>1. /\ Len(index[key]) + 1 \in 1..Len(index[key]) + n
          /\ ~(Len(index[key]) + 1 <= Len(index[key]))
      BY <1>1, <1>5, <2>3
    <3>2. (index[key] \o more)[Len(index[key]) + 1] = q
      BY <1>5, <2>3, <3>1
    <3>3. Len(index[key]) + 1 \in DOMAIN (index[key] \o more)
      BY <1>5, <3>1
    <3> QED
      BY <3>2, <3>3
  <2> QED
    BY <2>1, <2>2, <2>3
<1> QED
  BY <1>1, <1>4, <1>5, <1>6 DEF Listed

(* A token of a kind has the fields of the kind.                             *)
LEMMA TokenFields ==
    ASSUME NEW tok \in Token
    PROVE  /\ tok.kind = "pattern" => tok \in PatternToken
           /\ tok.kind = "define" => tok.value \in Opcodes \union {NoOpcode}
BY DEF Token, PatternToken

(* What the macros make of a token is a token.                               *)
LEMMA ExpandedType ==
    ASSUME NEW tok \in Token, NEW defs,
           \A name \in DOMAIN defs : defs[name] \in Opcodes \union {NoOpcode}
    PROVE  Expanded(defs, tok) \in Token
<1>1. CASE tok.kind # "pattern"
  BY <1>1 DEF Expanded
<1>2. CASE tok.kind = "pattern"
  <2> DEFINE alts(b) == [a \in DOMAIN tok.blocks[b] |-> Replaced(defs, tok.blocks[b][a])]
             blocks == [b \in DOMAIN tok.blocks |-> alts(b)]
  <2>1. tok \in PatternToken /\ tok.blocks \in Blocks
    BY <1>2, TokenFields DEF PatternToken
  <2>2. ASSUME NEW b \in DOMAIN tok.blocks
        PROVE  alts(b) \in Seq(Opcodes \union {NoOpcode})
    <3>1. tok.blocks[b] \in Seq(Opcodes \union {NoOpcode})
      BY <2>1, ElementOfSeq DEF Blocks
    <3>2. /\ DOMAIN tok.blocks[b] = 1..Len(tok.blocks[b]) /\ Len(tok.blocks[b]) \in Nat
          /\ \A a \in DOMAIN tok.blocks[b] : tok.blocks[b][a] \in Opcodes \union {NoOpcode}
      BY <3>1, LenProperties, ElementOfSeq
    <3>3. \A a \in DOMAIN tok.blocks[b] :
            Replaced(defs, tok.blocks[b][a]) \in Opcodes \union {NoOpcode}
      BY <3>2 DEF Replaced
    <3> QED
      BY <3>2, <3>3, IsASeq
  <2>3. DOMAIN tok.blocks = 1..Len(tok.blocks) /\ Len(tok.blocks) \in Nat
    BY <2>1, LenProperties DEF Blocks
  <2> HIDE DEF alts
  <2>4. blocks \in Blocks
    BY <2>2, <2>3, IsASeq DEF Blocks
  <2>5. Expanded(defs, tok) = [tok EXCEPT !.blocks = blocks]
    BY <1>2 DEF Expanded, alts
  <2> QED
    BY <2>1, <2>4, <2>5 DEF PatternToken, Token
<1> QED
  BY <1>1, <1>2

(* A definition is compiled to a pattern.                                    *)
LEMMA CompiledType ==
    ASSUME NEW tok \in PatternToken
    PROVE  evalPattern(tok) \in Pattern
<1> DEFINE S == Opcodes \union {NoOpcode}
           block == Last(tok.blocks)
           alts == IF tok.blocks = <<>> THEN <<>> ELSE Alternatives(block)
<1>1. tok.blocks \in Seq(Seq(S)) /\ tok.name \in STRING /\ tok.library \in STRING
  BY DEF PatternToken, Blocks
<1>2. ASSUME tok.blocks # <<>> PROVE Alternatives(block) \in Seq(S)
  <2> HIDE DEF S
  <2>1. block \in Seq(S)
    BY <1>1, <1>2, LenProperties, ElementOfSeq, EmptySeq DEF Last
  <2> HIDE DEF block
  <2>2. block # <<>> => Tail(block) \in Seq(S)
    BY <2>1, HeadTailProperties
  <2> QED
    BY <2>1, <2>2 DEF Alternatives
<1>3. alts \in Seq(S)
  BY <1>2, EmptySeq
<1>4. evalPattern(tok) = [name |-> tok.name, library |-> tok.library, arch |-> "",
                          platforms |-> {}, alternatives |-> alts]
  BY DEF evalPattern
<1> HIDE DEF S, alts
<1>5. \A n \in STRING, l \in STRING, s \in Seq(S) :
        [name |-> n, library |-> l, arch |-> "", platforms |-> {}, alternatives |-> s]
          \in [name : STRING, library : STRING, arch : {""}, platforms : {{}},
               alternatives : Seq(S)]
  OBVIOUS
<1>6. Pattern = [name : STRING, library : STRING, arch : {""}, platforms : {{}},
                 alternatives : Seq(S)]
  BY DEF Pattern, S
<1>7. [name |-> tok.name, library |-> tok.library, arch |-> "",
       platforms |-> {}, alternatives |-> alts] \in Pattern
  BY <1>1, <1>3, <1>5, <1>6
<1> QED
  BY <1>4, <1>7
-----------------------------------------------------------------------------
(* Nothing is loaded yet.                                                  *)
LEMMA InitInv == Init => LoadingInv
<1> SUFFICES ASSUME Init PROVE LoadingInv
  OBVIOUS
<1>1. /\ <<>> \in Seq(DOMAIN files) /\ <<>> \in Seq(Token) /\ <<>> \in Seq(Pattern)
      /\ Len(<<>>) = 0 /\ DOMAIN <<>> = {}
  BY EmptySeq
<1>2. /\ <<TRUE>> \in Seq(BOOLEAN) /\ <<TRUE>> # <<>>
      /\ DOMAIN <<TRUE>> = {1} /\ <<TRUE>>[1] = TRUE
  OBVIOUS
<1>3. TypeOK
  <2>1. /\ files \in FileSystems /\ calls = 0 /\ pc = "ready"
        /\ queue = <<>> /\ resolver = FALSE
    BY DEF Init
  <2>2. /\ source = <<>> /\ output = <<>> /\ pos = 1
        /\ ifStack = <<TRUE>> /\ macros = <<>>
    BY DEF Init
  <2>5. calls \in 0..MaxCalls /\ pos \in 1..Len(source) + 1
    BY <1>1, <2>1, <2>2, MaxCallsAssumption
  <2>3. /\ compiled = <<>> /\ patterns = <<>> /\ kept = <<>> /\ next \in Nat
    BY DEF Init
  <2>4. byOpcode \in [Keys -> Seq(Pattern)]
    BY <1>1 DEF Init
  <2> QED
    BY <1>1, <1>2, <2>1, <2>2, <2>3, <2>4, <2>5 DEF TypeOK
<1>4. ConditionalsNest
  <2>1. ifStack = <<TRUE>>
    BY DEF Init
  <2>2. DOMAIN ifStack = {1}
    BY <1>2, <2>1
  <2>3. \A i, j \in {1} : ~(i < j)
    OBVIOUS
  <2> QED
    BY <2>2, <2>3 DEF ConditionalsNest
<1>5. IndexAgrees
  <2>1. patterns = <<>> /\ pc = "ready" /\ \A key \in Keys : byOpcode[key] = <<>>
    BY DEF Init
  <2>2. Seen = 0
    BY <1>1, <2>1 DEF Seen
  <2>3. 1..Seen = {}
    BY <2>2
  <2> QED
    BY <1>1, <2>1, <2>3 DEF IndexAgrees
<1>6. Looping
  BY DEF Init, Looping
<1>7. AtFile
  BY DEF Init, AtFile
<1> QED
  BY <1>3, <1>4, <1>5, <1>6, <1>7 DEF LoadingInv

(* The agreement of an index with the first n patterns of a list.            *)
Agrees(index, list, n) ==
    \A key \in Keys :
        /\ \A k \in DOMAIN index[key] :
             /\ Entries(index[key][k], key) # {}
             /\ \E i \in 1..n : list[i] = index[key][k]
        /\ \A i \in 1..n :
             Entries(list[i], key) # {} =>
                 \E k \in DOMAIN index[key] : index[key][k] = list[i]

(* IndexAgrees with its variables as parameters.                           *)
LEMMA IndexIs == IndexAgrees <=> Agrees(byOpcode, patterns, Seen)
BY DEF IndexAgrees, Agrees

(* It stays when the index, the list and the patterns seen do.               *)
LEMMA IndexStays ==
    ASSUME IndexAgrees, UNCHANGED <<byOpcode, patterns>>, Seen' = Seen
    PROVE  IndexAgrees'
<1>1. Agrees(byOpcode, patterns, Seen)
  BY IndexIs
<1>2. Agrees(byOpcode', patterns', Seen')
  BY <1>1
<1> QED
  BY <1>2 DEF IndexAgrees, Agrees

(* What is left when the database is not touched.                            *)
LEMMA DatabaseStays ==
    ASSUME LoadingInv, UNCHANGED db,
           pc # "rebuild" /\ pc' # "rebuild" /\ pc' # "sift"
    PROVE  IndexAgrees' /\ Looping'
<1>1. UNCHANGED <<byOpcode, patterns>> /\ IndexAgrees
  BY DEF LoadingInv, db
<1>2. Seen' = Seen
  BY <1>1 DEF Seen
<1> QED
  BY <1>1, <1>2, IndexStays DEF Looping

(* The preprocessor's own state.                                             *)
PreTyped ==
    /\ source \in Seq(Token) /\ output \in Seq(Token)
    /\ pos \in 1..Len(source) + 1
    /\ ifStack \in Seq(BOOLEAN) /\ ifStack # <<>>
    /\ \A name \in DOMAIN macros : macros[name] \in Opcodes \union {NoOpcode}

(* A step of the preprocessor leaves the rest with its type.                 *)
LEMMA StepOutside ==
    ASSUME LoadingInv, UNCHANGED outside, PreTyped', ConditionalsNest',
           pc = "process", pc' \in {"process", "ready", "exhausted"},
           queue' \in {queue, <<>>}, pc' = "process" => queue' = queue
    PROVE  LoadingInv'
<1>1. queue' \in Seq(DOMAIN files')
  BY EmptySeq DEF LoadingInv, TypeOK, outside
<1>2. TypeOK'
  BY <1>1 DEF LoadingInv, TypeOK, PreTyped, outside, db
<1>3. IndexAgrees' /\ Looping'
  BY DatabaseStays DEF outside
<1>4. AtFile'
  BY DEF LoadingInv, AtFile
<1> QED
  BY <1>2, <1>3, <1>4 DEF LoadingInv

(* One more conditional, or one less, leaves a stack that nests.             *)
LEMMA PushNests ==
    ASSUME NEW s \in Seq(BOOLEAN), s # <<>>, NEW b \in BOOLEAN,
           \A i, j \in DOMAIN s : i < j /\ s[j] => s[i]
    PROVE  LET t == Append(s, Last(s) /\ b)
           IN  /\ t \in Seq(BOOLEAN) /\ t # <<>>
               /\ \A i, j \in DOMAIN t : i < j /\ t[j] => t[i]
<1> DEFINE top == Last(s) /\ b
           t == Append(s, top)
<1>1. /\ DOMAIN s = 1..Len(s) /\ Len(s) \in Nat \ {0} /\ Last(s) = s[Len(s)]
      /\ \A k \in DOMAIN s : s[k] \in BOOLEAN
  BY LenProperties, ElementOfSeq, EmptySeq DEF Last
<1>2. top \in BOOLEAN /\ (top => s[Len(s)])
  BY <1>1
<1> HIDE DEF top
<1>3. /\ t \in Seq(BOOLEAN) /\ t # <<>> /\ DOMAIN t = 1..Len(s) + 1
      /\ \A k \in 1..Len(s) : t[k] = s[k]
      /\ t[Len(s) + 1] = top
  BY <1>1, <1>2, AppendProperties, LenProperties
<1> HIDE DEF t
<1>4. \A i, j \in DOMAIN t : i < j /\ t[j] => t[i]
  <2> SUFFICES ASSUME NEW i \in DOMAIN t, NEW j \in DOMAIN t, i < j, t[j] PROVE t[i]
    OBVIOUS
  <2>1. CASE j \in 1..Len(s)
    BY <1>1, <1>3, <2>1
  <2>2. CASE j = Len(s) + 1
    <3>1. i \in 1..Len(s) /\ t[i] = s[i] /\ s[Len(s)]
      BY <1>1, <1>2, <1>3, <2>2
    <3> QED
      BY <1>1, <3>1
  <2> QED
    BY <1>1, <1>3, <2>1, <2>2
<1> QED
  BY <1>3, <1>4 DEF t, top

(* A conditional that ends leaves a stack that nests.                      *)
LEMMA PopNests ==
    ASSUME NEW s \in Seq(BOOLEAN), Len(s) > 1,
           \A i, j \in DOMAIN s : i < j /\ s[j] => s[i]
    PROVE  /\ Front(s) \in Seq(BOOLEAN) /\ Front(s) # <<>>
           /\ \A i, j \in DOMAIN Front(s) : i < j /\ Front(s)[j] => Front(s)[i]
<1>1. DOMAIN s = 1..Len(s) /\ Len(s) \in Nat
  BY LenProperties
<1>2. /\ Front(s) \in Seq(BOOLEAN) /\ Len(Front(s)) = Len(s) - 1
      /\ \A k \in 1..Len(s) - 1 : Front(s)[k] = s[k]
  BY <1>1, SubSeqProperties DEF Front
<1>3. DOMAIN Front(s) = 1..Len(s) - 1
  BY <1>2, LenProperties
<1> QED
  BY <1>1, <1>2, <1>3, EmptySeq

-----------------------------------------------------------------------------
(* The token the preprocessor is at, and the tokens of a file.               *)
LEMMA AtTokenTyped ==
    ASSUME LoadingInv, NEW kinds, AtToken(kinds)
    PROVE  /\ Tok \in Token /\ pos \in 1..Len(source) /\ Len(source) \in Nat
           /\ pc = "process"
<1>1. source \in Seq(Token) /\ pos \in DOMAIN source /\ pc = "process"
  BY DEF LoadingInv, TypeOK, AtToken
<1> QED
  BY <1>1, LenProperties, ElementOfSeq DEF Tok

(* What the steps within a file keep of the types.                         *)
LEMMA FileTyped ==
    ASSUME LoadingInv, NEW f \in DOMAIN files
    PROVE  files[f].tokens \in Seq(Token)
<1>1. files \in FileSystems
  BY DEF LoadingInv, TypeOK
<1>2. files[f] \in File
  BY <1>1, FileSystemsAssumption
<1> QED
  BY <1>2 DEF File

(* What an #include leaves is a sequence of tokens, with the directive still *)
(* in its place.                                                             *)
LEMMA SplicedTyped ==
    ASSUME LoadingInv, AtToken({"include"}), Found
    PROVE  Spliced \in Seq(Token) /\ pos + 1 \in 1..Len(Spliced) + 1
<1>1. /\ source \in Seq(Token) /\ pos \in 1..Len(source) /\ Len(source) \in Nat
  BY AtTokenTyped DEF LoadingInv, TypeOK
<1>2. files[Tok.file].tokens \in Seq(Token)
  BY FileTyped DEF Found
<1> DEFINE before == SubSeq(source, 1, pos)
           new == files[Tok.file].tokens
           after == SubSeq(source, pos + 1, Len(source))
<1>3. before \in Seq(Token) /\ Len(before) = pos
  BY <1>1, SubSeqProperties, ElementOfSeq
<1>4. after \in Seq(Token)
  BY <1>1, SubSeqProperties, ElementOfSeq
<1>5. Len(new) \in Nat /\ Len(after) \in Nat
  BY <1>2, <1>4, LenProperties
<1> HIDE DEF before, new, after
<1>6. before \o new \in Seq(Token) /\ Len(before \o new) = pos + Len(new)
  BY <1>2, <1>3, ConcatProperties DEF new
<1>7. /\ (before \o new) \o after \in Seq(Token)
      /\ Len((before \o new) \o after) = pos + Len(new) + Len(after)
  BY <1>4, <1>6, ConcatProperties
<1>8. Spliced = (before \o new) \o after
  BY DEF Spliced, before, new, after
<1> QED
  BY <1>1, <1>5, <1>7, <1>8

(* A step of the preprocessor that leaves its stack alone.                   *)
LEMMA DirectiveStep ==
    ASSUME LoadingInv, UNCHANGED <<outside, ifStack>>, NEW kinds, AtToken(kinds),
           pc' \in {"process", "ready", "exhausted"}, queue' \in {queue, <<>>},
           pc' = "process" => queue' = queue,
           source' \in Seq(Token), output' \in Seq(Token), pos' \in 1..Len(source') + 1,
           \A name \in DOMAIN macros' : macros'[name] \in Opcodes \union {NoOpcode}
    PROVE  LoadingInv'
<1>1. pc = "process"
  BY AtTokenTyped
<1>2. PreTyped' /\ ConditionalsNest'
  BY DEF LoadingInv, TypeOK, PreTyped, ConditionalsNest
<1> QED
  BY <1>1, <1>2, StepOutside

(* Stepping over a token is within bounds.                                   *)
LEMMA AdvanceTyped ==
    ASSUME LoadingInv, NEW kinds, AtToken(kinds), Advance, UNCHANGED source
    PROVE  source' \in Seq(Token) /\ pos' \in 1..Len(source') + 1
<1>1. /\ source \in Seq(Token) /\ pos \in 1..Len(source) /\ Len(source) \in Nat
  BY AtTokenTyped DEF LoadingInv, TypeOK
<1> QED
  BY <1>1 DEF Advance

(* An include opens a file, or fails.                                      *)
LEMMA IncludeInv ==
    LoadingInv /\ (Include \/ IncludeMissing \/ IncludeForever \/ IncludeIgnored)
      => LoadingInv'
<1> SUFFICES ASSUME LoadingInv, Include \/ IncludeMissing \/ IncludeForever \/ IncludeIgnored
             PROVE  LoadingInv'
  OBVIOUS
<1>1. /\ AtToken({"include"}) /\ UNCHANGED <<outside, ifStack, output, macros>>
      /\ pc' \in {"process", "ready", "exhausted"} /\ queue' \in {queue, <<>>}
      /\ pc' = "process" => queue' = queue
  BY DEF Include, IncludeMissing, IncludeForever, IncludeIgnored, AtToken, preprocessor, Fail
<1>2. source' \in Seq(Token) /\ pos' \in 1..Len(source') + 1
  <2>1. CASE Include
    BY <2>1, SplicedTyped DEF Include, Advance
  <2>2. CASE IncludeMissing \/ IncludeIgnored
    BY <1>1, <2>2, AdvanceTyped DEF IncludeMissing, IncludeIgnored
  <2>3. CASE IncludeForever
    BY <2>3 DEF IncludeForever, preprocessor, LoadingInv, TypeOK
  <2> QED
    BY <2>1, <2>2, <2>3
<1>3. /\ output' \in Seq(Token)
      /\ \A name \in DOMAIN macros' : macros'[name] \in Opcodes \union {NoOpcode}
  BY <1>1 DEF LoadingInv, TypeOK
<1> QED
  BY <1>1, <1>2, <1>3, DirectiveStep

(* Macros are defined and undefined.                                       *)
LEMMA MacroInv == LoadingInv /\ (Define \/ Undef) => LoadingInv'
<1> SUFFICES ASSUME LoadingInv, Define \/ Undef PROVE LoadingInv'
  OBVIOUS
<1>1. PICK kinds : AtToken(kinds) /\ (Define => kinds = {"define"})
  BY DEF Define, Undef
<1>2. /\ UNCHANGED <<outside, ifStack, output, source>> /\ Advance
      /\ pc' \in {"process", "ready", "exhausted"} /\ queue' \in {queue, <<>>}
      /\ pc' = "process" => queue' = queue
  BY <1>1 DEF Define, Undef, AtToken
<1>3. source' \in Seq(Token) /\ pos' \in 1..Len(source') + 1 /\ output' \in Seq(Token)
  BY <1>1, <1>2, AdvanceTyped DEF LoadingInv, TypeOK
<1>4. \A name \in DOMAIN macros : macros[name] \in Opcodes \union {NoOpcode}
  BY DEF LoadingInv, TypeOK
<1>5. \A name \in DOMAIN macros' : macros'[name] \in Opcodes \union {NoOpcode}
  <2>1. CASE Define
    <3>1. Tok.value \in Opcodes \union {NoOpcode}
      BY <1>1, <2>1, AtTokenTyped, TokenFields DEF AtToken
    <3> QED
      BY <1>4, <2>1, <3>1 DEF Define
  <2>2. CASE Undef
    BY <1>4, <2>2 DEF Undef
  <2> QED
    BY <2>1, <2>2
<1> QED
  BY <1>1, <1>2, <1>3, <1>5, DirectiveStep

(* Conditionals begin and end.                                             *)
LEMMA ConditionalInv == LoadingInv /\ (If \/ Endif) => LoadingInv'
<1> SUFFICES ASSUME LoadingInv, If \/ Endif PROVE LoadingInv'
  OBVIOUS
<1>1. PICK kinds : AtToken(kinds)
  BY DEF If, Endif
<1>2. /\ UNCHANGED <<outside, output, source, macros, pc, queue>> /\ Advance /\ pc = "process"
  BY <1>1 DEF If, Endif, AtToken
<1>3. source' \in Seq(Token) /\ pos' \in 1..Len(source') + 1
  BY <1>1, <1>2, AdvanceTyped
<1>4. /\ ifStack \in Seq(BOOLEAN) /\ ifStack # <<>>
      /\ \A i, j \in DOMAIN ifStack : i < j /\ ifStack[j] => ifStack[i]
  BY DEF LoadingInv, TypeOK, ConditionalsNest
<1>5. /\ ifStack' \in Seq(BOOLEAN) /\ ifStack' # <<>>
      /\ \A i, j \in DOMAIN ifStack' : i < j /\ ifStack'[j] => ifStack'[i]
  <2>1. CASE If
    <3>1. Holds(Tok) \in BOOLEAN
      BY DEF Holds
    <3>2. ifStack' = Append(ifStack, Last(ifStack) /\ Holds(Tok))
      BY <2>1 DEF If, pushConditional, shouldEmit
    <3> QED
      BY <1>4, <3>1, <3>2, PushNests
  <2>2. CASE Endif
    <3>1. ifStack' = Front(ifStack) /\ Len(ifStack) > 1
      BY <2>2 DEF Endif
    <3> QED
      BY <1>4, <3>1, PopNests
  <2> QED
    BY <2>1, <2>2
<1>6. PreTyped'
  BY <1>2, <1>3, <1>5 DEF PreTyped, LoadingInv, TypeOK
<1>7. ConditionalsNest'
  BY <1>5 DEF ConditionalsNest
<1> QED
  BY <1>2, <1>6, <1>7, StepOutside DEF outside

(* The other tokens pass, or not.                                          *)
LEMMA TokenInv ==
    LoadingInv /\ (EndifUnmatched \/ ErrorDirective \/ Pragma \/ SkipToken \/ EmitToken)
      => LoadingInv'
<1> SUFFICES ASSUME LoadingInv,
                    EndifUnmatched \/ ErrorDirective \/ Pragma \/ SkipToken \/ EmitToken
             PROVE  LoadingInv'
  OBVIOUS
<1>1. PICK kinds : AtToken(kinds)
  BY DEF EndifUnmatched, ErrorDirective, Pragma, SkipToken, EmitToken
<1>2. /\ UNCHANGED <<outside, ifStack, source, macros>> /\ Advance
      /\ pc' \in {"process", "ready", "exhausted"} /\ queue' \in {queue, <<>>}
      /\ pc' = "process" => queue' = queue
  BY <1>1 DEF EndifUnmatched, ErrorDirective, Pragma, SkipToken, EmitToken, AtToken, Fail
<1>3. source' \in Seq(Token) /\ pos' \in 1..Len(source') + 1
  BY <1>1, <1>2, AdvanceTyped
<1>4. /\ \A name \in DOMAIN macros : macros[name] \in Opcodes \union {NoOpcode}
      /\ output \in Seq(Token)
  BY DEF LoadingInv, TypeOK
<1>5. output' \in Seq(Token)
  <2>1. CASE EmitToken
    <3>1. Expanded(macros, Tok) \in Token
      BY <1>1, <1>4, AtTokenTyped, ExpandedType
    <3> QED
      BY <1>4, <2>1, <3>1, AppendProperties DEF EmitToken
  <2>2. CASE ~EmitToken
    BY <1>4, <2>2 DEF EndifUnmatched, ErrorDirective, Pragma, SkipToken
  <2> QED
    BY <2>1, <2>2
<1> QED
  BY <1>1, <1>2, <1>3, <1>4, <1>5, DirectiveStep

-----------------------------------------------------------------------------
(* Entering the next pattern of the list extends the agreement to it.        *)
LEMMA EnteringAgrees ==
    ASSUME NEW index \in [Keys -> Seq(Pattern)], NEW list, NEW n \in Nat,
           NEW p \in Pattern, list[n + 1] = p, Agrees(index, list, n)
    PROVE  Agrees(Indexed(index, p), list, n + 1)
<1>1. n + 1 \in 1..n + 1 /\ \A i \in 1..n + 1 : i \in 1..n \/ i = n + 1
  OBVIOUS
<1>2. 1..n \subseteq 1..n + 1
  OBVIOUS
<1> SUFFICES ASSUME NEW key \in Keys
             PROVE  /\ \A k \in DOMAIN Indexed(index, p)[key] :
                         /\ Entries(Indexed(index, p)[key][k], key) # {}
                         /\ \E i \in 1..n + 1 : list[i] = Indexed(index, p)[key][k]
                    /\ \A i \in 1..n + 1 :
                         Entries(list[i], key) # {} =>
                             \E k \in DOMAIN Indexed(index, p)[key] :
                                Indexed(index, p)[key][k] = list[i]
  BY DEF Agrees
<1>3. \A q : Listed(Indexed(index, p), key, q)
               <=> Listed(index, key, q) \/ (q = p /\ Entries(p, key) # {})
  BY IndexedPattern
<1> DEFINE entered == Indexed(index, p)[key]
<1>4. ASSUME NEW k \in DOMAIN entered
      PROVE  Entries(entered[k], key) # {} /\ \E i \in 1..n + 1 : list[i] = entered[k]
  <2>1. Listed(Indexed(index, p), key, entered[k])
    <3> DEFINE into == Indexed(index, p)
    <3>1. k \in DOMAIN into[key]
      OBVIOUS
    <3> HIDE DEF into
    <3>2. Listed(into, key, into[key][k])
      BY <3>1 DEF Listed
    <3> QED
      BY <3>2 DEF into
  <2>2. CASE Listed(index, key, entered[k])
    <3>1. PICK l \in DOMAIN index[key] : index[key][l] = entered[k]
      BY <2>2 DEF Listed
    <3>2. Entries(index[key][l], key) # {} /\ \E i \in 1..n : list[i] = index[key][l]
      BY DEF Agrees
    <3> HIDE DEF entered
    <3> QED
      BY <1>2, <3>1, <3>2
  <2>3. CASE entered[k] = p /\ Entries(p, key) # {}
    BY <1>1, <2>3
  <2> QED
    BY <1>3, <2>1, <2>2, <2>3
<1>5. ASSUME NEW i \in 1..n + 1, Entries(list[i], key) # {}
      PROVE  \E k \in DOMAIN entered : entered[k] = list[i]
  <2>1. CASE i \in 1..n
    <3>1. Listed(index, key, list[i])
      BY <1>5, <2>1 DEF Agrees, Listed
    <3> QED
      BY <1>3, <3>1 DEF Listed
  <2>2. CASE i = n + 1
    <3>1. list[i] = p /\ Entries(p, key) # {}
      BY <1>5, <2>2
    <3>2. Listed(Indexed(index, p), key, p)
      BY <1>3, <3>1
    <3> QED
      BY <3>1, <3>2 DEF Listed
  <2> QED
    BY <1>1, <2>1, <2>2
<1> QED
  BY <1>4, <1>5

(* The agreement is with the patterns, not with the list.                    *)
LEMMA SameAgrees ==
    ASSUME NEW index, NEW list, NEW n, NEW other, Agrees(index, list, n),
           \A i \in 1..n : other[i] = list[i]
    PROVE  Agrees(index, other, n)
<1> SUFFICES ASSUME NEW key \in Keys
             PROVE  /\ \A k \in DOMAIN index[key] :
                         /\ Entries(index[key][k], key) # {}
                         /\ \E i \in 1..n : other[i] = index[key][k]
                    /\ \A i \in 1..n :
                         Entries(other[i], key) # {} =>
                             \E k \in DOMAIN index[key] : index[key][k] = other[i]
  BY DEF Agrees
<1>1. ASSUME NEW k \in DOMAIN index[key]
      PROVE  Entries(index[key][k], key) # {} /\ \E i \in 1..n : other[i] = index[key][k]
  BY DEF Agrees
<1>2. ASSUME NEW i \in 1..n, Entries(other[i], key) # {}
      PROVE  \E k \in DOMAIN index[key] : index[key][k] = other[i]
  <2>1. other[i] = list[i] /\ Entries(list[i], key) # {}
    BY <1>2
  <2>2. \E k \in DOMAIN index[key] : index[key][k] = list[i]
    BY <2>1 DEF Agrees
  <2> QED
    BY <2>1, <2>2
<1> QED
  BY <1>1, <1>2

(* An empty index agrees with no pattern.                                    *)
LEMMA EmptyAgrees ==
    ASSUME NEW list
    PROVE  Agrees([key \in Keys |-> <<>>], list, 0)
<1>1. 1..0 = {}
  OBVIOUS
<1> QED
  BY <1>1 DEF Agrees

(* Steps of a load outside the preprocessor that leave the database alone.   *)
LEMMA WalkInv ==
    ASSUME LoadingInv,
           \/ \E walk \in Walks, includes \in BOOLEAN : Load(walk, includes)
           \/ OpenFile \/ LexError \/ EndWalk \/ Parse \/ ParseError \/ ParseForever
           \/ EvaluateNode \/ EvaluateForever \/ EndEvaluate \/ EndRegister
    PROVE  LoadingInv'
<1>1. IndexAgrees' /\ Looping'
  <2>1. UNCHANGED db
    BY DEF Load, OpenFile, LexError, EndWalk, Parse, ParseError, ParseForever,
           EvaluateNode, EvaluateForever, EndEvaluate, AtEnd,
           EndRegister, outside
  <2>2. pc # "rebuild" /\ pc' # "rebuild" /\ pc' # "sift"
    BY DEF Load, OpenFile, LexError, EndWalk, Parse, ParseError, ParseForever,
           EvaluateNode, EvaluateForever, EndEvaluate, AtEnd,
           EndRegister, Called, Fail
  <2> QED
    BY <2>1, <2>2, DatabaseStays
<1>2. AtFile'
  BY DEF Load, OpenFile, LexError, EndWalk, Parse, ParseError, ParseForever,
           EvaluateNode, EvaluateForever, EndEvaluate, AtEnd,
         EndRegister, Called, Fail, LoadingInv, AtFile
<1>3. ConditionalsNest'
  <2>1. CASE OpenFile
    <3>1. DOMAIN ifStack' = {1}
      BY <2>1 DEF OpenFile
    <3>2. \A i, j \in {1} : ~(i < j)
      OBVIOUS
    <3> QED
      BY <3>1, <3>2 DEF ConditionalsNest
  <2>2. CASE ~OpenFile
    <3>1. UNCHANGED ifStack
      BY <2>2 DEF Load, LexError, EndWalk, Parse, ParseError, ParseForever,
           EvaluateNode, EvaluateForever, EndEvaluate, AtEnd,
                  EndRegister, preprocessor
    <3> QED
      BY <3>1 DEF LoadingInv, ConditionalsNest
  <2> QED
    BY <2>1, <2>2
<1>4. TypeOK
  BY DEF LoadingInv
<1>5. TypeOK'
  <2>1. ASSUME NEW walk \in Walks, NEW includes \in BOOLEAN, Load(walk, includes)
        PROVE  TypeOK'
    <3>1. walk \in Seq(DOMAIN files)
      BY <1>4, WalksAssumption DEF TypeOK
    <3>2. calls' \in 0..MaxCalls
      BY <1>4, <2>1, MaxCallsAssumption DEF TypeOK, Load, Called
    <3> QED
      BY <1>4, <2>1, <3>1, <3>2 DEF TypeOK, Load, preprocessor, db
  <2>2. CASE OpenFile
    <3>1. queue \in Seq(DOMAIN files) /\ queue # <<>>
      BY <1>4, <2>2 DEF TypeOK, OpenFile
    <3>2. Head(queue) \in DOMAIN files
      BY <3>1, HeadTailProperties
    <3>3. source' \in Seq(Token)
      BY <2>2, <3>2, FileTyped DEF OpenFile
    <3>4. Len(source') \in Nat
      BY <3>3, LenProperties
    <3>5. pos' \in 1..Len(source') + 1
      BY <2>2, <3>4 DEF OpenFile
    <3>6. /\ <<TRUE>> \in Seq(BOOLEAN) /\ <<TRUE>> # <<>> /\ DOMAIN <<>> = {}
          /\ <<>> \in Seq(Token)
      BY EmptySeq
    <3> QED
      BY <1>4, <2>2, <3>3, <3>5, <3>6 DEF TypeOK, OpenFile, db
  <2>3. CASE LexError \/ EndWalk \/ ParseError \/ ParseForever \/ EvaluateForever \/ EndRegister
    <3>1. <<>> \in Seq(DOMAIN files)
      BY EmptySeq
    <3> QED
      BY <1>4, <2>3, <3>1
         DEF TypeOK, LexError, EndWalk, ParseError, ParseForever, EvaluateForever, EndRegister, Fail, preprocessor, db, outside
  <2>4. CASE Parse
    <3>1. <<>> \in Seq(Pattern)
      BY EmptySeq
    <3> QED
      BY <1>4, <2>4, <3>1 DEF TypeOK, Parse, preprocessor, db
  <2>5. CASE EvaluateNode
    <3>1. output \in Seq(Token) /\ compiled \in Seq(Pattern) /\ next \in Nat
      BY <1>4 DEF TypeOK
    <3>2. output[next] \in Token
      BY <2>5, <3>1, LenProperties, ElementOfSeq DEF EvaluateNode
    <3>3. output[next].kind = "pattern" => evalPattern(output[next]) \in Pattern
      BY <3>2, TokenFields, CompiledType
    <3>4. compiled' \in Seq(Pattern)
      BY <2>5, <3>1, <3>3, AppendProperties DEF EvaluateNode
    <3>5. next' \in Nat
      BY <2>5, <3>1 DEF EvaluateNode
    <3> QED
      BY <1>4, <2>5, <3>4, <3>5 DEF TypeOK, EvaluateNode, preprocessor, db
  <2>6. CASE EndEvaluate
    <3>1. queue \in Seq(DOMAIN files) /\ queue # <<>>
      BY <1>4, <2>6 DEF TypeOK, EndEvaluate, LoadingInv, AtFile
    <3>2. Tail(queue) \in Seq(DOMAIN files)
      BY <3>1, HeadTailProperties
    <3> QED
      BY <1>4, <2>6, <3>2 DEF TypeOK, EndEvaluate, preprocessor, db
  <2> QED
    BY <2>1, <2>2, <2>3, <2>4, <2>5, <2>6
<1> QED
  BY <1>1, <1>2, <1>3, <1>5 DEF LoadingInv

-----------------------------------------------------------------------------
(* What the steps that change the database leave alone.                      *)
Elsewhere == <<files, queue, resolver, preprocessor>>

(* A step outside the files changes nothing about them.                    *)
LEMMA ElsewhereStays ==
    ASSUME LoadingInv, UNCHANGED Elsewhere, calls' \in 0..MaxCalls,
           pc' \in {"ready", "register", "sift", "rebuild"},
           compiled' \in Seq(Pattern), patterns' \in Seq(Pattern), kept' \in Seq(Pattern),
           byOpcode' \in [Keys -> Seq(Pattern)], next' \in Nat
    PROVE  TypeOK' /\ ConditionalsNest' /\ AtFile'
BY DEF LoadingInv, TypeOK, ConditionalsNest, AtFile, Elsewhere, preprocessor

(* A pattern is stored and indexed.                                        *)
LEMMA RegisterInv == LoadingInv /\ Register => LoadingInv'
<1> SUFFICES ASSUME LoadingInv, Register PROVE LoadingInv'
  OBVIOUS
<1> DEFINE p == Head(compiled)
<1>1. /\ compiled \in Seq(Pattern) /\ compiled # <<>> /\ patterns \in Seq(Pattern)
      /\ byOpcode \in [Keys -> Seq(Pattern)] /\ next \in Nat /\ kept \in Seq(Pattern)
      /\ calls \in 0..MaxCalls
  BY DEF LoadingInv, TypeOK, Register
<1>2. p \in Pattern /\ Tail(compiled) \in Seq(Pattern)
  BY <1>1, HeadTailProperties
<1>3. /\ patterns' = Append(patterns, p) /\ byOpcode' = Indexed(byOpcode, p)
      /\ compiled' = Tail(compiled) /\ pc = "register" /\ pc' = pc /\ calls' = calls
      /\ kept' = kept /\ next' = next /\ UNCHANGED Elsewhere
  BY DEF Register, Elsewhere, preprocessor
<1> HIDE DEF p
<1>4. /\ patterns' \in Seq(Pattern) /\ Len(patterns) \in Nat
      /\ Len(patterns') = Len(patterns) + 1
      /\ \A i \in 1..Len(patterns) : patterns'[i] = patterns[i]
      /\ patterns'[Len(patterns) + 1] = p
  BY <1>1, <1>2, <1>3, AppendProperties, LenProperties
<1>5. byOpcode' \in [Keys -> Seq(Pattern)]
  BY <1>1, <1>2, <1>3, IndexedPattern
<1>6. TypeOK' /\ ConditionalsNest' /\ AtFile'
  BY <1>1, <1>2, <1>3, <1>4, <1>5, ElsewhereStays
<1>7. Agrees(byOpcode, patterns, Len(patterns))
  BY <1>3, IndexIs DEF LoadingInv, Seen
<1>8. Agrees(byOpcode, patterns', Len(patterns))
  BY <1>4, <1>7, SameAgrees
<1>9. Agrees(byOpcode', patterns', Len(patterns) + 1)
  BY <1>1, <1>2, <1>3, <1>4, <1>8, EnteringAgrees
<1>10. IndexAgrees'
  <2>1. Seen' = Len(patterns) + 1
    BY <1>3, <1>4 DEF Seen
  <2> QED
    BY <1>9, <2>1 DEF IndexAgrees, Agrees
<1>11. Looping'
  BY <1>3 DEF Looping
<1> QED
  BY <1>6, <1>10, <1>11 DEF LoadingInv

(* Deregistration begins to rebuild the index from nothing.                  *)
LEMMA RebuildBegins ==
    ASSUME LoadingInv, UNCHANGED Elsewhere, Rebuild, calls' \in 0..MaxCalls,
           UNCHANGED <<compiled, kept>>, patterns' \in Seq(Pattern)
    PROVE  LoadingInv'
<1>1. pc' = "rebuild" /\ next' = 1 /\ byOpcode' = [key \in Keys |-> <<>>]
  BY DEF Rebuild
<1>2. byOpcode' \in [Keys -> Seq(Pattern)]
  <2>1. <<>> \in Seq(Pattern)
    BY EmptySeq
  <2> QED
    BY <1>1, <2>1
<1>3. TypeOK' /\ ConditionalsNest' /\ AtFile'
  <2>1. compiled' \in Seq(Pattern) /\ kept' \in Seq(Pattern) /\ next' \in Nat
    BY <1>1 DEF LoadingInv, TypeOK
  <2> QED
    BY <1>1, <1>2, <2>1, ElsewhereStays
<1>4. IndexAgrees'
  <2>1. Seen' = 0
    BY <1>1 DEF Seen
  <2>2. Agrees(byOpcode', patterns', 0)
    BY <1>1, EmptyAgrees
  <2> QED
    BY <2>1, <2>2 DEF IndexAgrees, Agrees
<1>5. Looping'
  <2>1. Len(patterns') \in Nat
    BY LenProperties
  <2> QED
    BY <1>1, <2>1 DEF Looping
<1> QED
  BY <1>3, <1>4, <1>5 DEF LoadingInv

(* A pattern is to be taken out of the list.                               *)
LEMMA DeregisterInv ==
    ASSUME LoadingInv, NEW name \in Names, Deregister(name) PROVE LoadingInv'
<1>1. PICK i \in DOMAIN patterns : patterns' = RemoveAt(patterns, i)
  BY DEF Deregister
<1>2. patterns \in Seq(Pattern) /\ calls' \in 0..MaxCalls
  BY MaxCallsAssumption DEF LoadingInv, TypeOK, Deregister, Called
<1>3. i \in 1..Len(patterns) /\ Len(patterns) \in Nat
  BY <1>2, LenProperties
<1>4. /\ SubSeq(patterns, 1, i - 1) \in Seq(Pattern)
      /\ SubSeq(patterns, i + 1, Len(patterns)) \in Seq(Pattern)
  BY <1>2, <1>3, SubSeqProperties, ElementOfSeq
<1>5. patterns' \in Seq(Pattern)
  BY <1>1, <1>4, ConcatProperties DEF RemoveAt
<1> QED
  BY <1>2, <1>5, RebuildBegins DEF Deregister, Elsewhere, preprocessor

(* All patterns of a library are to be taken out of the list.              *)
LEMMA DeregisterLibraryInv ==
    ASSUME LoadingInv, NEW library \in Libraries, DeregisterLibrary(library) PROVE LoadingInv'
<1>1. /\ pc = "ready" /\ pc' = "sift" /\ next' = 1 /\ kept' = <<>>
      /\ UNCHANGED <<patterns, byOpcode, compiled>> /\ UNCHANGED Elsewhere
  BY DEF DeregisterLibrary, Called, Elsewhere, preprocessor
<1>2. calls' \in 0..MaxCalls
  BY MaxCallsAssumption DEF LoadingInv, TypeOK, DeregisterLibrary, Called
<1>3. TypeOK' /\ ConditionalsNest' /\ AtFile'
  <2>1. /\ kept' \in Seq(Pattern) /\ next' \in Nat /\ compiled' \in Seq(Pattern)
        /\ patterns' \in Seq(Pattern) /\ byOpcode' \in [Keys -> Seq(Pattern)]
    BY <1>1, EmptySeq DEF LoadingInv, TypeOK
  <2> QED
    BY <1>1, <1>2, <2>1, ElsewhereStays
<1>4. IndexAgrees'
  <2>1. Seen' = Seen
    BY <1>1 DEF Seen
  <2> QED
    BY <1>1, <2>1, IndexStays DEF LoadingInv
<1>5. Looping'
  <2>1. Len(patterns) \in Nat
    BY LenProperties DEF LoadingInv, TypeOK
  <2> QED
    BY <1>1, <2>1 DEF Looping
<1> QED
  BY <1>3, <1>4, <1>5 DEF LoadingInv

(* The patterns that stay are kept, in their order.                        *)
LEMMA SiftInv == LoadingInv /\ (Sift \/ EndSift) => LoadingInv'
<1> SUFFICES ASSUME LoadingInv, Sift \/ EndSift PROVE LoadingInv'
  OBVIOUS
<1>1. /\ pc = "sift" /\ UNCHANGED Elsewhere /\ calls' \in 0..MaxCalls
      /\ UNCHANGED compiled
  BY DEF Sift, EndSift, Elsewhere, preprocessor, LoadingInv, TypeOK
<1>2. /\ patterns \in Seq(Pattern) /\ kept \in Seq(Pattern) /\ compiled \in Seq(Pattern)
      /\ byOpcode \in [Keys -> Seq(Pattern)] /\ next \in Nat
  BY DEF LoadingInv, TypeOK
<1>3. CASE EndSift
  BY <1>1, <1>2, <1>3, RebuildBegins DEF EndSift
<1>4. CASE Sift
  <2>1. /\ next \in DOMAIN patterns /\ UNCHANGED <<pc, patterns, byOpcode>>
        /\ next' = next + 1
    BY <1>4 DEF Sift
  <2>2. next \in 1..Len(patterns) /\ Len(patterns) \in Nat /\ patterns[next] \in Pattern
    BY <1>2, <2>1, LenProperties, ElementOfSeq
  <2>3. kept' \in Seq(Pattern)
    BY <1>2, <1>4, <2>2, AppendProperties DEF Sift
  <2>4. TypeOK' /\ ConditionalsNest' /\ AtFile'
    BY <1>1, <1>2, <2>1, <2>2, <2>3, ElsewhereStays
  <2>5. IndexAgrees'
    <3>1. Seen' = Seen
      BY <1>1, <2>1 DEF Seen
    <3> QED
      BY <2>1, <3>1, IndexStays DEF LoadingInv
  <2>6. Looping'
    BY <2>1, <2>2 DEF Looping
  <2> QED
    BY <2>4, <2>5, <2>6 DEF LoadingInv
<1> QED
  BY <1>3, <1>4

(* The index is built again from the patterns that stayed.                 *)
LEMMA RebuildInv == LoadingInv /\ (RebuildIndex \/ EndRebuild) => LoadingInv'
<1> SUFFICES ASSUME LoadingInv, RebuildIndex \/ EndRebuild PROVE LoadingInv'
  OBVIOUS
<1>1. /\ pc = "rebuild" /\ UNCHANGED Elsewhere /\ calls' \in 0..MaxCalls
      /\ UNCHANGED <<compiled, patterns, kept>>
  BY DEF RebuildIndex, EndRebuild, Elsewhere, preprocessor, db, LoadingInv, TypeOK
<1>2. /\ patterns \in Seq(Pattern) /\ kept \in Seq(Pattern) /\ compiled \in Seq(Pattern)
      /\ byOpcode \in [Keys -> Seq(Pattern)] /\ next \in Nat
  BY DEF LoadingInv, TypeOK
<1>3. /\ next \in 1..Len(patterns) + 1 /\ Len(patterns) \in Nat
      /\ DOMAIN patterns = 1..Len(patterns)
  BY <1>1, <1>2, LenProperties DEF LoadingInv, Looping
<1>4. Agrees(byOpcode, patterns, next - 1)
  BY <1>1, IndexIs DEF LoadingInv, Seen
<1>5. CASE RebuildIndex
  <2>1. /\ next \in 1..Len(patterns) /\ pc' = pc /\ next' = next + 1
        /\ byOpcode' = Indexed(byOpcode, patterns[next])
    BY <1>3, <1>5 DEF RebuildIndex
  <2>2. patterns[next] \in Pattern /\ next - 1 \in Nat /\ next = (next - 1) + 1
    BY <1>2, <1>3, <2>1, ElementOfSeq
  <2>3. byOpcode' \in [Keys -> Seq(Pattern)]
    BY <1>2, <2>1, <2>2, IndexedPattern
  <2>4. TypeOK' /\ ConditionalsNest' /\ AtFile'
    BY <1>1, <1>2, <2>1, <2>3, ElsewhereStays
  <2>5. Agrees(byOpcode', patterns, next)
    BY <1>2, <1>4, <2>1, <2>2, EnteringAgrees
  <2>6. IndexAgrees'
    <3>1. Seen' = next
      BY <1>1, <2>1, <2>2 DEF Seen
    <3> QED
      BY <1>1, <2>5, <3>1 DEF IndexAgrees, Agrees
  <2>7. Looping'
    BY <1>1, <1>3, <2>1 DEF Looping
  <2> QED
    BY <2>4, <2>6, <2>7 DEF LoadingInv
<1>6. CASE EndRebuild
  <2>1. /\ next = Len(patterns) + 1 /\ pc' = "ready" /\ UNCHANGED <<byOpcode, next>>
    BY <1>3, <1>6 DEF EndRebuild, db
  <2>2. TypeOK' /\ ConditionalsNest' /\ AtFile'
    BY <1>1, <1>2, <2>1, ElsewhereStays
  <2>3. IndexAgrees'
    <3>1. Seen' = Len(patterns) /\ next - 1 = Len(patterns)
      BY <1>1, <1>3, <2>1 DEF Seen
    <3>2. Agrees(byOpcode, patterns, Len(patterns))
      BY <1>4, <3>1
    <3>3. Agrees(byOpcode', patterns', Seen')
      BY <1>1, <2>1, <3>1, <3>2
    <3> QED
      BY <3>3 DEF IndexAgrees, Agrees
  <2>4. Looping'
    BY <2>1 DEF Looping
  <2> QED
    BY <2>2, <2>3, <2>4 DEF LoadingInv
<1> QED
  BY <1>5, <1>6

-----------------------------------------------------------------------------
(* The inductive invariant of the pattern database and its loaders.          *)
THEOREM LoadingInvariant == Spec => []LoadingInv
<1>1. Init => LoadingInv
  BY InitInv
<1>2. LoadingInv /\ [Next]_vars => LoadingInv'
  <2> SUFFICES ASSUME LoadingInv, [Next]_vars PROVE LoadingInv'
    OBVIOUS
  <2>1. CASE LoadStep
    BY <2>1, IncludeInv, MacroInv, ConditionalInv, TokenInv, WalkInv, RegisterInv, SiftInv,
       RebuildInv DEF LoadStep
  <2>2. CASE Call
    BY <2>2, WalkInv, DeregisterInv, DeregisterLibraryInv DEF Call
  <2>3. CASE Ended \/ UNCHANGED vars
    <3>1. UNCHANGED vars
      BY <2>3 DEF Ended
    <3>2. UNCHANGED Elsewhere
      BY <3>1 DEF vars, Elsewhere
    <3>3. UNCHANGED <<calls, pc, compiled, patterns, byOpcode, kept, next>>
      BY <3>1 DEF vars, db
    <3>4. Seen' = Seen
      BY <3>3 DEF Seen
    <3>5. IndexAgrees'
      BY <3>3, <3>4, IndexStays DEF LoadingInv
    <3>6. TypeOK' /\ ConditionalsNest'
      BY <3>2, <3>3 DEF LoadingInv, TypeOK, ConditionalsNest, Elsewhere, preprocessor
    <3>7. Looping' /\ AtFile'
      BY <3>2, <3>3 DEF LoadingInv, Looping, AtFile, Elsewhere
    <3> QED
      BY <3>5, <3>6, <3>7 DEF LoadingInv
  <2> QED
    BY <2>1, <2>2, <2>3 DEF Next
<1> QED
  BY <1>1, <1>2, PTL DEF Spec

(* Type correctness: in particular the preprocessor never takes the top of   *)
(* an empty stack of conditionals (preprocessor.go:58).                      *)
THEOREM LoadingTypeOK == Spec => []TypeOK
<1>1. LoadingInv => TypeOK
  BY DEF LoadingInv
<1> QED
  BY <1>1, LoadingInvariant, PTL

(* In every file, however its conditionals and includes are put together,    *)
(* what is inside a conditional that does not hold does not hold.            *)
THEOREM LoadingConditionalsNest == Spec => []ConditionalsNest
<1>1. LoadingInv => ConditionalsNest
  BY DEF LoadingInv
<1> QED
  BY <1>1, LoadingInvariant, PTL

(* For every sequence of loads and deregistrations, also those that end with *)
(* an error, the index by opcode agrees with the list of patterns.           *)
THEOREM LoadingIndexAgrees == Spec => []IndexAgrees
<1>1. LoadingInv => IndexAgrees
  BY DEF LoadingInv
<1> QED
  BY <1>1, LoadingInvariant, PTL

-----------------------------------------------------------------------------
(* Induction over numbers, and subsequences.                                 *)

(* A set of numbers that is not empty has a least one.                       *)
LEMMA LeastOf ==
    ASSUME NEW U, U \subseteq Nat, U # {}
    PROVE  \E u \in U : \A v \in U : u <= v
<1> DEFINE R == {ss \in Nat \X Nat : ss[1] < ss[2]}
<1>1. IsWellFoundedOn(R, Nat)
  BY NatLessThanWellFounded DEF OpToRel
<1>2. \E u \in U : \A v \in U : ~(<<v, u>> \in R)
  <2> HIDE DEF R
  <2> QED
    BY <1>1, WFMin, Zenon
<1>3. PICK u \in U : \A v \in U : ~(<<v, u>> \in R)
  BY <1>2
<1>4. \A v \in U : ~(v < u)
  <2> SUFFICES ASSUME NEW v \in U, v < u PROVE FALSE
    OBVIOUS
  <2>1. v \in Nat /\ u \in Nat
    OBVIOUS
  <2>2. <<v, u>> \in R
    BY <2>1
  <2> QED
    BY <1>3, <2>2
<1> QED
  BY <1>4

(* A set that has 0, and with a number the next, has every number: the way   *)
(* the proofs below do induction.                                            *)
LEMMA SetInduction ==
    ASSUME NEW U, 0 \in U, \A n \in Nat : n \in U => n + 1 \in U
    PROVE  Nat \subseteq U
<1> SUFFICES ASSUME Nat \ U # {} PROVE FALSE
  OBVIOUS
<1>1. PICK u \in Nat \ U : \A v \in Nat \ U : u <= v
  BY LeastOf
<1>2. u # 0 /\ u - 1 \in Nat /\ u - 1 \in U
  BY <1>1
<1> QED
  BY <1>1, <1>2

-----------------------------------------------------------------------------
(* A subsequence is gathered place by place.                                 *)
Gathers(run, s, places) ==
    /\ run[0] = <<>>
    /\ \A k \in 1..Len(s) :
         run[k] = IF k \in places THEN Append(run[k-1], s[k]) ELSE run[k-1]
    /\ Subsequence(s, places) = run[Len(s)]

(* There is such a run for every sequence and all places.                    *)
LEMMA SubsequenceUnrolled ==
    ASSUME NEW s, Len(s) \in Nat, NEW places
    PROVE  \E run : Gathers(run, s, places)
<1> DEFINE step(old, k) == IF k \in places THEN Append(old, s[k]) ELSE old
           IsRun(f, n) == f = [k \in 0..n |-> IF k = 0 THEN <<>> ELSE step(f[k-1], k)]
           U == {n \in Nat : \E f : IsRun(f, n)}
           last == Len(s)
           run == CHOOSE f : IsRun(f, last)
<1>1. Subsequence(s, places) = run[last]
  BY DEF Subsequence
<1>2. 0 \in U
  <2> DEFINE f == [k \in 0..0 |-> <<>>]
  <2>1. IsRun(f, 0)
    OBVIOUS
  <2> HIDE DEF IsRun, f
  <2> QED
    BY <2>1
<1>3. ASSUME NEW n \in Nat, n \in U PROVE n + 1 \in U
  <2>1. PICK f : IsRun(f, n)
    BY <1>3
  <2> DEFINE g == [k \in 0..n+1 |-> IF k = n + 1 THEN step(f[n], n + 1) ELSE f[k]]
  <2>2. IsRun(g, n + 1)
    <3> HIDE DEF step
    <3> QED
      BY <2>1
  <2> HIDE DEF IsRun, g
  <2> QED
    BY <2>2
<1>4. last \in U
  <2> HIDE DEF U
  <2>1. Nat \subseteq U
    BY <1>2, <1>3, SetInduction
  <2> QED
    BY <2>1
<1>5. IsRun(run, last)
  <2> HIDE DEF IsRun
  <2> QED
    BY <1>4, Zenon
<1>6. \A k \in 0..last : run[k] = IF k = 0 THEN <<>> ELSE step(run[k-1], k)
  <2> HIDE DEF run, step
  <2> QED
    BY <1>5
<1> HIDE DEF run
<1>7. run[0] = <<>> /\ \A k \in 1..last : run[k] = step(run[k-1], k)
  <2> HIDE DEF step
  <2> QED
    BY <1>6
<1>8. Gathers(run, s, places)
  BY <1>1, <1>7 DEF Gathers
<1> QED
  BY <1>8

(* Nothing is gathered of nothing.                                           *)
LEMMA SubsequenceOfNone ==
    ASSUME NEW s, Len(s) = 0, NEW places
    PROVE  Subsequence(s, places) = <<>>
<1>0. Len(s) \in Nat
  OBVIOUS
<1>1. PICK run : Gathers(run, s, places)
  BY <1>0, SubsequenceUnrolled
<1> QED
  BY <1>1 DEF Gathers

(* What is gathered is from the sequence.                                    *)
LEMMA SubsequenceTyped ==
    ASSUME NEW S, NEW s \in Seq(S), NEW places
    PROVE  /\ Subsequence(s, places) \in Seq(S)
           /\ \A e \in Range(Subsequence(s, places)) :
                \E k \in DOMAIN s : k \in places /\ s[k] = e
<1> DEFINE T == {s[k] : k \in DOMAIN s \cap places}
<1>0. Len(s) \in Nat /\ DOMAIN s = 1..Len(s) /\ \A k \in DOMAIN s : s[k] \in S
  BY LenProperties, ElementOfSeq
<1>1. PICK run : Gathers(run, s, places)
  BY <1>0, SubsequenceUnrolled
<1> DEFINE U == {n \in Nat : n <= Len(s) => run[n] \in Seq(T)}
<1>2. 0 \in U
  BY <1>1, EmptySeq DEF Gathers
<1>3. ASSUME NEW n \in Nat, n \in U PROVE n + 1 \in U
  <2> SUFFICES ASSUME n + 1 <= Len(s) PROVE run[n+1] \in Seq(T)
    OBVIOUS
  <2>1. run[n] \in Seq(T) /\ n + 1 \in 1..Len(s) /\ (n + 1) - 1 = n
    BY <1>0, <1>3
  <2>2. run[n+1] = IF n + 1 \in places THEN Append(run[n], s[n+1]) ELSE run[n]
    BY <1>1, <2>1 DEF Gathers
  <2>3. CASE n + 1 \in places
    <3>1. s[n+1] \in T
      BY <1>0, <2>1, <2>3
    <3> HIDE DEF T
    <3> QED
      BY <2>1, <2>2, <2>3, <3>1, AppendProperties
  <2> QED
    BY <2>1, <2>2, <2>3
<1>4. Len(s) \in U
  <2> HIDE DEF U
  <2>1. Nat \subseteq U
    BY <1>2, <1>3, SetInduction
  <2> QED
    BY <1>0, <2>1
<1>5. Subsequence(s, places) \in Seq(T)
  BY <1>0, <1>1, <1>4 DEF Gathers
<1>6. T \subseteq S
  BY <1>0
<1>7. Subsequence(s, places) \in Seq(S)
  <2> HIDE DEF T
  <2> QED
    BY <1>5, <1>6, SeqMonotonic
<1>8. \A e \in Range(Subsequence(s, places)) : e \in T
  <2> HIDE DEF T
  <2> QED
    BY <1>5, RangeOfSeq
<1> QED
  BY <1>7, <1>8

(* One more place extends a subsequence by what is there, if it is wanted.   *)
LEMMA SubsequenceStep ==
    ASSUME NEW s, NEW t, Len(s) \in Nat, Len(t) = Len(s) + 1, NEW places, NEW wanted,
           \A k \in 1..Len(s) : t[k] = s[k] /\ (k \in wanted <=> k \in places)
    PROVE  Subsequence(t, wanted) = IF Len(t) \in wanted
                                    THEN Append(Subsequence(s, places), t[Len(t)])
                                    ELSE Subsequence(s, places)
<1>1. PICK f : Gathers(f, s, places)
  BY SubsequenceUnrolled
<1>0. Len(t) \in Nat
  OBVIOUS
<1>2. PICK g : Gathers(g, t, wanted)
  BY <1>0, SubsequenceUnrolled
<1> DEFINE U == {n \in Nat : n <= Len(s) => g[n] = f[n]}
<1>3. 0 \in U
  BY <1>1, <1>2 DEF Gathers
<1>4. ASSUME NEW n \in Nat, n \in U PROVE n + 1 \in U
  <2> SUFFICES ASSUME n + 1 <= Len(s) PROVE g[n+1] = f[n+1]
    OBVIOUS
  <2>1. g[n] = f[n] /\ n + 1 \in 1..Len(s) /\ n + 1 \in 1..Len(t) /\ (n + 1) - 1 = n
    BY <1>4
  <2>2. f[n+1] = IF n + 1 \in places THEN Append(f[n], s[n+1]) ELSE f[n]
    BY <1>1, <2>1 DEF Gathers
  <2>3. g[n+1] = IF n + 1 \in wanted THEN Append(g[n], t[n+1]) ELSE g[n]
    BY <1>2, <2>1 DEF Gathers
  <2> QED
    BY <2>1, <2>2, <2>3
<1>5. Len(s) \in U
  <2> HIDE DEF U
  <2>1. Nat \subseteq U
    BY <1>3, <1>4, SetInduction
  <2> QED
    BY <2>1
<1>6. g[Len(s)] = Subsequence(s, places)
  BY <1>1, <1>5 DEF Gathers
<1>7. Len(t) \in 1..Len(t) /\ Len(t) - 1 = Len(s)
  OBVIOUS
<1>8. g[Len(t)] = IF Len(t) \in wanted THEN Append(g[Len(s)], t[Len(t)]) ELSE g[Len(s)]
  BY <1>2, <1>7 DEF Gathers
<1> QED
  BY <1>2, <1>6, <1>8 DEF Gathers

(* A subsequence of all places is the sequence.                              *)
LEMMA SubsequenceOfAll ==
    ASSUME NEW S, NEW s \in Seq(S), NEW places, DOMAIN s \subseteq places
    PROVE  Subsequence(s, places) = s
<1>0. Len(s) \in Nat /\ DOMAIN s = 1..Len(s) /\ \A k \in DOMAIN s : s[k] \in S
  BY LenProperties, ElementOfSeq
<1>1. PICK run : Gathers(run, s, places)
  BY <1>0, SubsequenceUnrolled
<1> DEFINE U == {n \in Nat : n <= Len(s) =>
                   /\ run[n] \in Seq(S) /\ Len(run[n]) = n
                   /\ \A k \in 1..n : run[n][k] = s[k]}
<1>2. 0 \in U
  <2>1. run[0] = <<>>
    BY <1>1 DEF Gathers
  <2>2. \A k \in 1..0 : run[0][k] = s[k]
    OBVIOUS
  <2> QED
    BY <2>1, <2>2, EmptySeq
<1>3. ASSUME NEW n \in Nat, n \in U PROVE n + 1 \in U
  <2> SUFFICES ASSUME n + 1 <= Len(s)
               PROVE  /\ run[n+1] \in Seq(S) /\ Len(run[n+1]) = n + 1
                      /\ \A k \in 1..n+1 : run[n+1][k] = s[k]
    OBVIOUS
  <2>1. /\ run[n] \in Seq(S) /\ Len(run[n]) = n /\ n + 1 \in 1..Len(s) /\ (n + 1) - 1 = n
        /\ \A k \in 1..n : run[n][k] = s[k]
    BY <1>0, <1>3
  <2>2. run[n+1] = Append(run[n], s[n+1])
    BY <1>0, <1>1, <2>1 DEF Gathers
  <2>3. s[n+1] \in S
    BY <1>0, <2>1
  <2> QED
    BY <2>1, <2>2, <2>3, AppendProperties
<1>4. Len(s) \in U
  <2> HIDE DEF U
  <2>1. Nat \subseteq U
    BY <1>2, <1>3, SetInduction
  <2> QED
    BY <1>0, <2>1
<1>5. /\ run[Len(s)] \in Seq(S) /\ Len(run[Len(s)]) = Len(s)
      /\ \A k \in 1..Len(s) : run[Len(s)][k] = s[k]
  BY <1>0, <1>4
<1>6. run[Len(s)] = s
  BY <1>5, SeqEqual
<1> QED
  BY <1>1, <1>6 DEF Gathers

-----------------------------------------------------------------------------
(* Leaving out kinds of tokens, and sequences laid end to end.               *)

(* The places of a sequence that has one more token.                         *)
LEMMA WithoutStep ==
    ASSUME NEW t \in Seq(Token), NEW tok \in Token, NEW kinds
    PROVE  Without(Append(t, tok), kinds) = IF tok.kind \in kinds THEN Without(t, kinds)
                                            ELSE Append(Without(t, kinds), tok)
<1> DEFINE u == Append(t, tok)
<1>1. /\ Len(t) \in Nat /\ DOMAIN t = 1..Len(t)
      /\ u \in Seq(Token) /\ Len(u) = Len(t) + 1 /\ DOMAIN u = 1..Len(u)
      /\ \A k \in 1..Len(t) : u[k] = t[k]
      /\ u[Len(u)] = tok
  BY AppendProperties, LenProperties
<1> HIDE DEF u
<1>2. \A k \in 1..Len(t) : u[k] = t[k] /\ (k \in DOMAIN u \ Places(u, kinds)
                                             <=> k \in DOMAIN t \ Places(t, kinds))
  BY <1>1 DEF Places
<1>3. Len(u) \in DOMAIN u \ Places(u, kinds) <=> tok.kind \notin kinds
  BY <1>1 DEF Places
<1>4. Without(u, kinds) = IF Len(u) \in DOMAIN u \ Places(u, kinds)
                          THEN Append(Without(t, kinds), u[Len(u)]) ELSE Without(t, kinds)
  BY <1>1, <1>2, SubsequenceStep DEF Without
<1> QED
  BY <1>1, <1>3, <1>4 DEF u

(* Without some kinds, none of them is left.                                 *)
LEMMA WithoutTyped ==
    ASSUME NEW t \in Seq(Token), NEW kinds
    PROVE  /\ Without(t, kinds) \in Seq(Token)
           /\ \A k \in DOMAIN Without(t, kinds) : Without(t, kinds)[k].kind \notin kinds
<1>1. /\ Without(t, kinds) \in Seq(Token)
      /\ \A e \in Range(Without(t, kinds)) :
           \E k \in DOMAIN t : k \in DOMAIN t \ Places(t, kinds) /\ t[k] = e
  BY SubsequenceTyped DEF Without
<1>2. \A k \in DOMAIN Without(t, kinds) : Without(t, kinds)[k] \in Range(Without(t, kinds))
  BY DEF Range
<1> QED
  BY <1>1, <1>2 DEF Places

(* There is nothing to leave out of an empty file.                           *)
LEMMA WithoutNone ==
    ASSUME NEW kinds
    PROVE  Without(<<>>, kinds) = <<>>
BY SubsequenceOfNone, EmptySeq DEF Without

(* A token alone.                                                            *)
LEMMA WithoutOne ==
    ASSUME NEW tok \in Token, NEW kinds
    PROVE  Without(<<tok>>, kinds) = IF tok.kind \in kinds THEN <<>> ELSE <<tok>>
<1>1. <<>> \in Seq(Token) /\ Append(<<>>, tok) = <<tok>>
  BY EmptySeq
<1>2. Without(Append(<<>>, tok), kinds) = IF tok.kind \in kinds THEN Without(<<>>, kinds)
                                          ELSE Append(Without(<<>>, kinds), tok)
  BY <1>1, WithoutStep
<1> QED
  BY <1>1, <1>2, WithoutNone

(* Three sequences of tokens, end to end.                                    *)
LEMMA TokensAssociative ==
    ASSUME NEW a \in Seq(Token), NEW b \in Seq(Token), NEW c \in Seq(Token)
    PROVE  (a \o b) \o c = a \o (b \o c)
BY ConcatAssociative

(* Appending to the second of two sequences appends to both.                 *)
LEMMA AppendBehind ==
    ASSUME NEW a \in Seq(Token), NEW b \in Seq(Token), NEW tok \in Token
    PROVE  Append(a \o b, tok) = a \o Append(b, tok)
<1> DEFINE last == <<tok>>
           ab == a \o b
<1>1. last \in Seq(Token) /\ ab \in Seq(Token)
  BY ConcatProperties
<1>2. Append(ab, tok) = ab \o last /\ Append(b, tok) = b \o last
  BY <1>1, AppendIsConcat
<1>3. ab \o last = a \o (b \o last)
  <2> HIDE DEF last
  <2> QED
    BY <1>1, TokensAssociative
<1> QED
  BY <1>2, <1>3

(* Leaving out goes through a sequence part by part.                         *)
LEMMA WithoutConcat ==
    ASSUME NEW t \in Seq(Token), NEW u \in Seq(Token), NEW kinds
    PROVE  Without(t \o u, kinds) = Without(t, kinds) \o Without(u, kinds)
<1> DEFINE U == {n \in Nat : \A v \in Seq(Token) :
                   Len(v) = n => Without(t \o v, kinds) = Without(t, kinds) \o Without(v, kinds)}
<1>0. Without(t, kinds) \in Seq(Token)
  BY WithoutTyped
<1>1. 0 \in U
  <2>1. \A v \in Seq(Token) : Len(v) = 0 => v = <<>>
    BY EmptySeq
  <2>2. t \o <<>> = t /\ Without(t, kinds) \o <<>> = Without(t, kinds)
    BY <1>0, ConcatEmptySeq
  <2> QED
    BY <2>1, <2>2, WithoutNone
<1>2. ASSUME NEW n \in Nat, n \in U PROVE n + 1 \in U
  <2> SUFFICES ASSUME NEW v \in Seq(Token), Len(v) = n + 1
               PROVE  Without(t \o v, kinds) = Without(t, kinds) \o Without(v, kinds)
    OBVIOUS
  <2>1. v # <<>>
    BY EmptySeq
  <2>2. PICK w \in Seq(Token), e \in Token : v = Append(w, e)
    BY <2>1, SequenceEmptyOrAppend
  <2>3. Len(w) = n
    BY <2>2, AppendProperties, LenProperties
  <2>4. Without(t \o w, kinds) = Without(t, kinds) \o Without(w, kinds)
    BY <1>2, <2>3
  <2>5. t \o v = Append(t \o w, e) /\ t \o w \in Seq(Token)
    <3>1. t \o w \in Seq(Token)
      BY ConcatProperties
    <3>2. Append(t \o w, e) = t \o Append(w, e)
      BY AppendBehind
    <3> QED
      BY <2>2, <3>1, <3>2
  <2>6. Without(t \o v, kinds) = IF e.kind \in kinds THEN Without(t \o w, kinds)
                                 ELSE Append(Without(t \o w, kinds), e)
    <3>1. \A x \in Seq(Token) : Without(Append(x, e), kinds) =
            IF e.kind \in kinds THEN Without(x, kinds) ELSE Append(Without(x, kinds), e)
      BY WithoutStep
    <3> QED
      BY <2>5, <3>1
  <2>7. Without(v, kinds) = IF e.kind \in kinds THEN Without(w, kinds)
                            ELSE Append(Without(w, kinds), e)
    BY <2>2, WithoutStep
  <2>8. Without(w, kinds) \in Seq(Token)
    BY WithoutTyped
  <2>9. Append(Without(t, kinds) \o Without(w, kinds), e)
          = Without(t, kinds) \o Append(Without(w, kinds), e)
    <3>1. Without(t, kinds) \in Seq(Token)
      BY WithoutTyped
    <3> QED
      BY <2>8, <3>1, AppendBehind
  <2> QED
    BY <2>4, <2>6, <2>7, <2>9
<1>3. Len(u) \in Nat
  BY LenProperties
<1>4. Len(u) \in U
  <2> HIDE DEF U
  <2>1. Nat \subseteq U
    BY <1>1, <1>2, SetInduction
  <2> QED
    BY <1>3, <2>1
<1> QED
  BY <1>4

-----------------------------------------------------------------------------
(* Sequences are flattened one after the other.                              *)
Flattens(run, seqs) ==
    /\ run[0] = <<>>
    /\ \A k \in 1..Len(seqs) : run[k] = run[k-1] \o seqs[k]
    /\ FlattenSeq(seqs) = run[Len(seqs)]

(* There is such a run, of sequences of the same type.                       *)
LEMMA FlattenUnrolled ==
    ASSUME NEW S, NEW seqs \in Seq(Seq(S))
    PROVE  \E run : Flattens(run, seqs) /\ \A k \in 0..Len(seqs) : run[k] \in Seq(S)
<1> DEFINE step(old, k) == IF k = 1 THEN seqs[k] ELSE old \o seqs[k]
           IsRun(f, n) == f = [k \in 1..n |-> step(f[k-1], k)]
           U == {n \in Nat : \E f : IsRun(f, n)}
           last == Len(seqs)
           flatten == CHOOSE f : IsRun(f, last)
           run == [k \in 0..last |-> IF k = 0 THEN <<>> ELSE flatten[k]]
<1>0. last \in Nat /\ \A k \in 1..last : seqs[k] \in Seq(S)
  BY LenProperties, ElementOfSeq
<1>1. FlattenSeq(seqs) = IF last = 0 THEN seqs ELSE flatten[last]
  BY DEF FlattenSeq
<1>2. 0 \in U
  <2> DEFINE f == [k \in 1..0 |-> <<>>]
  <2>1. IsRun(f, 0)
    OBVIOUS
  <2> HIDE DEF IsRun, f
  <2> QED
    BY <2>1
<1>3. ASSUME NEW n \in Nat, n \in U PROVE n + 1 \in U
  <2>1. PICK f : IsRun(f, n)
    BY <1>3
  <2> DEFINE g == [k \in 1..n+1 |-> IF k = n + 1 THEN step(f[n], n + 1) ELSE f[k]]
  <2>2. IsRun(g, n + 1)
    <3> SUFFICES ASSUME NEW k \in 1..n+1
                 PROVE  (IF k = n + 1 THEN step(f[n], n + 1) ELSE f[k]) = step(g[k-1], k)
      OBVIOUS
    <3>1. CASE k = n + 1 /\ n # 0
      <4>1. g[n] = f[n]
        BY <3>1
      <4> QED
        BY <3>1, <4>1
    <3>2. CASE k = n + 1 /\ n = 0
      BY <3>2
    <3>3. CASE k # n + 1
      <4>1. k \in 1..n /\ f[k] = step(f[k-1], k)
        <5> HIDE DEF step
        <5> QED
          BY <2>1, <3>3
      <4>2. k = 1 \/ g[k-1] = f[k-1]
        BY <3>3
      <4> QED
        BY <3>3, <4>1, <4>2
    <3> QED
      BY <3>1, <3>2, <3>3
  <2> HIDE DEF IsRun, g
  <2> QED
    BY <2>2
<1>4. last \in U
  <2> HIDE DEF U
  <2>1. Nat \subseteq U
    BY <1>2, <1>3, SetInduction
  <2> QED
    BY <1>0, <2>1
<1>5. IsRun(flatten, last)
  <2> HIDE DEF IsRun
  <2> QED
    BY <1>4, Zenon
<1>6. \A k \in 1..last : flatten[k] = step(flatten[k-1], k)
  <2> HIDE DEF flatten, step
  <2> QED
    BY <1>5
<1> HIDE DEF flatten
<1>7. \A k \in 1..last : run[k] = run[k-1] \o seqs[k]
  <2> SUFFICES ASSUME NEW k \in 1..last PROVE run[k] = run[k-1] \o seqs[k]
    OBVIOUS
  <2>1. run[k] = flatten[k] /\ flatten[k] = step(flatten[k-1], k)
    BY <1>0, <1>6
  <2>2. CASE k = 1
    <3>1. run[k-1] = <<>> /\ run[k] = seqs[k]
      BY <1>0, <2>1, <2>2
    <3>2. <<>> \o seqs[k] = seqs[k]
      BY <1>0, ConcatEmptySeq
    <3> QED
      BY <3>1, <3>2
  <2>3. CASE k # 1
    <3>1. k - 1 \in 0..last /\ k - 1 # 0
      BY <1>0, <2>3
    <3>2. run[k-1] = flatten[k-1]
      BY <3>1
    <3> HIDE DEF run
    <3> QED
      BY <2>1, <2>3, <3>2
  <2> QED
    BY <2>2, <2>3
<1>8. run[0] = <<>>
  BY <1>0
<1>9. FlattenSeq(seqs) = run[last]
  <2>1. CASE last = 0
    BY <1>0, <1>1, <2>1, EmptySeq
  <2>2. CASE last # 0
    BY <1>0, <1>1, <2>2
  <2> QED
    BY <2>1, <2>2
<1> HIDE DEF run
<1> DEFINE V == {n \in Nat : n <= last => run[n] \in Seq(S)}
<1>10. 0 \in V
  BY <1>8, EmptySeq
<1>11. ASSUME NEW n \in Nat, n \in V PROVE n + 1 \in V
  <2> SUFFICES ASSUME n + 1 <= last PROVE run[n+1] \in Seq(S)
    OBVIOUS
  <2>1. run[n] \in Seq(S) /\ n + 1 \in 1..last /\ (n + 1) - 1 = n
    BY <1>0, <1>11
  <2>2. run[n+1] = run[n] \o seqs[n+1] /\ seqs[n+1] \in Seq(S)
    BY <1>0, <1>7, <2>1
  <2> QED
    BY <2>1, <2>2, ConcatProperties
<1>12. \A k \in 0..last : run[k] \in Seq(S)
  <2> HIDE DEF V
  <2>1. Nat \subseteq V
    BY <1>10, <1>11, SetInduction
  <2> QED
    BY <1>0, <2>1 DEF V
<1>13. Flattens(run, seqs)
  BY <1>7, <1>8, <1>9 DEF Flattens
<1> QED
  BY <1>12, <1>13

(* The elements of sequences of a type are of that type.                     *)
LEMMA FlattenTyped ==
    ASSUME NEW S, NEW seqs \in Seq(Seq(S))
    PROVE  FlattenSeq(seqs) \in Seq(S)
<1>1. PICK run : Flattens(run, seqs) /\ \A k \in 0..Len(seqs) : run[k] \in Seq(S)
  BY FlattenUnrolled
<1> QED
  BY <1>1, LenProperties DEF Flattens

(* Two lists of sequences, one behind the other.                             *)
LEMMA FlattenConcat ==
    ASSUME NEW S, NEW s \in Seq(Seq(S)), NEW t \in Seq(Seq(S))
    PROVE  FlattenSeq(s \o t) = FlattenSeq(s) \o FlattenSeq(t)
<1> DEFINE u == s \o t
<1>1. /\ u \in Seq(Seq(S)) /\ Len(u) = Len(s) + Len(t)
      /\ Len(s) \in Nat /\ Len(t) \in Nat
      /\ \A k \in 1..Len(s) : u[k] = s[k]
      /\ \A k \in 1..Len(t) : u[Len(s) + k] = t[k]
  <2>1. /\ u \in Seq(Seq(S)) /\ Len(u) = Len(s) + Len(t)
        /\ \A i \in 1..Len(s) + Len(t) : u[i] = IF i <= Len(s) THEN s[i] ELSE t[i - Len(s)]
    BY ConcatProperties
  <2>2. Len(s) \in Nat /\ Len(t) \in Nat
    BY LenProperties
  <2>3. ASSUME NEW k \in 1..Len(t) PROVE u[Len(s) + k] = t[k]
    <3>1. Len(s) + k \in 1..Len(s) + Len(t) /\ ~(Len(s) + k <= Len(s)) /\ (Len(s) + k) - Len(s) = k
      BY <2>2
    <3> QED
      BY <2>1, <3>1
  <2> QED
    BY <2>1, <2>2, <2>3
<1>2. PICK f : Flattens(f, s) /\ \A k \in 0..Len(s) : f[k] \in Seq(S)
  BY FlattenUnrolled
<1>3. PICK g : Flattens(g, t) /\ \A k \in 0..Len(t) : g[k] \in Seq(S)
  BY FlattenUnrolled
<1>4. PICK h : Flattens(h, u)
  BY <1>1, FlattenUnrolled
<1> HIDE DEF u
<1> DEFINE U == {n \in Nat : n <= Len(s) => h[n] = f[n]}
<1>5. 0 \in U
  BY <1>2, <1>4 DEF Flattens
<1>6. ASSUME NEW n \in Nat, n \in U PROVE n + 1 \in U
  <2> SUFFICES ASSUME n + 1 <= Len(s) PROVE h[n+1] = f[n+1]
    OBVIOUS
  <2>1. h[n] = f[n] /\ n + 1 \in 1..Len(s) /\ n + 1 \in 1..Len(u) /\ (n + 1) - 1 = n
    <3> DEFINE ls == Len(s)
               lt == Len(t)
               lu == Len(u)
    <3>1. ls \in Nat /\ lt \in Nat /\ lu = ls + lt /\ n + 1 <= ls
      BY <1>1, LenProperties
    <3>2. h[n] = f[n]
      <4>1. n <= Len(s) => h[n] = f[n]
        BY <1>6
      <4>2. n <= ls
        BY <3>1
      <4> QED
        BY <4>1, <4>2
    <3> HIDE DEF ls, lt, lu
    <3>3. n + 1 \in 1..ls /\ n + 1 \in 1..lu /\ (n + 1) - 1 = n
      BY <3>1
    <3> QED
      BY <3>2, <3>3 DEF ls, lu
  <2>2. f[n+1] = f[n] \o s[n+1] /\ h[n+1] = h[n] \o u[n+1]
    BY <1>2, <1>4, <2>1 DEF Flattens
  <2> QED
    BY <1>1, <2>1, <2>2
<1>7. h[Len(s)] = f[Len(s)]
  <2> HIDE DEF U
  <2>1. Nat \subseteq U
    BY <1>5, <1>6, SetInduction
  <2> QED
    BY <1>1, <2>1 DEF U
<1> DEFINE a == f[Len(s)]
           V == {n \in Nat : n <= Len(t) => h[Len(s) + n] = a \o g[n]}
<1>8. a \in Seq(S)
  BY <1>1, <1>2
<1> HIDE DEF a
<1>81. \A x, y \in Seq(S) : (a \o x) \o y = a \o (x \o y)
  BY <1>8, ConcatAssociative, SMTT(20)
<1>9. 0 \in V
  <2>1. h[Len(s) + 0] = a /\ g[0] = <<>>
    BY <1>1, <1>3, <1>7 DEF Flattens, a
  <2> QED
    BY <1>8, <2>1, ConcatEmptySeq
<1>10. ASSUME NEW n \in Nat, n \in V PROVE n + 1 \in V
  <2> SUFFICES ASSUME n + 1 <= Len(t) PROVE h[Len(s) + (n + 1)] = a \o g[n+1]
    OBVIOUS
  <2>1. /\ h[Len(s) + n] = a \o g[n] /\ n + 1 \in 1..Len(t) /\ (n + 1) - 1 = n
        /\ Len(s) + (n + 1) \in 1..Len(u) /\ (Len(s) + (n + 1)) - 1 = Len(s) + n
        /\ n \in 0..Len(t)
    BY <1>1, <1>10, SMTT(20)
  <2>2. g[n+1] = g[n] \o t[n+1]
    BY <1>3, <2>1 DEF Flattens
  <2>3. h[Len(s) + (n + 1)] = h[Len(s) + n] \o u[Len(s) + (n + 1)]
    BY <1>4, <2>1 DEF Flattens
  <2>4. u[Len(s) + (n + 1)] = t[n+1] /\ t[n+1] \in Seq(S) /\ g[n] \in Seq(S)
    BY <1>1, <1>3, <2>1, ElementOfSeq
  <2>5. (a \o g[n]) \o t[n+1] = a \o (g[n] \o t[n+1])
    <3> DEFINE p == g[n]
               q == t[n+1]
    <3>1. a \in Seq(S) /\ p \in Seq(S) /\ q \in Seq(S)
      BY <1>8, <2>4
    <3> HIDE DEF p, q
    <3>2. (a \o p) \o q = a \o (p \o q)
      BY <3>1, <1>81
    <3> QED
      BY <3>2 DEF p, q
  <2> QED
    BY <2>1, <2>2, <2>3, <2>4, <2>5
<1>11. h[Len(s) + Len(t)] = a \o g[Len(t)]
  <2> HIDE DEF V
  <2>1. Nat \subseteq V
    BY <1>9, <1>10, SetInduction
  <2> QED
    BY <1>1, <2>1 DEF V
<1> QED
  BY <1>1, <1>2, <1>3, <1>4, <1>11 DEF Flattens, a, u

(* A list of one sequence is that sequence.                                  *)
LEMMA FlattenOne ==
    ASSUME NEW S, NEW s \in Seq(S)
    PROVE  FlattenSeq(<<s>>) = s
<1>1. <<s>> \in Seq(Seq(S)) /\ Len(<<s>>) = 1 /\ <<s>>[1] = s
  OBVIOUS
<1>2. PICK run : Flattens(run, <<s>>)
  BY <1>1, FlattenUnrolled
<1>3. 1 \in 1..Len(<<s>>) /\ 1 - 1 = 0
  BY <1>1
<1>4. run[1] = run[0] \o s /\ run[0] = <<>>
  BY <1>1, <1>2, <1>3 DEF Flattens
<1> QED
  BY <1>1, <1>2, <1>4, ConcatEmptySeq DEF Flattens

(* No sequences give the empty one.                                          *)
LEMMA FlattenNone == FlattenSeq(<<>>) = <<>>
<1>1. <<>> \in Seq(Seq(Token)) /\ Len(<<>>) = 0
  BY EmptySeq
<1>2. PICK run : Flattens(run, <<>>)
  BY <1>1, FlattenUnrolled
<1> QED
  BY <1>1, <1>2 DEF Flattens

-----------------------------------------------------------------------------
(* Includes, replaced one level at a time.                                   *)

(* What a token is replaced by.                                              *)
Piece(fs, tok) == IF Opened(fs, tok) THEN fs[tok.file].tokens ELSE <<tok>>
Pieces(fs, t) == [k \in DOMAIN t |-> Piece(fs, t[k])]

(* A token or the file it opens is a sequence of tokens.                     *)
LEMMA PieceTyped ==
    ASSUME NEW fs \in FileSystems
    PROVE  /\ \A f \in DOMAIN fs : fs[f].tokens \in Seq(Token)
           /\ \A tok \in Token : Piece(fs, tok) \in Seq(Token)
<1>1. ASSUME NEW f \in DOMAIN fs PROVE fs[f].tokens \in Seq(Token)
  <2>1. fs[f] \in File
    BY FileSystemsAssumption
  <2> QED
    BY <2>1 DEF File
<1>2. ASSUME NEW tok \in Token PROVE <<tok>> \in Seq(Token)
  OBVIOUS
<1> QED
  BY <1>1, <1>2 DEF Piece, Opened

(* The pieces of a sequence, one for each token.                             *)
LEMMA PiecesTyped ==
    ASSUME NEW fs \in FileSystems, NEW t \in Seq(Token)
    PROVE  /\ Pieces(fs, t) \in Seq(Seq(Token)) /\ Len(Pieces(fs, t)) = Len(t)
           /\ \A k \in 1..Len(t) : Pieces(fs, t)[k] = Piece(fs, t[k])
<1>1. Len(t) \in Nat /\ DOMAIN t = 1..Len(t) /\ \A k \in 1..Len(t) : t[k] \in Token
  BY LenProperties, ElementOfSeq
<1>2. \A k \in 1..Len(t) : Piece(fs, t[k]) \in Seq(Token)
  BY <1>1, PieceTyped
<1>3. Pieces(fs, t) = [k \in 1..Len(t) |-> Piece(fs, t[k])]
  BY <1>1 DEF Pieces
<1>4. [k \in 1..Len(t) |-> Piece(fs, t[k])] \in Seq(Seq(Token))
  BY <1>1, <1>2, IsASeq
<1>5. DOMAIN Pieces(fs, t) = 1..Len(t)
  BY <1>3
<1>6. Len(Pieces(fs, t)) = Len(t)
  BY <1>1, <1>3, <1>4, <1>5, LenProperties
<1> QED
  BY <1>3, <1>4, <1>6

(* One level of includes is replaced by laying the pieces end to end.        *)
LEMMA DeeperIs ==
    ASSUME NEW fs, NEW t
    PROVE  Deeper(fs, t) = FlattenSeq(Pieces(fs, t))
BY DEF Deeper, Pieces, Piece

(* What comes of it are tokens.                                              *)
LEMMA DeeperTyped ==
    ASSUME NEW fs \in FileSystems, NEW t \in Seq(Token)
    PROVE  Deeper(fs, t) \in Seq(Token)
BY DeeperIs, PiecesTyped, FlattenTyped

(* A sequence is replaced part by part.                                      *)
LEMMA DeeperConcat ==
    ASSUME NEW fs \in FileSystems, NEW t \in Seq(Token), NEW u \in Seq(Token)
    PROVE  Deeper(fs, t \o u) = Deeper(fs, t) \o Deeper(fs, u)
<1> DEFINE v == t \o u
           p == Pieces(fs, t)
           q == Pieces(fs, u)
           r == Pieces(fs, v)
<1>1. /\ v \in Seq(Token) /\ Len(v) = Len(t) + Len(u)
      /\ \A k \in 1..Len(t) + Len(u) : v[k] = IF k <= Len(t) THEN t[k] ELSE u[k - Len(t)]
      /\ Len(t) \in Nat /\ Len(u) \in Nat
  BY ConcatProperties, LenProperties
<1>2. /\ p \in Seq(Seq(Token)) /\ Len(p) = Len(t)
      /\ \A k \in 1..Len(t) : p[k] = Piece(fs, t[k])
  BY PiecesTyped
<1>3. /\ q \in Seq(Seq(Token)) /\ Len(q) = Len(u)
      /\ \A k \in 1..Len(u) : q[k] = Piece(fs, u[k])
  BY PiecesTyped
<1>4. /\ r \in Seq(Seq(Token)) /\ Len(r) = Len(v)
      /\ \A k \in 1..Len(v) : r[k] = Piece(fs, v[k])
  <2> HIDE DEF v
  <2> QED
    BY <1>1, PiecesTyped
<1> HIDE DEF v, p, q, r
<1>5. /\ p \o q \in Seq(Seq(Token)) /\ Len(p \o q) = Len(p) + Len(q)
      /\ \A k \in 1..Len(p) + Len(q) : (p \o q)[k] = IF k <= Len(p) THEN p[k] ELSE q[k - Len(p)]
  <2> DEFINE T == Seq(Token)
  <2>1. p \in Seq(T) /\ q \in Seq(T)
    BY <1>2, <1>3
  <2> HIDE DEF T
  <2>2. /\ p \o q \in Seq(T) /\ Len(p \o q) = Len(p) + Len(q)
        /\ \A k \in 1..Len(p) + Len(q) : (p \o q)[k] = IF k <= Len(p) THEN p[k] ELSE q[k - Len(p)]
    BY <2>1, ConcatProperties
  <2> QED
    BY <2>2 DEF T
<1>6. \A k \in 1..Len(r) : r[k] = (p \o q)[k]
  <2> SUFFICES ASSUME NEW k \in 1..Len(t) + Len(u) PROVE r[k] = (p \o q)[k]
    BY <1>1, <1>4
  <2>1. CASE k <= Len(t)
    <3>1. k \in 1..Len(t)
      BY <1>1, <2>1
    <3>2. v[k] = t[k] /\ p[k] = Piece(fs, t[k]) /\ r[k] = Piece(fs, v[k])
      BY <1>1, <1>2, <1>4, <2>1, <3>1
    <3>3. (p \o q)[k] = p[k]
      BY <1>2, <1>3, <1>5, <2>1
    <3> QED
      BY <3>2, <3>3
  <2>2. CASE ~(k <= Len(t))
    <3>1. k - Len(t) \in 1..Len(u)
      BY <1>1, <2>2
    <3>2. /\ v[k] = u[k - Len(t)] /\ q[k - Len(t)] = Piece(fs, u[k - Len(t)])
          /\ r[k] = Piece(fs, v[k])
      BY <1>1, <1>3, <1>4, <2>2, <3>1
    <3>3. (p \o q)[k] = q[k - Len(t)]
      BY <1>2, <1>3, <1>5, <2>2
    <3> QED
      BY <3>2, <3>3
  <2> QED
    BY <2>1, <2>2
<1>7. r = p \o q
  BY <1>1, <1>2, <1>3, <1>4, <1>5, <1>6, SeqEqual
<1>8. FlattenSeq(p \o q) = FlattenSeq(p) \o FlattenSeq(q)
  BY <1>2, <1>3, FlattenConcat
<1> QED
  BY <1>7, <1>8, DeeperIs DEF v, p, q, r

(* A token alone is replaced by its piece.                                   *)
LEMMA DeeperOne ==
    ASSUME NEW fs \in FileSystems, NEW tok \in Token
    PROVE  Deeper(fs, <<tok>>) = Piece(fs, tok)
<1>1. <<tok>> \in Seq(Token) /\ Len(<<tok>>) = 1 /\ <<tok>>[1] = tok
  OBVIOUS
<1>2. Piece(fs, tok) \in Seq(Token)
  BY PieceTyped
<1> DEFINE p == Pieces(fs, <<tok>>)
           q == Piece(fs, tok)
<1>3. p \in Seq(Seq(Token)) /\ Len(p) = 1 /\ p[1] = q
  <2>1. /\ p \in Seq(Seq(Token)) /\ Len(p) = Len(<<tok>>)
        /\ \A k \in 1..Len(<<tok>>) : p[k] = Piece(fs, <<tok>>[k])
    BY <1>1, PiecesTyped
  <2> QED
    BY <1>1, <2>1
<1>4. FlattenSeq(p) = q
  <2> HIDE DEF p, q
  <2>1. <<q>> \in Seq(Seq(Token)) /\ Len(<<q>>) = 1 /\ <<q>>[1] = q
    BY <1>2 DEF q
  <2>2. \A k \in 1..Len(p) : p[k] = <<q>>[k]
    BY <1>3, <2>1
  <2>3. p = <<q>>
    BY <1>3, <2>1, <2>2, SeqEqual
  <2> QED
    BY <1>2, <2>3, FlattenOne DEF q
<1> QED
  BY <1>4, DeeperIs

(* In an empty sequence there is nothing to replace.                         *)
LEMMA DeeperNone ==
    ASSUME NEW fs \in FileSystems
    PROVE  Deeper(fs, <<>>) = <<>>
<1>1. <<>> \in Seq(Token) /\ Len(<<>>) = 0
  BY EmptySeq
<1>2. Pieces(fs, <<>>) \in Seq(Seq(Token)) /\ Len(Pieces(fs, <<>>)) = 0
  BY <1>1, PiecesTyped
<1>3. Pieces(fs, <<>>) = <<>>
  BY <1>2, EmptySeq
<1> QED
  BY <1>3, DeeperIs, FlattenNone

-----------------------------------------------------------------------------
NoIncludes(t) == \A k \in DOMAIN t : t[k].kind # "include"

(* A sequence without includes is one whose parts have none.                 *)
LEMMA NoIncludesConcat ==
    ASSUME NEW t \in Seq(Token), NEW u \in Seq(Token)
    PROVE  NoIncludes(t \o u) <=> NoIncludes(t) /\ NoIncludes(u)
<1> DEFINE v == t \o u
<1>1. /\ DOMAIN v = 1..Len(t) + Len(u) /\ Len(t) \in Nat /\ Len(u) \in Nat
      /\ \A k \in 1..Len(t) + Len(u) : v[k] = IF k <= Len(t) THEN t[k] ELSE u[k - Len(t)]
      /\ DOMAIN t = 1..Len(t) /\ DOMAIN u = 1..Len(u)
  BY ConcatProperties, LenProperties
<1> HIDE DEF v
<1>2. ASSUME NoIncludes(v) PROVE NoIncludes(t) /\ NoIncludes(u)
  <2>1. ASSUME NEW k \in 1..Len(t) PROVE t[k].kind # "include"
    BY <1>1, <1>2 DEF NoIncludes
  <2>2. ASSUME NEW k \in 1..Len(u) PROVE u[k].kind # "include"
    <3>1. Len(t) + k \in DOMAIN v /\ v[Len(t) + k] = u[k]
      BY <1>1
    <3> QED
      BY <1>2, <3>1 DEF NoIncludes
  <2> QED
    BY <1>1, <2>1, <2>2 DEF NoIncludes
<1>3. ASSUME NoIncludes(t), NoIncludes(u) PROVE NoIncludes(v)
  <2> SUFFICES ASSUME NEW k \in 1..Len(t) + Len(u) PROVE v[k].kind # "include"
    BY <1>1 DEF NoIncludes
  <2>1. CASE k <= Len(t)
    BY <1>1, <1>3, <2>1 DEF NoIncludes
  <2>2. CASE ~(k <= Len(t))
    BY <1>1, <1>3, <2>2 DEF NoIncludes
  <2> QED
    BY <2>1, <2>2
<1> QED
  BY <1>2, <1>3 DEF v

(* A token alone.                                                            *)
LEMMA NoIncludesOne ==
    ASSUME NEW tok \in Token
    PROVE  NoIncludes(<<tok>>) <=> tok.kind # "include"
BY DEF NoIncludes

(* An empty sequence has none.                                               *)
LEMMA NoIncludesNone == NoIncludes(<<>>)
BY DEF NoIncludes

(* Where there is nothing to open nothing changes.                           *)
LEMMA DeeperSame ==
    ASSUME NEW fs \in FileSystems, NEW t \in Seq(Token), NoIncludes(t)
    PROVE  Deeper(fs, t) = t
<1> DEFINE U == {n \in Nat : \A v \in Seq(Token) :
                               Len(v) = n /\ NoIncludes(v) => Deeper(fs, v) = v}
<1>1. 0 \in U
  BY EmptySeq, DeeperNone
<1>2. ASSUME NEW n \in Nat, n \in U PROVE n + 1 \in U
  <2> SUFFICES ASSUME NEW v \in Seq(Token), Len(v) = n + 1, NoIncludes(v)
               PROVE  Deeper(fs, v) = v
    OBVIOUS
  <2>1. v # <<>>
    BY EmptySeq
  <2>2. PICK w \in Seq(Token), e \in Token : v = Append(w, e)
    BY <2>1, SequenceEmptyOrAppend
  <2>3. Len(w) = n
    BY <2>2, AppendProperties, LenProperties
  <2>4. v = w \o <<e>> /\ <<e>> \in Seq(Token)
    BY <2>2, AppendIsConcat
  <2>5. NoIncludes(w) /\ NoIncludes(<<e>>)
    BY <2>4, NoIncludesConcat
  <2>6. Deeper(fs, w) = w
    BY <1>2, <2>3, <2>5
  <2>7. Deeper(fs, <<e>>) = <<e>>
    BY <2>5, DeeperOne, NoIncludesOne DEF Piece, Opened
  <2>8. Deeper(fs, w \o <<e>>) = Deeper(fs, w) \o Deeper(fs, <<e>>)
    <3> DEFINE x == <<e>>
    <3> HIDE DEF x
    <3>1. x \in Seq(Token)
      BY <2>4 DEF x
    <3>2. Deeper(fs, w \o x) = Deeper(fs, w) \o Deeper(fs, x)
      BY <3>1, DeeperConcat
    <3> QED
      BY <3>2 DEF x
  <2> QED
    BY <2>4, <2>6, <2>7, <2>8
<1>3. Len(t) \in U
  <2> HIDE DEF U
  <2>1. Nat \subseteq U
    BY <1>1, <1>2, SetInduction
  <2> QED
    BY <2>1, LenProperties
<1> QED
  BY <1>3

-----------------------------------------------------------------------------
(* The levels of includes, one after the other.                              *)
LEMMA DeepUnrolled ==
    ASSUME NEW fs, NEW t
    PROVE  /\ Deep(fs, t, 0) = t
           /\ \A n \in Nat : Deep(fs, t, n + 1) = Deeper(fs, Deep(fs, t, n))
<1> DEFINE step(old, k) == IF k = 0 THEN t ELSE Deeper(fs, old)
           IsRun(f, n) == f = [k \in 0..n |-> step(f[k-1], k)]
           U == {n \in Nat : \E f : IsRun(f, n)}
           IsLevel(f) == f = [k \in Nat |-> step(f[k-1], k)]
           level == CHOOSE f : IsLevel(f)
           run(n) == CHOOSE f : IsRun(f, n)
           F == [n \in Nat |-> run(n)[n]]
<1>1. 0 \in U
  <2> DEFINE f == [k \in 0..0 |-> t]
  <2>1. IsRun(f, 0)
    OBVIOUS
  <2> HIDE DEF IsRun, f
  <2> QED
    BY <2>1
<1>2. ASSUME NEW n \in Nat, n \in U PROVE n + 1 \in U
  <2>1. PICK f : IsRun(f, n)
    BY <1>2
  <2> DEFINE g == [k \in 0..n+1 |-> IF k = n + 1 THEN step(f[n], n + 1) ELSE f[k]]
  <2>2. IsRun(g, n + 1)
    <3> SUFFICES ASSUME NEW k \in 0..n+1
                 PROVE  (IF k = n + 1 THEN step(f[n], n + 1) ELSE f[k]) = step(g[k-1], k)
      OBVIOUS
    <3>1. CASE k = n + 1
      BY <3>1
    <3>2. CASE k # n + 1
      <4>1. k \in 0..n /\ f[k] = step(f[k-1], k)
        <5> HIDE DEF step
        <5> QED
          BY <2>1, <3>2
      <4>2. k = 0 \/ g[k-1] = f[k-1]
        BY <3>2
      <4> QED
        BY <3>2, <4>1, <4>2
    <3> QED
      BY <3>1, <3>2
  <2> HIDE DEF IsRun, g
  <2> QED
    BY <2>2
<1>3. \A n \in Nat : IsRun(run(n), n)
  <2> HIDE DEF U
  <2>1. Nat \subseteq U
    BY <1>1, <1>2, SetInduction
  <2> SUFFICES ASSUME NEW n \in Nat PROVE IsRun(run(n), n)
    OBVIOUS
  <2>2. \E f : IsRun(f, n)
    BY <2>1 DEF U
  <2> HIDE DEF IsRun
  <2> QED
    BY <2>2, Zenon
<1> HIDE DEF run
<1>4. \A n \in Nat : \A k \in 0..n : run(n)[k] = step(run(n)[k-1], k)
  <2> HIDE DEF step
  <2> QED
    BY <1>3
<1>5. ASSUME NEW n \in Nat
      PROVE  \A k \in 0..n : run(n+1)[k] = run(n)[k]
  <2> DEFINE V == {k \in Nat : k <= n => run(n+1)[k] = run(n)[k]}
  <2>1. 0 \in V
    <3>1. n + 1 \in Nat /\ 0 \in 0..n /\ 0 \in 0..n+1
      OBVIOUS
    <3>2. run(n)[0] = t
      BY <1>4, <3>1
    <3>3. run(n+1)[0] = t
      BY <1>4, <3>1
    <3> QED
      BY <3>2, <3>3
  <2>2. ASSUME NEW k \in Nat, k \in V PROVE k + 1 \in V
    <3> SUFFICES ASSUME k + 1 <= n PROVE run(n+1)[k+1] = run(n)[k+1]
      OBVIOUS
    <3>1. /\ run(n+1)[k] = run(n)[k] /\ k + 1 \in 0..n /\ k + 1 \in 0..n+1
          /\ (k + 1) - 1 = k /\ k + 1 # 0 /\ n + 1 \in Nat
      BY <2>2
    <3>2. run(n)[k+1] = Deeper(fs, run(n)[k])
      BY <1>4, <3>1
    <3>3. run(n+1)[k+1] = Deeper(fs, run(n+1)[k])
      BY <1>4, <3>1
    <3> QED
      BY <3>1, <3>2, <3>3
  <2> HIDE DEF V
  <2>3. Nat \subseteq V
    BY <2>1, <2>2, SetInduction
  <2> QED
    BY <2>3 DEF V
<1>6. IsLevel(F)
  <2> SUFFICES ASSUME NEW n \in Nat PROVE run(n)[n] = step(F[n-1], n)
    OBVIOUS
  <2>1. run(n)[n] = step(run(n)[n-1], n)
    <3>1. n \in 0..n
      OBVIOUS
    <3> HIDE DEF step
    <3> QED
      BY <1>4, <3>1
  <2>2. CASE n = 0
    BY <2>1, <2>2
  <2>3. CASE n # 0
    <3>1. n - 1 \in Nat /\ n - 1 \in 0..n-1 /\ (n - 1) + 1 = n
      BY <2>3
    <3>2. run((n-1)+1)[n-1] = run(n-1)[n-1]
      BY <1>5, <3>1
    <3>3. F[n-1] = run(n)[n-1]
      BY <3>1, <3>2
    <3> QED
      BY <2>1, <2>3, <3>3
  <2> QED
    BY <2>2, <2>3
<1>7. IsLevel(level)
  <2> HIDE DEF IsLevel, F
  <2> QED
    BY <1>6, Zenon
<1>8. \A n : Deep(fs, t, n) = level[n]
  BY DEF Deep
<1>9. \A n \in Nat : level[n] = step(level[n-1], n)
  <2> HIDE DEF level, step
  <2> QED
    BY <1>7
<1> HIDE DEF level
<1>10. level[0] = t
  BY <1>9
<1>11. ASSUME NEW n \in Nat PROVE level[n+1] = Deeper(fs, level[n])
  <2>1. n + 1 \in Nat /\ n + 1 # 0 /\ (n + 1) - 1 = n
    OBVIOUS
  <2> QED
    BY <1>9, <2>1
<1> QED
  BY <1>8, <1>10, <1>11

-----------------------------------------------------------------------------
(* As many levels of includes as there are files resolve all there are.      *)

(* Every level of includes leaves tokens.                                    *)
LEMMA DeepTyped ==
    ASSUME NEW fs \in FileSystems, NEW t \in Seq(Token)
    PROVE  \A n \in Nat : Deep(fs, t, n) \in Seq(Token)
<1> DEFINE U == {n \in Nat : Deep(fs, t, n) \in Seq(Token)}
<1>1. 0 \in U
  BY DeepUnrolled
<1>2. ASSUME NEW n \in Nat, n \in U PROVE n + 1 \in U
  <2>1. Deep(fs, t, n + 1) = Deeper(fs, Deep(fs, t, n))
    BY DeepUnrolled
  <2>2. Deeper(fs, Deep(fs, t, n)) \in Seq(Token)
    BY <1>2, DeeperTyped
  <2> QED
    BY <2>1, <2>2
<1> HIDE DEF U
<1>3. Nat \subseteq U
  BY <1>1, <1>2, SetInduction
<1> QED
  BY <1>3 DEF U

(* Part by part, as deep as may be.                                          *)
LEMMA DeepConcat ==
    ASSUME NEW fs \in FileSystems, NEW t \in Seq(Token), NEW u \in Seq(Token)
    PROVE  \A n \in Nat : Deep(fs, t \o u, n) = Deep(fs, t, n) \o Deep(fs, u, n)
<1> DEFINE U == {n \in Nat : Deep(fs, t \o u, n) = Deep(fs, t, n) \o Deep(fs, u, n)}
<1>1. 0 \in U
  BY DeepUnrolled
<1>2. ASSUME NEW n \in Nat, n \in U PROVE n + 1 \in U
  <2> DEFINE a == Deep(fs, t, n)
             b == Deep(fs, u, n)
  <2>1. a \in Seq(Token) /\ b \in Seq(Token)
    BY DeepTyped
  <2>2. Deep(fs, t \o u, n) = a \o b
    BY <1>2
  <2>3. /\ Deep(fs, t \o u, n + 1) = Deeper(fs, Deep(fs, t \o u, n))
        /\ Deep(fs, t, n + 1) = Deeper(fs, a)
        /\ Deep(fs, u, n + 1) = Deeper(fs, b)
    BY DeepUnrolled, ZenonT(30)
  <2> HIDE DEF a, b
  <2>4. Deeper(fs, a \o b) = Deeper(fs, a) \o Deeper(fs, b)
    BY <2>1, DeeperConcat
  <2> QED
    BY <2>2, <2>3, <2>4
<1> HIDE DEF U
<1>3. Nat \subseteq U
  BY <1>1, <1>2, SetInduction
<1> QED
  BY <1>3 DEF U

(* Nothing has no includes, however deep.                                    *)
LEMMA DeepNone ==
    ASSUME NEW fs \in FileSystems
    PROVE  \A n \in Nat : Deep(fs, <<>>, n) = <<>>
<1> DEFINE U == {n \in Nat : Deep(fs, <<>>, n) = <<>>}
<1>1. 0 \in U
  BY DeepUnrolled
<1>2. ASSUME NEW n \in Nat, n \in U PROVE n + 1 \in U
  <2> DEFINE x == <<>>
  <2> HIDE DEF x
  <2>1. Deep(fs, x, n + 1) = Deeper(fs, Deep(fs, x, n))
    BY DeepUnrolled
  <2> QED
    BY <1>2, <2>1, DeeperNone DEF x
<1> HIDE DEF U
<1>3. Nat \subseteq U
  BY <1>1, <1>2, SetInduction
<1> QED
  BY <1>3 DEF U

(* One level more, at the top or at the bottom.                              *)
LEMMA DeepShift ==
    ASSUME NEW fs \in FileSystems, NEW t \in Seq(Token)
    PROVE  \A n \in Nat : Deep(fs, t, n + 1) = Deep(fs, Deeper(fs, t), n)
<1> DEFINE U == {n \in Nat : Deep(fs, t, n + 1) = Deep(fs, Deeper(fs, t), n)}
<1>1. 0 \in U
  <2>1. Deep(fs, t, 0 + 1) = Deeper(fs, Deep(fs, t, 0))
    BY DeepUnrolled
  <2> QED
    BY <2>1, DeepUnrolled
<1>2. ASSUME NEW n \in Nat, n \in U PROVE n + 1 \in U
  <2> DEFINE m == n + 1
  <2>1. Deep(fs, t, m + 1) = Deeper(fs, Deep(fs, t, m))
    <3>1. m \in Nat
      OBVIOUS
    <3> HIDE DEF m
    <3> QED
      BY <3>1, DeepUnrolled
  <2>2. Deep(fs, Deeper(fs, t), n + 1) = Deeper(fs, Deep(fs, Deeper(fs, t), n))
    BY DeepUnrolled
  <2> QED
    BY <1>2, <2>1, <2>2
<1> HIDE DEF U
<1>3. Nat \subseteq U
  BY <1>1, <1>2, SetInduction
<1> QED
  BY <1>3 DEF U

(* Once there is no include left, no further level changes anything.         *)
LEMMA DeepStays ==
    ASSUME NEW fs \in FileSystems, NEW t \in Seq(Token), NEW n \in Nat,
           NoIncludes(Deep(fs, t, n))
    PROVE  \A m \in Nat : m >= n => Deep(fs, t, m) = Deep(fs, t, n)
<1> DEFINE U == {i \in Nat : Deep(fs, t, n + i) = Deep(fs, t, n)}
<1>1. 0 \in U
  OBVIOUS
<1>2. ASSUME NEW i \in Nat, i \in U PROVE i + 1 \in U
  <2>1. n + i \in Nat /\ n + (i + 1) = (n + i) + 1
    OBVIOUS
  <2>2. Deep(fs, t, (n + i) + 1) = Deeper(fs, Deep(fs, t, n + i))
    BY <2>1, DeepUnrolled, ZenonT(30)
  <2>3. Deeper(fs, Deep(fs, t, n)) = Deep(fs, t, n)
    BY DeepTyped, DeeperSame
  <2> QED
    BY <1>2, <2>1, <2>2, <2>3
<1> HIDE DEF U
<1>3. Nat \subseteq U
  BY <1>1, <1>2, SetInduction
<1>4. ASSUME NEW m \in Nat, m >= n PROVE Deep(fs, t, m) = Deep(fs, t, n)
  <2>1. m - n \in U /\ n + (m - n) = m
    BY <1>3, <1>4
  <2> QED
    BY <2>1 DEF U
<1> QED
  BY <1>4

(* The replacement of one token.                                             *)
LEMMA DeepOne ==
    ASSUME NEW fs \in FileSystems, NEW tok \in Token
    PROVE  /\ ~Opened(fs, tok) => \A n \in Nat : Deep(fs, <<tok>>, n) = <<tok>>
           /\ Opened(fs, tok) =>
                \A n \in Nat : Deep(fs, <<tok>>, n + 1) = Deep(fs, fs[tok.file].tokens, n)
<1>1. ASSUME ~Opened(fs, tok) PROVE \A n \in Nat : Deep(fs, <<tok>>, n) = <<tok>>
  <2> DEFINE U == {n \in Nat : Deep(fs, <<tok>>, n) = <<tok>>}
  <2>1. 0 \in U
    BY DeepUnrolled
  <2>2. Deeper(fs, <<tok>>) = <<tok>>
    BY <1>1, DeeperOne DEF Piece
  <2>3. ASSUME NEW n \in Nat, n \in U PROVE n + 1 \in U
    <3> DEFINE x == <<tok>>
    <3> HIDE DEF x
    <3>1. Deep(fs, x, n + 1) = Deeper(fs, Deep(fs, x, n))
      BY DeepUnrolled
    <3> QED
      BY <2>2, <2>3, <3>1 DEF x
  <2> HIDE DEF U
  <2>4. Nat \subseteq U
    BY <2>1, <2>3, SetInduction
  <2> QED
    BY <2>4 DEF U
<1>2. ASSUME Opened(fs, tok), NEW n \in Nat
      PROVE  Deep(fs, <<tok>>, n + 1) = Deep(fs, fs[tok.file].tokens, n)
  <2> DEFINE x == <<tok>>
  <2>1. x \in Seq(Token)
    OBVIOUS
  <2>2. Deeper(fs, x) = fs[tok.file].tokens
    BY <1>2, DeeperOne DEF Piece
  <2> HIDE DEF x
  <2>3. Deep(fs, x, n + 1) = Deep(fs, Deeper(fs, x), n)
    BY <2>1, DeepShift
  <2> QED
    BY <2>2, <2>3 DEF x
<1> QED
  BY <1>1, <1>2

(* Whether includes are left is said token by token.                         *)
LEMMA DeepParts ==
    ASSUME NEW fs \in FileSystems, NEW t \in Seq(Token), NEW n \in Nat
    PROVE  NoIncludes(Deep(fs, t, n))
             <=> \A k \in DOMAIN t : NoIncludes(Deep(fs, <<t[k]>>, n))
<1> DEFINE Fact(v) == NoIncludes(Deep(fs, v, n))
                        <=> \A k \in DOMAIN v : NoIncludes(Deep(fs, <<v[k]>>, n))
           U == {l \in Nat : \A v \in Seq(Token) : Len(v) = l => Fact(v)}
<1>1. 0 \in U
  <2> SUFFICES ASSUME NEW v \in Seq(Token), Len(v) = 0 PROVE Fact(v)
    OBVIOUS
  <2>1. v = <<>> /\ DOMAIN v = {}
    BY EmptySeq
  <2> QED
    BY <2>1, DeepNone, NoIncludesNone
<1>2. ASSUME NEW l \in Nat, l \in U PROVE l + 1 \in U
  <2> SUFFICES ASSUME NEW v \in Seq(Token), Len(v) = l + 1 PROVE Fact(v)
    OBVIOUS
  <2>1. v # <<>>
    BY EmptySeq
  <2>2. PICK w \in Seq(Token), e \in Token : v = Append(w, e)
    BY <2>1, SequenceEmptyOrAppend
  <2>3. /\ Len(w) = l /\ DOMAIN w = 1..l /\ DOMAIN v = 1..l+1
        /\ \A k \in 1..l : v[k] = w[k]
        /\ v[l+1] = e
    BY <2>2, AppendProperties, LenProperties
  <2> DEFINE x == <<e>>
  <2>4. v = w \o x /\ x \in Seq(Token)
    BY <2>2, AppendIsConcat
  <2> HIDE DEF x
  <2>5. Deep(fs, v, n) = Deep(fs, w, n) \o Deep(fs, x, n)
    BY <2>4, DeepConcat, SMTT(20)
  <2>6. NoIncludes(Deep(fs, v, n)) <=> NoIncludes(Deep(fs, w, n)) /\ NoIncludes(Deep(fs, x, n))
    <3> DEFINE a == Deep(fs, w, n)
               b == Deep(fs, x, n)
    <3>1. a \in Seq(Token) /\ b \in Seq(Token)
      BY <2>4, DeepTyped
    <3> HIDE DEF a, b
    <3>2. NoIncludes(a \o b) <=> NoIncludes(a) /\ NoIncludes(b)
      BY <3>1, NoIncludesConcat
    <3> QED
      BY <2>5, <3>2 DEF a, b
  <2>7. Fact(w)
    BY <1>2, <2>3
  <2>8. (\A k \in DOMAIN v : NoIncludes(Deep(fs, <<v[k]>>, n)))
          <=> (\A k \in DOMAIN w : NoIncludes(Deep(fs, <<w[k]>>, n))) /\ NoIncludes(Deep(fs, x, n))
    <3>1. ASSUME \A k \in DOMAIN v : NoIncludes(Deep(fs, <<v[k]>>, n))
          PROVE  (\A k \in DOMAIN w : NoIncludes(Deep(fs, <<w[k]>>, n))) /\ NoIncludes(Deep(fs, x, n))
      <4>1. l + 1 \in DOMAIN v /\ \A k \in DOMAIN w : k \in DOMAIN v
        BY <2>3
      <4> QED
        BY <2>3, <3>1, <4>1 DEF x
    <3>2. ASSUME \A k \in DOMAIN w : NoIncludes(Deep(fs, <<w[k]>>, n)), NoIncludes(Deep(fs, x, n)),
                 NEW k \in DOMAIN v
          PROVE  NoIncludes(Deep(fs, <<v[k]>>, n))
      <4>1. CASE k = l + 1
        BY <2>3, <3>2, <4>1 DEF x
      <4>2. CASE k # l + 1
        <5>1. k \in DOMAIN w /\ v[k] = w[k]
          BY <2>3, <4>2
        <5> QED
          BY <3>2, <5>1
      <4> QED
        BY <4>1, <4>2
    <3> QED
      BY <3>1, <3>2
  <2> QED
    BY <2>6, <2>7, <2>8
<1> HIDE DEF Fact
<1>3. Len(t) \in Nat /\ Len(t) \in U
  <2> HIDE DEF U
  <2>1. Nat \subseteq U
    BY <1>1, <1>2, SetInduction
  <2> QED
    BY <2>1, LenProperties
<1>4. Fact(t)
  BY <1>3
<1> QED
  BY <1>4 DEF Fact

-----------------------------------------------------------------------------
(* The files that n levels of includes resolve.                              *)
Resolved(fs, n) == {f \in DOMAIN fs : NoIncludes(Deep(fs, fs[f].tokens, n))}

(* They are those whose includes are resolved one level before.              *)
LEMMA ResolvedNext ==
    ASSUME NEW fs \in FileSystems, NEW n \in Nat, NEW f \in DOMAIN fs
    PROVE  f \in Resolved(fs, n + 1) <=>
             \A k \in DOMAIN fs[f].tokens :
               fs[f].tokens[k].kind = "include" =>
                 Opened(fs, fs[f].tokens[k]) /\ fs[f].tokens[k].file \in Resolved(fs, n)
<1> DEFINE t == fs[f].tokens
<1>1. t \in Seq(Token)
  BY PieceTyped
<1>2. \A k \in DOMAIN t : t[k] \in Token
  BY <1>1, LenProperties, ElementOfSeq
<1> HIDE DEF t
<1>3. NoIncludes(Deep(fs, t, n + 1)) <=> \A k \in DOMAIN t : NoIncludes(Deep(fs, <<t[k]>>, n + 1))
  BY <1>1, DeepParts
<1>4. ASSUME NEW k \in DOMAIN t
      PROVE  NoIncludes(Deep(fs, <<t[k]>>, n + 1)) <=>
               (t[k].kind = "include" => Opened(fs, t[k]) /\ t[k].file \in Resolved(fs, n))
  <2> DEFINE tok == t[k]
  <2>1. tok \in Token
    BY <1>2
  <2> HIDE DEF tok
  <2>2. CASE ~Opened(fs, tok)
    <3>1. Deep(fs, <<tok>>, n + 1) = <<tok>>
      BY <2>1, <2>2, DeepOne
    <3>2. NoIncludes(<<tok>>) <=> tok.kind # "include"
      BY <2>1, NoIncludesOne
    <3> QED
      BY <2>2, <3>1, <3>2 DEF tok
  <2>3. CASE Opened(fs, tok)
    <3>1. Deep(fs, <<tok>>, n + 1) = Deep(fs, fs[tok.file].tokens, n)
      BY <2>1, <2>3, DeepOne
    <3>2. tok.kind = "include" /\ tok.file \in DOMAIN fs
      BY <2>3 DEF Opened
    <3>3. tok.file \in Resolved(fs, n) <=> NoIncludes(Deep(fs, fs[tok.file].tokens, n))
      BY <3>2 DEF Resolved
    <3> QED
      BY <2>3, <3>1, <3>2, <3>3 DEF tok
  <2> QED
    BY <2>2, <2>3
<1>5. f \in Resolved(fs, n + 1) <=> NoIncludes(Deep(fs, t, n + 1))
  BY DEF Resolved, t
<1> QED
  BY <1>3, <1>4, <1>5 DEF t

(* A file that is resolved stays so at every further level.                  *)
LEMMA ResolvedGrows ==
    ASSUME NEW fs \in FileSystems
    PROVE  \A n, m \in Nat : m >= n => Resolved(fs, n) \subseteq Resolved(fs, m)
<1> SUFFICES ASSUME NEW n \in Nat, NEW m \in Nat, m >= n, NEW f \in Resolved(fs, n)
             PROVE  f \in Resolved(fs, m)
  OBVIOUS
<1>1. f \in DOMAIN fs /\ NoIncludes(Deep(fs, fs[f].tokens, n))
  BY DEF Resolved
<1>2. fs[f].tokens \in Seq(Token)
  BY <1>1, PieceTyped
<1>3. Deep(fs, fs[f].tokens, m) = Deep(fs, fs[f].tokens, n)
  BY <1>1, <1>2, DeepStays
<1> QED
  BY <1>1, <1>3 DEF Resolved

(* A level that resolves nothing new is the last that does.                  *)
LEMMA ResolvedStays ==
    ASSUME NEW fs \in FileSystems, NEW n \in Nat, Resolved(fs, n) = Resolved(fs, n + 1)
    PROVE  \A i \in Nat : Resolved(fs, n + i) = Resolved(fs, n)
<1> DEFINE U == {i \in Nat : /\ Resolved(fs, n + i) = Resolved(fs, n)
                             /\ Resolved(fs, (n + i) + 1) = Resolved(fs, n)}
<1>1. 0 \in U
  OBVIOUS
<1>2. ASSUME NEW i \in Nat, i \in U PROVE i + 1 \in U
  <2>1. n + i \in Nat /\ (n + i) + 1 \in Nat /\ n + (i + 1) = (n + i) + 1
    OBVIOUS
  <2>2. Resolved(fs, n + i) = Resolved(fs, n) /\ Resolved(fs, (n + i) + 1) = Resolved(fs, n)
    BY <1>2
  <2>3. ASSUME NEW f \in DOMAIN fs
        PROVE  f \in Resolved(fs, ((n + i) + 1) + 1) <=> f \in Resolved(fs, (n + i) + 1)
    BY <2>1, <2>2, ResolvedNext
  <2>4. \A m : Resolved(fs, m) \subseteq DOMAIN fs
    BY DEF Resolved
  <2>5. Resolved(fs, ((n + i) + 1) + 1) = Resolved(fs, (n + i) + 1)
    BY <2>3, <2>4
  <2> QED
    BY <2>1, <2>2, <2>5
<1> HIDE DEF U
<1>3. Nat \subseteq U
  BY <1>1, <1>2, SetInduction
<1> QED
  BY <1>3 DEF U

(* Includes as deep as there are files resolve all that can be resolved.     *)
LEMMA DeepestResolves ==
    ASSUME NEW fs \in FileSystems, NEW n \in Nat
    PROVE  Resolved(fs, n) \subseteq Resolved(fs, Cardinality(DOMAIN fs))
<1> DEFINE R(m) == Resolved(fs, m)
           N == Cardinality(DOMAIN fs)
           U == {m \in Nat : R(m) = R(m+1) \/ Cardinality(R(m)) >= m}
<1>1. IsFiniteSet(DOMAIN fs) /\ N \in Nat
  BY FileSystemsAssumption, FS_CardinalityType
<1>2. \A m : /\ R(m) \subseteq DOMAIN fs /\ IsFiniteSet(R(m))
             /\ Cardinality(R(m)) \in Nat /\ Cardinality(R(m)) <= N
             /\ (Cardinality(R(m)) = N => R(m) = DOMAIN fs)
  <2>1. \A m : R(m) \subseteq DOMAIN fs
    BY DEF Resolved
  <2> HIDE DEF R
  <2> QED
    BY <1>1, <2>1, FS_Subset, FS_CardinalityType
<1>3. \A m, l \in Nat : l >= m => R(m) \subseteq R(l)
  BY ResolvedGrows
<1>4. 0 \in U
  BY <1>2
<1>5. ASSUME NEW m \in Nat, m \in U PROVE m + 1 \in U
  <2> SUFFICES ASSUME R(m+1) # R((m+1)+1) PROVE Cardinality(R(m+1)) >= m + 1
    OBVIOUS
  <2>1. R(m) # R(m+1)
    <3> SUFFICES ASSUME R(m) = R(m+1) PROVE FALSE
      OBVIOUS
    <3>1. \A i \in Nat : R(m + i) = R(m)
      BY ResolvedStays
    <3>2. R(m + 1) = R(m) /\ R(m + 2) = R(m) /\ (m + 1) + 1 = m + 2
      BY <3>1
    <3> QED
      BY <3>2
  <2>2. Cardinality(R(m)) >= m
    BY <1>5, <2>1
  <2>3. R(m) \subseteq R(m+1)
    BY <1>3
  <2> HIDE DEF R
  <2>4. Cardinality(R(m)) < Cardinality(R(m+1))
    <3>1. /\ IsFiniteSet(R(m+1)) /\ Cardinality(R(m)) \in Nat /\ Cardinality(R(m+1)) \in Nat
      BY <1>2
    <3>2. /\ Cardinality(R(m)) <= Cardinality(R(m+1))
          /\ Cardinality(R(m)) = Cardinality(R(m+1)) => R(m) = R(m+1)
      BY <2>3, <3>1, FS_Subset
    <3> QED
      BY <2>1, <3>1, <3>2
  <2> QED
    BY <1>2, <2>2, <2>4
<1>6. N \in U
  <2> HIDE DEF U
  <2>1. Nat \subseteq U
    BY <1>4, <1>5, SetInduction
  <2> QED
    BY <1>1, <2>1
<1>7. R(N) = R(N+1)
  <2>1. CASE Cardinality(R(N)) >= N
    <3>1. R(N) = DOMAIN fs
      BY <1>1, <1>2, <2>1
    <3>2. R(N) \subseteq R(N+1)
      BY <1>1, <1>3
    <3> QED
      BY <1>2, <3>1, <3>2
  <2> HIDE DEF R
  <2> QED
    BY <1>6, <2>1
<1>8. CASE n <= N
  BY <1>1, <1>3, <1>8
<1>9. CASE n > N
  <2>1. \A i \in Nat : R(N + i) = R(N)
    BY <1>1, <1>7, ResolvedStays
  <2>2. n - N \in Nat /\ N + (n - N) = n
    BY <1>1, <1>9
  <2> HIDE DEF R
  <2>3. R(n) = R(N)
    BY <2>1, <2>2
  <2> QED
    BY <2>3 DEF R
<1> QED
  BY <1>1, <1>8, <1>9

-----------------------------------------------------------------------------
(* What becomes of a file with its includes.                                 *)

(* All includes of a sequence can be replaced.                               *)
Ends(fs, t) == \E d \in Nat : NoIncludes(Deep(fs, t, d))

(* As many levels as there are files.                                        *)
LEMMA FilesCounted ==
    ASSUME NEW fs \in FileSystems
    PROVE  /\ Cardinality(DOMAIN fs) \in Nat
           /\ DOMAIN fs # {} => Cardinality(DOMAIN fs) - 1 \in Nat
<1>1. IsFiniteSet(DOMAIN fs)
  BY FileSystemsAssumption
<1>2. Cardinality(DOMAIN fs) \in Nat /\ (Cardinality(DOMAIN fs) = 0 <=> DOMAIN fs = {})
  BY <1>1, FS_CardinalityType, FS_EmptySet
<1> QED
  BY <1>2

(* A file with its includes replaced, or ignored, is made of tokens.         *)
LEMMA FlatTyped ==
    ASSUME NEW fs \in FileSystems, NEW includes \in BOOLEAN, NEW t \in Seq(Token)
    PROVE  Flat(fs, includes, t) \in Seq(Token)
BY FilesCounted, DeepTyped, WithoutTyped DEF Flat, Deepest

(* The includes of a sequence are replaced part by part.                     *)
LEMMA FlatConcat ==
    ASSUME NEW fs \in FileSystems, NEW includes \in BOOLEAN,
           NEW t \in Seq(Token), NEW u \in Seq(Token)
    PROVE  Flat(fs, includes, t \o u) = Flat(fs, includes, t) \o Flat(fs, includes, u)
BY FilesCounted, DeepConcat, WithoutConcat, ZenonT(30) DEF Flat, Deepest

(* There is nothing to replace in nothing.                                   *)
LEMMA FlatNone ==
    ASSUME NEW fs \in FileSystems, NEW includes \in BOOLEAN
    PROVE  Flat(fs, includes, <<>>) = <<>>
BY FilesCounted, DeepNone, WithoutNone DEF Flat, Deepest

(* What becomes of one token: text and directives stay, an #include is       *)
(* ignored, left for missing, or replaced by the file.                       *)
LEMMA FlatOne ==
    ASSUME NEW fs \in FileSystems, NEW includes \in BOOLEAN, NEW tok \in Token
    PROVE  /\ tok.kind # "include" => Flat(fs, includes, <<tok>>) = <<tok>>
           /\ tok.kind = "include" /\ ~includes => Flat(fs, includes, <<tok>>) = <<>>
           /\ includes /\ ~Opened(fs, tok) => Flat(fs, includes, <<tok>>) = <<tok>>
           /\ includes /\ Opened(fs, tok) /\ NoIncludes(Flat(fs, includes, <<tok>>)) =>
                Flat(fs, includes, <<tok>>) = Flat(fs, includes, fs[tok.file].tokens)
<1> DEFINE x == <<tok>>
           N == Cardinality(DOMAIN fs)
<1>1. N \in Nat
  BY FilesCounted
<1>2. ~Opened(fs, tok) => Deepest(fs, x) = x
  BY <1>1, DeepOne DEF Deepest
<1>3. tok.kind # "include" => ~Opened(fs, tok)
  BY DEF Opened
<1>4. Without(x, {"include"}) = IF tok.kind \in {"include"} THEN <<>> ELSE x
  BY WithoutOne
<1>5. ASSUME Opened(fs, tok), NoIncludes(Deepest(fs, x))
      PROVE  Deepest(fs, x) = Deepest(fs, fs[tok.file].tokens)
  <2> DEFINE M == N - 1
             t == fs[tok.file].tokens
  <2>1. tok.file \in DOMAIN fs
    BY <1>5 DEF Opened
  <2>2. M \in Nat /\ N = M + 1
    BY <1>1, <2>1, FilesCounted
  <2>3. t \in Seq(Token)
    BY <2>1, PieceTyped
  <2> HIDE DEF M, N
  <2>4. Deep(fs, x, M + 1) = Deep(fs, t, M)
    BY <1>5, <2>2, DeepOne
  <2>5. Deepest(fs, x) = Deep(fs, t, M) /\ Deepest(fs, t) = Deep(fs, t, M + 1)
    BY <2>2, <2>4 DEF Deepest, N
  <2> HIDE DEF t, x
  <2>6. Deep(fs, t, M + 1) = Deep(fs, t, M)
    <3>1. NoIncludes(Deep(fs, t, M))
      BY <1>5, <2>5
    <3>2. M + 1 \in Nat /\ M + 1 >= M
      BY <2>2
    <3> QED
      BY <2>2, <2>3, <3>1, <3>2, DeepStays
  <2> QED
    BY <2>5, <2>6 DEF t
<1> HIDE DEF x
<1> QED
  BY <1>2, <1>3, <1>4, <1>5 DEF Flat, x

(* The includes of a sequence end if those behind the first token do, and,   *)
(* where that opens a file, those of the file in its place.                  *)
LEMMA EndsBackward ==
    ASSUME NEW fs \in FileSystems, NEW tok \in Token, NEW t \in Seq(Token)
    PROVE  /\ tok.kind # "include" /\ Ends(fs, t) => Ends(fs, <<tok>> \o t)
           /\ Opened(fs, tok) /\ Ends(fs, fs[tok.file].tokens \o t) => Ends(fs, <<tok>> \o t)
<1> DEFINE x == <<tok>>
<1>1. x \in Seq(Token)
  OBVIOUS
<1>2. ASSUME tok.kind # "include", Ends(fs, t) PROVE Ends(fs, x \o t)
  <2>1. PICK d \in Nat : NoIncludes(Deep(fs, t, d))
    BY <1>2 DEF Ends
  <2>2. Deep(fs, x, d) = x /\ NoIncludes(x)
    BY <1>2, DeepOne, NoIncludesOne DEF Opened
  <2> HIDE DEF x
  <2>3. Deep(fs, x \o t, d) = Deep(fs, x, d) \o Deep(fs, t, d)
    BY <1>1, DeepConcat
  <2>4. Deep(fs, t, d) \in Seq(Token)
    BY DeepTyped
  <2>5. NoIncludes(x \o Deep(fs, t, d))
    BY <1>1, <2>1, <2>2, <2>4, NoIncludesConcat
  <2> QED
    BY <2>2, <2>3, <2>5 DEF Ends
<1>3. ASSUME Opened(fs, tok), Ends(fs, fs[tok.file].tokens \o t) PROVE Ends(fs, x \o t)
  <2> DEFINE u == fs[tok.file].tokens
  <2>1. PICK d \in Nat : NoIncludes(Deep(fs, u \o t, d))
    BY <1>3 DEF Ends
  <2>2. u \in Seq(Token)
    BY <1>3, PieceTyped DEF Opened
  <2>3. Deep(fs, x, d + 1) = Deep(fs, u, d)
    BY <1>3, DeepOne
  <2> HIDE DEF u, x
  <2>4. Deep(fs, u \o t, d) = Deep(fs, u, d) \o Deep(fs, t, d)
    BY <2>2, DeepConcat
  <2>5. NoIncludes(Deep(fs, u, d)) /\ NoIncludes(Deep(fs, t, d))
    <3> DEFINE a == Deep(fs, u, d)
               b == Deep(fs, t, d)
    <3>1. a \in Seq(Token) /\ b \in Seq(Token)
      BY <2>2, DeepTyped
    <3> HIDE DEF a, b
    <3>2. NoIncludes(a \o b) <=> NoIncludes(a) /\ NoIncludes(b)
      BY <3>1, NoIncludesConcat
    <3> QED
      BY <2>1, <2>4, <3>2 DEF a, b
  <2>6. Deep(fs, t, d + 1) = Deep(fs, t, d)
    <3>1. d + 1 \in Nat /\ d + 1 >= d
      OBVIOUS
    <3> QED
      BY <2>5, <3>1, DeepStays
  <2>7. Deep(fs, x \o t, d + 1) = Deep(fs, x, d + 1) \o Deep(fs, t, d + 1)
    <3>1. d + 1 \in Nat
      OBVIOUS
    <3> QED
      BY <1>1, <3>1, DeepConcat
  <2>8. NoIncludes(Deep(fs, x \o t, d + 1)) /\ d + 1 \in Nat
    <3>1. Deep(fs, x \o t, d + 1) = Deep(fs, u \o t, d)
      BY <2>3, <2>4, <2>6, <2>7, Zenon
    <3>2. d + 1 \in Nat
      OBVIOUS
    <3> QED
      BY <2>1, <3>1, <3>2, Zenon
  <2> QED
    BY <2>8 DEF Ends
<1> QED
  BY <1>2, <1>3

(* A file whose includes end has none when they are replaced.                *)
LEMMA EndsFlat ==
    ASSUME NEW fs \in FileSystems, NEW includes \in BOOLEAN, NEW f \in DOMAIN fs,
           includes => Ends(fs, fs[f].tokens)
    PROVE  NoIncludes(Flat(fs, includes, fs[f].tokens))
<1>1. CASE includes
  <2>1. PICK d \in Nat : NoIncludes(Deep(fs, fs[f].tokens, d))
    BY <1>1 DEF Ends
  <2>2. f \in Resolved(fs, d)
    BY <2>1 DEF Resolved
  <2>3. f \in Resolved(fs, Cardinality(DOMAIN fs))
    BY <2>2, DeepestResolves
  <2> QED
    BY <1>1, <2>3 DEF Resolved, Flat, Deepest
<1>2. CASE ~includes
  <2>1. fs[f].tokens \in Seq(Token)
    BY PieceTyped
  <2> QED
    BY <1>2, <2>1, WithoutTyped DEF NoIncludes, Flat
<1> QED
  BY <1>1, <1>2

-----------------------------------------------------------------------------
(* A sequence with one more token: the conditionals that are open behind it, *)

(* Counting the tokens of some kinds: what is counted agrees where the       *)
(* sequences do.                                                             *)
LEMMA CountSame ==
    ASSUME NEW t, NEW u, NEW kinds, NEW range, \A k \in range : u[k] = t[k]
    PROVE  Count(u, kinds, range) = Count(t, kinds, range)
<1>1. {m \in range : u[m].kind \in kinds} = {m \in range : t[m].kind \in kinds}
  OBVIOUS
<1> QED
  BY <1>1 DEF Count

(* One more place counts one more, or not.                                   *)
LEMMA CountStep ==
    ASSUME NEW t, NEW kinds, NEW i \in Nat, NEW j \in Nat
    PROVE  /\ Count(t, kinds, i..j) \in Nat
           /\ j < i => Count(t, kinds, i..j) = 0
           /\ i <= j + 1 => Count(t, kinds, i..j+1) = Count(t, kinds, i..j)
                              + (IF t[j+1].kind \in kinds THEN 1 ELSE 0)
<1> DEFINE S(b) == {m \in i..b : t[m].kind \in kinds}
<1>1. IsFiniteSet(S(j)) /\ IsFiniteSet(S(j+1))
  <2>1. \A b \in Int : IsFiniteSet(i..b) /\ S(b) \subseteq i..b
    BY FS_Interval
  <2> HIDE DEF S
  <2>2. \A b \in Int : IsFiniteSet(S(b))
    BY <2>1, FS_Subset
  <2> QED
    BY <2>2
<1>2. Cardinality(S(j)) \in Nat
  BY <1>1, FS_CardinalityType
<1>3. j < i => S(j) = {}
  OBVIOUS
<1>4. ASSUME i <= j + 1
      PROVE  Cardinality(S(j+1)) = Cardinality(S(j)) + (IF t[j+1].kind \in kinds THEN 1 ELSE 0)
  <2>1. i..j+1 = (i..j) \union {j+1} /\ j+1 \notin i..j
    BY <1>4
  <2>2. CASE t[j+1].kind \in kinds
    <3>1. S(j+1) = S(j) \union {j+1} /\ j+1 \notin S(j)
      BY <2>1, <2>2
    <3> HIDE DEF S
    <3>2. Cardinality(S(j+1)) = Cardinality(S(j)) + 1
      BY <1>1, <3>1, FS_AddElement
    <3> QED
      BY <2>2, <3>2
  <2>3. CASE t[j+1].kind \notin kinds
    <3>1. S(j+1) = S(j)
      BY <2>1, <2>3
    <3> HIDE DEF S
    <3> QED
      BY <1>2, <2>3, <3>1
  <2> QED
    BY <2>2, <2>3
<1>5. Cardinality({}) = 0
  BY FS_EmptySet
<1> QED
  BY <1>2, <1>3, <1>4, <1>5 DEF Count

-----------------------------------------------------------------------------
(* u is t with one token more.                                               *)
Longer(t, u, tok) ==
    /\ t \in Seq(Token) /\ u \in Seq(Token) /\ tok \in Token
    /\ Len(t) \in Nat /\ Len(u) = Len(t) + 1
    /\ DOMAIN t = 1..Len(t) /\ DOMAIN u = 1..Len(t) + 1
    /\ \A k \in 1..Len(t) : u[k] = t[k]
    /\ u[Len(t) + 1] = tok

(* A sequence to which a token is appended is longer in this way.            *)
LEMMA AppendLonger ==
    ASSUME NEW t \in Seq(Token), NEW tok \in Token
    PROVE  Longer(t, Append(t, tok), tok)
BY AppendProperties, LenProperties DEF Longer

(* What is open at a token depends on the tokens before it.                  *)
LEMMA OpenSame ==
    ASSUME NEW t, NEW u, NEW tok, Longer(t, u, tok), NEW k \in 1..Len(t) + 1
    PROVE  OpenAt(u, k) = OpenAt(t, k)
<1> DEFINE P(s, j) == /\ s[j].kind \in IfKinds
                      /\ \A m \in j+1..k-1 :
                           Count(s, {"endif"}, j+1..m) <= Count(s, IfKinds, j+1..m)
<1>1. Len(t) \in Nat /\ \A m \in 1..Len(t) : u[m] = t[m]
  BY DEF Longer
<1>2. ASSUME NEW j \in 1..k-1 PROVE P(u, j) <=> P(t, j)
  <2>1. u[j] = t[j]
    BY <1>1
  <2>2. ASSUME NEW m \in j+1..k-1
        PROVE  /\ Count(u, {"endif"}, j+1..m) = Count(t, {"endif"}, j+1..m)
               /\ Count(u, IfKinds, j+1..m) = Count(t, IfKinds, j+1..m)
    <3>1. \A i \in j+1..m : u[i] = t[i]
      BY <1>1
    <3> QED
      BY <3>1, CountSame
  <2> QED
    BY <2>1, <2>2
<1>3. OpenAt(u, k) = {j \in 1..k-1 : P(u, j)} /\ OpenAt(t, k) = {j \in 1..k-1 : P(t, j)}
  BY DEF OpenAt
<1> HIDE DEF P
<1> QED
  BY <1>2, <1>3

(* A token of another kind opens and closes nothing, a conditional opens     *)
(* itself, and an #endif closes what has no #endif to spare.                 *)
LEMMA OpenStep ==
    ASSUME NEW t, NEW u, NEW tok, Longer(t, u, tok)
    PROVE  LET n == Len(t)
           IN  /\ tok.kind \notin IfKinds \union {"endif"} => OpenAt(u, n + 2) = OpenAt(t, n + 1)
               /\ tok.kind \in IfKinds => OpenAt(u, n + 2) = OpenAt(t, n + 1) \union {n + 1}
               /\ tok.kind = "endif" =>
                    OpenAt(u, n + 2) = {j \in OpenAt(t, n + 1) :
                                          Count(t, {"endif"}, j+1..n) < Count(t, IfKinds, j+1..n)}
<1> DEFINE n == Len(t)
           E(s, a, b) == Count(s, {"endif"}, a..b)
           I(s, a, b) == Count(s, IfKinds, a..b)
           e == IF tok.kind = "endif" THEN 1 ELSE 0
           i == IF tok.kind \in IfKinds THEN 1 ELSE 0
           Balanced(j, last) == \A m \in j+1..last : E(u, j+1, m) <= I(u, j+1, m)
<1>1. n \in Nat /\ u[n+1] = tok /\ \A k \in 1..n : u[k] = t[k]
  BY DEF Longer
<1>2. OpenAt(t, n + 1) = OpenAt(u, n + 1)
  BY <1>1, OpenSame
<1>3. \A k \in Nat \ {0} : OpenAt(u, k) = {j \in 1..k-1 : u[j].kind \in IfKinds /\ Balanced(j, k-1)}
  BY DEF OpenAt
<1>4. n + 1 \in Nat \ {0} /\ n + 2 \in Nat \ {0} /\ (n + 2) - 1 = n + 1 /\ (n + 1) - 1 = n
  BY <1>1
<1>5. ASSUME NEW j \in 1..n
      PROVE  /\ E(u, j+1, n+1) = E(t, j+1, n) + e /\ I(u, j+1, n+1) = I(t, j+1, n) + i
             /\ E(t, j+1, n) \in Nat /\ I(t, j+1, n) \in Nat
             /\ E(u, j+1, n) = E(t, j+1, n) /\ I(u, j+1, n) = I(t, j+1, n)
             /\ (j + 1 > n => E(t, j+1, n) = 0 /\ I(t, j+1, n) = 0)
  <2>1. j + 1 \in Nat /\ j + 1 <= n + 1 /\ \A k \in j+1..n : u[k] = t[k]
    BY <1>1
  <2>2. E(u, j+1, n) = E(t, j+1, n) /\ I(u, j+1, n) = I(t, j+1, n)
    BY <2>1, CountSame
  <2>3. /\ E(t, j+1, n) \in Nat /\ I(t, j+1, n) \in Nat
        /\ (n < j + 1 => E(t, j+1, n) = 0 /\ I(t, j+1, n) = 0)
    BY <1>1, <2>1, CountStep
  <2>6. \A kinds : Count(u, kinds, j+1..n+1) = Count(u, kinds, j+1..n)
                                              + (IF u[n+1].kind \in kinds THEN 1 ELSE 0)
    <3> DEFINE a == j + 1
    <3> HIDE DEF a, n
    <3>1. a \in Nat /\ n \in Nat /\ a <= n + 1
      BY <1>1, <2>1 DEF a
    <3>2. \A kinds : Count(u, kinds, a..n+1) = Count(u, kinds, a..n)
                                              + (IF u[n+1].kind \in kinds THEN 1 ELSE 0)
      BY <3>1, CountStep
    <3> QED
      BY <3>2 DEF a
  <2>4. E(u, j+1, n+1) = E(u, j+1, n) + (IF u[n+1].kind \in {"endif"} THEN 1 ELSE 0)
    BY <2>6
  <2>5. I(u, j+1, n+1) = I(u, j+1, n) + (IF u[n+1].kind \in IfKinds THEN 1 ELSE 0)
    BY <2>6
  <2> HIDE DEF E, I
  <2> QED
    BY <1>1, <2>1, <2>2, <2>3, <2>4, <2>5
<1> HIDE DEF n, E, I
<1>6. ASSUME NEW j \in 1..n
      PROVE  Balanced(j, n+1) <=> Balanced(j, n) /\ E(t, j+1, n) + e <= I(t, j+1, n) + i
  <2>1. j+1..n+1 = (j+1..n) \union {n+1}
    BY <1>1
  <2> QED
    BY <1>1, <1>5, <2>1
<1>7. ASSUME NEW j \in 1..n, Balanced(j, n) PROVE E(t, j+1, n) <= I(t, j+1, n)
  <2>1. CASE j + 1 > n
    BY <1>5, <2>1
  <2>2. CASE j + 1 <= n
    <3>1. n \in j+1..n
      BY <1>1, <2>2
    <3> QED
      BY <1>5, <1>7, <3>1
  <2> QED
    BY <1>1, <2>1, <2>2
<1>8. Balanced(n+1, n+1)
  BY <1>1
<1> DEFINE B(j) == Balanced(j, n)
           C(j) == Balanced(j, n+1)
<1>9. OpenAt(t, n+1) = {j \in 1..n : u[j].kind \in IfKinds /\ B(j)}
  <2> HIDE DEF Balanced
  <2> QED
    BY <1>2, <1>3, <1>4
<1>10. OpenAt(u, n+2) = {j \in 1..n+1 : u[j].kind \in IfKinds /\ C(j)}
  <2> HIDE DEF Balanced
  <2> QED
    BY <1>3, <1>4
<1>11. 1..n+1 = (1..n) \union {n+1} /\ n+1 \notin 1..n
  BY <1>1
<1>12. ASSUME NEW j \in 1..n
       PROVE  /\ tok.kind # "endif" => (C(j) <=> B(j))
              /\ tok.kind = "endif" => (C(j) <=> B(j) /\ E(t, j+1, n) < I(t, j+1, n))
  <2>1. "endif" \notin IfKinds
    BY DEF IfKinds
  <2>2. E(t, j+1, n) \in Nat /\ I(t, j+1, n) \in Nat
    BY <1>5
  <2>3. C(j) <=> B(j) /\ E(t, j+1, n) + e <= I(t, j+1, n) + i
    BY <1>6
  <2>4. B(j) => E(t, j+1, n) <= I(t, j+1, n)
    BY <1>7
  <2> HIDE DEF B, C
  <2> QED
    BY <2>1, <2>2, <2>3, <2>4
<1> HIDE DEF B, C, Balanced
<1>13. C(n+1)
  BY <1>8 DEF C
<1>14. tok.kind \notin IfKinds \union {"endif"} => OpenAt(u, n + 2) = OpenAt(t, n + 1)
  BY <1>1, <1>9, <1>10, <1>11, <1>12
<1>15. tok.kind \in IfKinds => OpenAt(u, n + 2) = OpenAt(t, n + 1) \union {n + 1}
  <2>1. "endif" \notin IfKinds
    BY DEF IfKinds
  <2> QED
    BY <1>1, <1>9, <1>10, <1>11, <1>12, <1>13, <2>1
<1>16. tok.kind = "endif" =>
         OpenAt(u, n + 2) = {j \in OpenAt(t, n + 1) : E(t, j+1, n) < I(t, j+1, n)}
  <2>1. "endif" \notin IfKinds
    BY DEF IfKinds
  <2> QED
    BY <1>1, <1>9, <1>10, <1>11, <1>12, <2>1
<1> QED
  BY <1>14, <1>15, <1>16 DEF n, E, I

-----------------------------------------------------------------------------
(* and the macros that are defined there.                                    *)

(* What is defined at a token depends on the tokens before it.               *)
LEMMA DefinedSame ==
    ASSUME NEW t, NEW u, NEW tok, Longer(t, u, tok), NEW k \in 1..Len(t) + 1
    PROVE  DefinedAt(u, k) = DefinedAt(t, k) /\ \A j \in DefinedAt(t, k) : u[j] = t[j]
<1>1. Len(t) \in Nat /\ \A m \in 1..Len(t) : u[m] = t[m]
  BY DEF Longer
<1>2. ASSUME NEW j \in 1..k-1
      PROVE  /\ u[j] = t[j]
             /\ \A m \in j+1..k-1 : u[m] = t[m]
  BY <1>1
<1> QED
  BY <1>2 DEF DefinedAt

(* Of one name there is one definition in force.                             *)
LEMMA DefinedOnce ==
    ASSUME NEW t, NEW k \in Nat, NEW i \in DefinedAt(t, k), NEW j \in DefinedAt(t, k),
           t[i].name = t[j].name
    PROVE  i = j
<1>1. /\ i \in 1..k-1 /\ Sets(t[i]) /\ \A m \in i+1..k-1 : Sets(t[m]) => t[m].name # t[i].name
      /\ j \in 1..k-1 /\ Sets(t[j]) /\ \A m \in j+1..k-1 : Sets(t[m]) => t[m].name # t[j].name
  BY DEF DefinedAt
<1>2. ~(i < j)
  <2> SUFFICES ASSUME i < j PROVE FALSE
    OBVIOUS
  <2>1. j \in i+1..k-1
    BY <1>1
  <2> QED
    BY <1>1, <2>1
<1>3. ~(j < i)
  <2> SUFFICES ASSUME j < i PROVE FALSE
    OBVIOUS
  <2>1. i \in j+1..k-1
    BY <1>1
  <2> QED
    BY <1>1, <2>1
<1> QED
  BY <1>1, <1>2, <1>3

(* The table of macros, definition by definition.                            *)
LEMMA MacrosAre ==
    ASSUME NEW t, NEW k \in Nat
    PROVE  LET D == DefinedAt(t, k)
               M == MacrosAt(t, k)
           IN  /\ M = [name \in DOMAIN M |-> M[name]]
               /\ DOMAIN M = {t[j].name : j \in D}
               /\ \A j \in D : M[t[j].name] = t[j].value
<1> DEFINE D == DefinedAt(t, k)
           M == MacrosAt(t, k)
           choice(name) == CHOOSE j \in D : t[j].name = name
<1>1. M = [name \in {t[j].name : j \in D} |-> t[choice(name)].value]
  BY DEF MacrosAt
<1>2. ASSUME NEW j \in D PROVE choice(t[j].name) = j
  <2>1. choice(t[j].name) \in D /\ t[choice(t[j].name)].name = t[j].name
    OBVIOUS
  <2> HIDE DEF choice
  <2> QED
    BY <2>1, DefinedOnce
<1> HIDE DEF M, choice, D
<1>3. ASSUME NEW j \in D PROVE M[t[j].name] = t[j].value
  <2>1. t[j].name \in {t[i].name : i \in D}
    OBVIOUS
  <2> QED
    BY <1>1, <1>2, <2>1
<1>4. DOMAIN M = {t[j].name : j \in D} /\ M = [name \in DOMAIN M |-> M[name]]
  BY <1>1
<1> QED
  BY <1>3, <1>4 DEF D, M

(* A token that sets no macro leaves the definitions, #define adds its own   *)
(* to those of other names, #undef leaves those of other names.              *)
LEMMA DefinedStep ==
    ASSUME NEW t, NEW u, NEW tok, Longer(t, u, tok)
    PROVE  LET n == Len(t)
               D == DefinedAt(t, n + 1)
               others == {j \in D : t[j].name # tok.name}
           IN  /\ ~Sets(tok) => DefinedAt(u, n + 2) = D
               /\ Sets(tok) /\ tok.kind = "define" =>
                    DefinedAt(u, n + 2) = others \union {n + 1}
               /\ tok.kind = "undef" => DefinedAt(u, n + 2) = others
<1> DEFINE n == Len(t)
           In(j, last) == /\ Sets(u[j]) /\ u[j].kind = "define"
                          /\ \A m \in j+1..last : Sets(u[m]) => u[m].name # u[j].name
           D == DefinedAt(t, n + 1)
<1>1. n \in Nat /\ u[n+1] = tok /\ \A k \in 1..n : u[k] = t[k]
  BY DEF Longer
<1>2. D = {j \in 1..n : In(j, n)}
  <2>1. DefinedAt(u, n + 1) = D
    BY <1>1, DefinedSame
  <2>2. (n + 1) - 1 = n
    BY <1>1
  <2> HIDE DEF D, n
  <2> QED
    BY <2>1, <2>2 DEF DefinedAt
<1>3. DefinedAt(u, n + 2) = {j \in 1..n+1 : In(j, n+1)}
  <2>1. (n + 2) - 1 = n + 1
    BY <1>1
  <2> HIDE DEF n
  <2> QED
    BY <2>1 DEF DefinedAt
<1>4. ASSUME NEW j \in 1..n
      PROVE  In(j, n+1) <=> In(j, n) /\ (Sets(tok) => tok.name # t[j].name)
  <2>1. j+1..n+1 = (j+1..n) \union {n+1} /\ u[j] = t[j]
    BY <1>1
  <2> QED
    BY <1>1, <2>1
<1>5. In(n+1, n+1) <=> Sets(tok) /\ tok.kind = "define"
  <2>1. (n+1)+1..n+1 = {}
    BY <1>1
  <2> QED
    BY <1>1, <2>1
<1>6. 1..n+1 = (1..n) \union {n+1} /\ n+1 \notin 1..n
  BY <1>1
<1>7. tok.kind = "undef" => Sets(tok) /\ tok.kind # "define"
  BY DEF Sets
<1> HIDE DEF In, D, n
<1>8. ~Sets(tok) => DefinedAt(u, n + 2) = D
  BY <1>2, <1>3, <1>4, <1>5, <1>6
<1>9. Sets(tok) /\ tok.kind = "define" =>
        DefinedAt(u, n + 2) = {j \in D : t[j].name # tok.name} \union {n + 1}
  BY <1>2, <1>3, <1>4, <1>5, <1>6
<1>10. tok.kind = "undef" => DefinedAt(u, n + 2) = {j \in D : t[j].name # tok.name}
  BY <1>2, <1>3, <1>4, <1>5, <1>6, <1>7
<1> QED
  BY <1>8, <1>9, <1>10 DEF D, n

(* The table of macros before a token is the same in the longer sequence.    *)
LEMMA MacrosSame ==
    ASSUME NEW t, NEW u, NEW tok, Longer(t, u, tok), NEW k \in 1..Len(t) + 1
    PROVE  MacrosAt(u, k) = MacrosAt(t, k)
<1> DEFINE D == DefinedAt(t, k)
           M == MacrosAt(t, k)
           W == MacrosAt(u, k)
<1>1. DefinedAt(u, k) = D /\ \A j \in D : u[j] = t[j]
  BY DefinedSame
<1>2. k \in Nat
  BY DEF Longer
<1>3. /\ M = [name \in DOMAIN M |-> M[name]]
      /\ DOMAIN M = {t[j].name : j \in D}
      /\ \A j \in D : M[t[j].name] = t[j].value
  BY <1>2, MacrosAre
<1>4. /\ W = [name \in DOMAIN W |-> W[name]]
      /\ DOMAIN W = {u[j].name : j \in DefinedAt(u, k)}
      /\ \A j \in DefinedAt(u, k) : W[u[j].name] = u[j].value
  BY <1>2, MacrosAre
<1> HIDE DEF D, M, W
<1>5. DOMAIN M = DOMAIN W /\ \A name \in DOMAIN M : M[name] = W[name]
  BY <1>1, <1>3, <1>4
<1>6. M = W
  BY <1>3, <1>4, <1>5
<1> QED
  BY <1>6 DEF M, W

(* What a token does to the table of macros.                                 *)
LEMMA MacrosStep ==
    ASSUME NEW t, NEW u, NEW tok, Longer(t, u, tok)
    PROVE  LET M == MacrosAt(t, Len(t) + 1)
               W == MacrosAt(u, Len(t) + 2)
           IN  /\ ~Sets(tok) => W = M
               /\ Sets(tok) /\ tok.kind = "define" =>
                    W = [name \in DOMAIN M \union {tok.name} |->
                           IF name = tok.name THEN tok.value ELSE M[name]]
               /\ tok.kind = "undef" =>
                    W = [name \in DOMAIN M \ {tok.name} |-> M[name]]
<1> DEFINE n == Len(t)
           D == DefinedAt(t, n + 1)
           F == DefinedAt(u, n + 2)
           others == {j \in D : t[j].name # tok.name}
           M == MacrosAt(t, n + 1)
           W == MacrosAt(u, n + 2)
<1>1. n \in Nat /\ u[n+1] = tok /\ \A k \in 1..n : u[k] = t[k]
  BY DEF Longer
<1>2. \A j \in D : u[j] = t[j]
  BY <1>1 DEF DefinedAt
<1>3. n + 1 \in Nat /\ n + 2 \in Nat
  BY <1>1
<1>4. /\ M = [name \in DOMAIN M |-> M[name]]
      /\ DOMAIN M = {t[j].name : j \in D}
      /\ \A j \in D : M[t[j].name] = t[j].value
  <2> HIDE DEF n
  <2> QED
    BY <1>3, MacrosAre
<1>5. /\ W = [name \in DOMAIN W |-> W[name]]
      /\ DOMAIN W = {u[j].name : j \in F}
      /\ \A j \in F : W[u[j].name] = u[j].value
  <2> HIDE DEF n
  <2> QED
    BY <1>3, MacrosAre
<1>6. /\ ~Sets(tok) => F = D
      /\ Sets(tok) /\ tok.kind = "define" => F = others \union {n + 1}
      /\ tok.kind = "undef" => F = others
  BY DefinedStep
<1> HIDE DEF n, D, F, M, W
<1>7. ASSUME ~Sets(tok) PROVE W = M
  <2>1. DOMAIN W = DOMAIN M /\ \A name \in DOMAIN M : W[name] = M[name]
    BY <1>2, <1>4, <1>5, <1>6, <1>7
  <2> QED
    BY <1>4, <1>5, <2>1
<1>8. ASSUME tok.kind = "undef" PROVE W = [name \in DOMAIN M \ {tok.name} |-> M[name]]
  <2>1. DOMAIN W = DOMAIN M \ {tok.name}
    BY <1>2, <1>4, <1>5, <1>6, <1>8
  <2>2. \A name \in DOMAIN W : W[name] = M[name]
    BY <1>2, <1>4, <1>5, <1>6, <1>8
  <2> QED
    BY <1>5, <2>1, <2>2
<1>9. ASSUME Sets(tok), tok.kind = "define"
      PROVE  W = [name \in DOMAIN M \union {tok.name} |->
                    IF name = tok.name THEN tok.value ELSE M[name]]
  <2>1. F = others \union {n + 1}
    BY <1>6, <1>9
  <2>2. DOMAIN W = DOMAIN M \union {tok.name}
    <3>1. \A name \in DOMAIN W : name \in DOMAIN M \union {tok.name}
      BY <1>1, <1>2, <1>4, <1>5, <2>1
    <3>2. ASSUME NEW name \in DOMAIN M \union {tok.name} PROVE name \in DOMAIN W
      <4>1. CASE name = tok.name
        BY <1>1, <1>5, <2>1, <4>1
      <4>2. CASE name # tok.name
        <5>1. PICK j \in D : name = t[j].name
          BY <1>4, <4>2
        <5>2. j \in F /\ u[j] = t[j]
          BY <1>2, <2>1, <4>2, <5>1
        <5> QED
          BY <1>5, <5>1, <5>2
      <4> QED
        BY <4>1, <4>2
    <3> QED
      BY <3>1, <3>2
  <2>3. W[tok.name] = tok.value
    BY <1>1, <1>5, <2>1
  <2>4. ASSUME NEW name \in DOMAIN M, name # tok.name PROVE W[name] = M[name]
    <3>1. PICK j \in D : name = t[j].name
      BY <1>4
    <3>2. j \in F /\ u[j] = t[j]
      BY <1>2, <2>1, <2>4, <3>1
    <3> QED
      BY <1>4, <1>5, <3>1, <3>2
  <2>5. \A name \in DOMAIN M \union {tok.name} :
          W[name] = IF name = tok.name THEN tok.value ELSE M[name]
    BY <2>3, <2>4
  <2> QED
    BY <1>5, <2>2, <2>5
<1> QED
  BY <1>7, <1>8, <1>9 DEF n, M, W

(* A condition, whether it is open and what it says, is that of the tokens   *)
(* before it.                                                                *)
LEMMA ConditionSame ==
    ASSUME NEW t, NEW u, NEW tok, Longer(t, u, tok)
    PROVE  /\ \A j \in 1..Len(t) : ConditionHolds(u, j) <=> ConditionHolds(t, j)
           /\ ConditionHolds(u, Len(t) + 1)
                <=> ((tok.kind = "ifdef") = (tok.name \in DOMAIN MacrosAt(t, Len(t) + 1)))
<1>1. Len(t) \in Nat /\ u[Len(t) + 1] = tok /\ \A k \in 1..Len(t) : u[k] = t[k]
  BY DEF Longer
<1>2. ASSUME NEW j \in 1..Len(t) PROVE ConditionHolds(u, j) <=> ConditionHolds(t, j)
  <2>1. j \in 1..Len(t) + 1 /\ u[j] = t[j]
    BY <1>1
  <2>2. DefinedAt(u, j) = DefinedAt(t, j) /\ \A d \in DefinedAt(t, j) : u[d] = t[d]
    BY <2>1, DefinedSame
  <2> QED
    BY <2>1, <2>2 DEF ConditionHolds
<1>3. ConditionHolds(u, Len(t) + 1)
        <=> ((tok.kind = "ifdef") = (tok.name \in DOMAIN MacrosAt(t, Len(t) + 1)))
  <2> DEFINE k == Len(t) + 1
  <2>1. k \in 1..Len(t) + 1 /\ k \in Nat
    BY <1>1
  <2>2. DefinedAt(u, k) = DefinedAt(t, k) /\ \A d \in DefinedAt(t, k) : u[d] = t[d]
    BY <2>1, DefinedSame
  <2>3. DOMAIN MacrosAt(t, k) = {t[j].name : j \in DefinedAt(t, k)}
    <3> DEFINE D == DefinedAt(t, k)
               M == MacrosAt(t, k)
    <3>1. /\ M = [name \in DOMAIN M |-> M[name]]
          /\ DOMAIN M = {t[j].name : j \in D}
          /\ \A j \in D : M[t[j].name] = t[j].value
      <4> HIDE DEF k
      <4> QED
        BY <2>1, MacrosAre
    <3> QED
      BY <3>1
  <2> HIDE DEF k
  <2>4. (\E d \in DefinedAt(u, k) : u[d].name = tok.name) <=> tok.name \in DOMAIN MacrosAt(t, k)
    BY <2>2, <2>3
  <2>5. ConditionHolds(u, k)
          <=> ((tok.kind = "ifdef") = (\E d \in DefinedAt(u, k) : u[d].name = tok.name))
    BY <1>1 DEF ConditionHolds, k
  <2>6. (\E d \in DefinedAt(u, k) : u[d].name = tok.name) = (tok.name \in DOMAIN MacrosAt(t, k))
    <3> DEFINE p == \E d \in DefinedAt(u, k) : u[d].name = tok.name
               q == tok.name \in DOMAIN MacrosAt(t, k)
    <3>1. p \in BOOLEAN /\ q \in BOOLEAN /\ (p <=> q)
      BY <2>4
    <3> HIDE DEF p, q
    <3>2. p = q
      BY <3>1
    <3> QED
      BY <3>2, Zenon DEF p, q
  <2>7. ConditionHolds(u, k)
          <=> ((tok.kind = "ifdef") = (tok.name \in DOMAIN MacrosAt(t, k)))
    BY <2>5, <2>6, Zenon
  <2> QED
    BY <2>7, Zenon DEF k
<1> QED
  BY <1>2, <1>3

(* What one more token adds to the selection.                                *)
LEMMA SelectedStep ==
    ASSUME NEW t, NEW u, NEW tok, Longer(t, u, tok)
    PROVE  Selected(u) =
             IF tok.kind \in Text
                  /\ \A j \in OpenAt(t, Len(t) + 1) : ConditionHolds(t, j)
             THEN Append(Selected(t), Expanded(MacrosAt(t, Len(t) + 1), tok))
             ELSE Selected(t)
<1> DEFINE n == Len(t)
           a == [k \in DOMAIN t |-> Expanded(MacrosAt(t, k), t[k])]
           b == [k \in DOMAIN u |-> Expanded(MacrosAt(u, k), u[k])]
           A == {k \in DOMAIN t : Chosen(t, k)}
           B == {k \in DOMAIN u : Chosen(u, k)}
<1>1. /\ n \in Nat /\ u[n+1] = tok /\ \A k \in 1..n : u[k] = t[k]
      /\ DOMAIN t = 1..n /\ DOMAIN u = 1..n+1
  BY DEF Longer
<1>2. ASSUME NEW k \in 1..n+1 PROVE \A j \in OpenAt(t, k) : ConditionHolds(u, j) <=> ConditionHolds(t, j)
  <2>1. \A j \in OpenAt(t, k) : j \in 1..n
    BY <1>1 DEF OpenAt
  <2> QED
    BY <2>1, ConditionSame
<1>3. ASSUME NEW k \in 1..n+1
      PROVE  Chosen(u, k) <=> u[k].kind \in Text /\ \A j \in OpenAt(t, k) : ConditionHolds(t, j)
  <2>1. OpenAt(u, k) = OpenAt(t, k)
    BY OpenSame
  <2> QED
    BY <1>2, <2>1 DEF Chosen
<1>4. ASSUME NEW k \in 1..n PROVE b[k] = a[k] /\ (k \in B <=> k \in A)
  <2>1. k \in 1..n+1 /\ u[k] = t[k]
    BY <1>1
  <2>2. MacrosAt(u, k) = MacrosAt(t, k)
    BY <2>1, MacrosSame
  <2>3. Chosen(u, k) <=> Chosen(t, k)
    BY <1>3, <2>1 DEF Chosen
  <2> QED
    BY <1>1, <2>1, <2>2, <2>3
<1>5. n+1 \in 1..n+1
  BY <1>1
<1>6. n+1 \in B <=> tok.kind \in Text /\ \A j \in OpenAt(t, n+1) : ConditionHolds(t, j)
  <2>1. Chosen(u, n+1) <=> u[n+1].kind \in Text /\ \A j \in OpenAt(t, n+1) : ConditionHolds(t, j)
    BY <1>3, <1>5
  <2> QED
    BY <1>1, <1>5, <2>1
<1>7. b[n+1] = Expanded(MacrosAt(t, n+1), tok)
  <2>1. MacrosAt(u, n+1) = MacrosAt(t, n+1)
    BY <1>5, MacrosSame
  <2> QED
    BY <1>1, <1>5, <2>1
<1>8. Len(a) = n /\ Len(b) = n + 1
  <2>1. /\ a = [k \in 1..n |-> Expanded(MacrosAt(t, k), t[k])]
        /\ b = [k \in 1..n+1 |-> Expanded(MacrosAt(u, k), u[k])]
    BY <1>1
  <2>2. a \in Seq({Expanded(MacrosAt(t, k), t[k]) : k \in 1..n})
    <3> HIDE DEF n
    <3> QED
      BY <1>1, <2>1, IsASeq
  <2>3. b \in Seq({Expanded(MacrosAt(u, k), u[k]) : k \in 1..n+1})
    <3> DEFINE m == n + 1
    <3>1. m \in Nat
      BY <1>1
    <3> HIDE DEF m
    <3>2. [k \in 1..m |-> Expanded(MacrosAt(u, k), u[k])]
            \in Seq({Expanded(MacrosAt(u, k), u[k]) : k \in 1..m})
      BY <3>1, IsASeq
    <3> QED
      BY <2>1, <3>2 DEF m
  <2>4. DOMAIN a = 1..n /\ DOMAIN b = 1..n+1
    BY <2>1
  <2> HIDE DEF a, b
  <2>5. Len(a) = n
    BY <1>1, <2>2, <2>4, LenProperties
  <2>6. Len(b) = n + 1
    BY <1>1, <2>3, <2>4, LenProperties
  <2> QED
    BY <2>5, <2>6
<1> HIDE DEF a, b, A, B, n
<1>9. Subsequence(b, B) = IF Len(b) \in B THEN Append(Subsequence(a, A), b[Len(b)])
                          ELSE Subsequence(a, A)
  BY <1>1, <1>4, <1>8, SubsequenceStep
<1>10. Selected(t) = Subsequence(a, A) /\ Selected(u) = Subsequence(b, B)
  BY DEF Selected, a, b, A, B
<1> QED
  BY <1>6, <1>7, <1>8, <1>9, <1>10 DEF n

-----------------------------------------------------------------------------
(* The stack of conditionals is what is said of the tokens at once.          *)

(* What the stack of conditionals says of the tokens t that are behind it:   *)
(* from the second on, its entries are those of the conditionals that are    *)
(* open, each true if its condition and those around it hold; and of the     *)
(* conditionals behind an entry those are not closed that are above it.      *)
Stacked(t, opens, stack) ==
    /\ opens \in Seq(Nat) /\ Len(opens) = Len(stack) /\ opens[1] = 0
    /\ \A i \in 1..Len(stack) : opens[i] <= Len(t)
    /\ OpenAt(t, Len(t) + 1) = {opens[i] : i \in 2..Len(stack)}
    /\ \A i \in 1..Len(stack) :
         Count(t, IfKinds, opens[i]+1..Len(t))
           = Count(t, {"endif"}, opens[i]+1..Len(t)) + (Len(stack) - i)
    /\ \A i \in 1..Len(stack) : stack[i] <=> \A m \in 2..i : ConditionHolds(t, opens[m])

(* How the counts behind an entry grow with a token.                         *)
LEMMA CountLonger ==
    ASSUME NEW t, NEW u, NEW tok, Longer(t, u, tok), NEW o \in Nat, o <= Len(t), NEW kinds
    PROVE  /\ Count(t, kinds, o+1..Len(t)) \in Nat
           /\ Count(u, kinds, o+1..Len(u)) = Count(t, kinds, o+1..Len(t))
                                               + (IF tok.kind \in kinds THEN 1 ELSE 0)
<1> DEFINE a == o + 1
           n == Len(t)
           range == a..n
<1>1. /\ n \in Nat /\ u[n+1] = tok /\ Len(u) = n + 1 /\ \A k \in 1..n : u[k] = t[k]
  BY DEF Longer
<1>2. \A k \in range : u[k] = t[k]
  BY <1>1
<1>3. a \in Nat /\ n \in Nat /\ a <= n + 1
  BY <1>1
<1> HIDE DEF range
<1>4. Count(u, kinds, range) = Count(t, kinds, range)
  BY <1>2, CountSame
<1> HIDE DEF a, n
<1>5. Count(t, kinds, a..n) \in Nat
  BY <1>3, CountStep
<1>6. Count(u, kinds, a..n+1) = Count(u, kinds, a..n) + (IF u[n+1].kind \in kinds THEN 1 ELSE 0)
  BY <1>3, CountStep
<1>7. Count(u, kinds, a..n+1) = Count(t, kinds, a..n) + (IF tok.kind \in kinds THEN 1 ELSE 0)
  BY <1>1, <1>4, <1>6 DEF range
<1>8. Count(u, kinds, a..Len(u)) = Count(u, kinds, a..n+1)
  BY <1>1
<1> QED
  BY <1>5, <1>7, <1>8 DEF a, n

(* The same for the two counts that matter.                                  *)
LEMMA CountsLonger ==
    ASSUME NEW t, NEW u, NEW tok, Longer(t, u, tok), NEW o \in Nat, o <= Len(t)
    PROVE  /\ Count(t, IfKinds, o+1..Len(t)) \in Nat
           /\ Count(t, {"endif"}, o+1..Len(t)) \in Nat
           /\ Count(u, IfKinds, o+1..Len(u)) = Count(t, IfKinds, o+1..Len(t))
                                                 + (IF tok.kind \in IfKinds THEN 1 ELSE 0)
           /\ Count(u, {"endif"}, o+1..Len(u)) = Count(t, {"endif"}, o+1..Len(t))
                                                   + (IF tok.kind = "endif" THEN 1 ELSE 0)
<1> DEFINE ends == {"endif"}
<1>1. tok.kind \in ends <=> tok.kind = "endif"
  OBVIOUS
<1> HIDE DEF ends
<1>2. /\ Count(t, ends, o+1..Len(t)) \in Nat
      /\ Count(u, ends, o+1..Len(u)) = Count(t, ends, o+1..Len(t))
                                         + (IF tok.kind \in ends THEN 1 ELSE 0)
  BY CountLonger
<1>3. /\ Count(t, IfKinds, o+1..Len(t)) \in Nat
      /\ Count(u, IfKinds, o+1..Len(u)) = Count(t, IfKinds, o+1..Len(t))
                                            + (IF tok.kind \in IfKinds THEN 1 ELSE 0)
  BY CountLonger
<1>4. (IF tok.kind \in ends THEN 1 ELSE 0) = (IF tok.kind = "endif" THEN 1 ELSE 0)
  BY <1>1
<1> QED
  BY <1>2, <1>3, <1>4 DEF ends

(* The types of what is stacked, and the conditions in a longer sequence.    *)
LEMMA StackedTyped ==
    ASSUME NEW t, NEW u, NEW tok, Longer(t, u, tok),
           NEW opens, NEW stack \in Seq(BOOLEAN), stack # <<>>, Stacked(t, opens, stack)
    PROVE  /\ Len(stack) \in Nat \ {0} /\ DOMAIN stack = 1..Len(stack)
           /\ \A i \in 1..Len(stack) : opens[i] \in Nat /\ opens[i] <= Len(t)
           /\ \A i \in 2..Len(stack) :
                opens[i] \in 1..Len(t) /\ (ConditionHolds(u, opens[i]) <=> ConditionHolds(t, opens[i]))
           /\ \A i \in 1..Len(stack) :
                stack[i] <=> \A m \in 2..i : ConditionHolds(u, opens[m])
<1>1. Len(stack) \in Nat \ {0} /\ DOMAIN stack = 1..Len(stack)
  BY LenProperties, EmptySeq
<1>2. \A i \in 1..Len(stack) : opens[i] \in Nat /\ opens[i] <= Len(t)
  <2>1. opens \in Seq(Nat) /\ Len(opens) = Len(stack)
    BY DEF Stacked
  <2> QED
    BY <2>1, ElementOfSeq DEF Stacked
<1>3. ASSUME NEW i \in 2..Len(stack)
      PROVE  opens[i] \in 1..Len(t) /\ (ConditionHolds(u, opens[i]) <=> ConditionHolds(t, opens[i]))
  <2>1. opens[i] \in OpenAt(t, Len(t) + 1)
    BY DEF Stacked
  <2>2. opens[i] \in 1..Len(t)
    <3>1. Len(t) \in Nat /\ (Len(t) + 1) - 1 = Len(t)
      BY DEF Longer
    <3> QED
      BY <2>1, <3>1 DEF OpenAt
  <2> QED
    BY <2>2, ConditionSame
<1>4. ASSUME NEW i \in 1..Len(stack)
      PROVE  stack[i] <=> \A m \in 2..i : ConditionHolds(u, opens[m])
  <2>1. stack[i] <=> \A m \in 2..i : ConditionHolds(t, opens[m])
    BY DEF Stacked
  <2>2. \A m \in 2..i : m \in 2..Len(stack)
    BY <1>1
  <2> QED
    BY <1>3, <2>1, <2>2
<1> QED
  BY <1>1, <1>2, <1>3, <1>4

(* A token that opens and closes nothing.                                    *)
LEMMA StackedText ==
    ASSUME NEW t, NEW u, NEW tok, Longer(t, u, tok), tok.kind \notin IfKinds \union {"endif"},
           NEW opens, NEW stack \in Seq(BOOLEAN), stack # <<>>, Stacked(t, opens, stack)
    PROVE  Stacked(u, opens, stack)
<1>1. Len(t) \in Nat /\ Len(u) = Len(t) + 1
  BY DEF Longer
<1>2. /\ Len(stack) \in Nat \ {0}
      /\ \A i \in 1..Len(stack) : opens[i] \in Nat /\ opens[i] <= Len(t)
      /\ \A i \in 1..Len(stack) : stack[i] <=> \A m \in 2..i : ConditionHolds(u, opens[m])
  BY StackedTyped
<1>3. OpenAt(u, Len(u) + 1) = {opens[i] : i \in 2..Len(stack)}
  <2>1. OpenAt(u, Len(t) + 2) = OpenAt(t, Len(t) + 1)
    BY OpenStep
  <2>2. Len(u) + 1 = Len(t) + 2
    BY <1>1
  <2> QED
    BY <2>1, <2>2 DEF Stacked
<1>4. ASSUME NEW i \in 1..Len(stack)
      PROVE  Count(u, IfKinds, opens[i]+1..Len(u))
               = Count(u, {"endif"}, opens[i]+1..Len(u)) + (Len(stack) - i)
  <2>1. opens[i] \in Nat /\ opens[i] <= Len(t)
    BY <1>2
  <2>2. /\ Count(t, IfKinds, opens[i]+1..Len(t)) \in Nat
        /\ Count(t, {"endif"}, opens[i]+1..Len(t)) \in Nat
        /\ Count(u, IfKinds, opens[i]+1..Len(u)) = Count(t, IfKinds, opens[i]+1..Len(t))
             + (IF tok.kind \in IfKinds THEN 1 ELSE 0)
        /\ Count(u, {"endif"}, opens[i]+1..Len(u)) = Count(t, {"endif"}, opens[i]+1..Len(t))
             + (IF tok.kind = "endif" THEN 1 ELSE 0)
    BY <2>1, CountsLonger
  <2>4. Count(t, IfKinds, opens[i]+1..Len(t))
          = Count(t, {"endif"}, opens[i]+1..Len(t)) + (Len(stack) - i)
    BY DEF Stacked
  <2> QED
    BY <2>2, <2>4
<1>5. \A i \in 1..Len(stack) : opens[i] <= Len(u)
  BY <1>1, <1>2
<1> QED
  BY <1>2, <1>3, <1>4, <1>5 DEF Stacked

(* A conditional is put on the stack.                                        *)
LEMMA StackedIf ==
    ASSUME NEW t, NEW u, NEW tok, Longer(t, u, tok), tok.kind \in IfKinds,
           NEW opens, NEW stack \in Seq(BOOLEAN), stack # <<>>, Stacked(t, opens, stack),
           NEW holds \in BOOLEAN, holds <=> ConditionHolds(u, Len(t) + 1)
    PROVE  \E more : Stacked(u, more, Append(stack, Last(stack) /\ holds))
<1> DEFINE n == Len(t)
           l == Len(stack)
           more == Append(opens, n + 1)
           top == Last(stack) /\ holds
           s == Append(stack, top)
<1>1. n \in Nat /\ Len(u) = n + 1
  BY DEF Longer
<1>2. /\ l \in Nat \ {0} /\ DOMAIN stack = 1..l
      /\ \A i \in 1..l : opens[i] \in Nat /\ opens[i] <= n
      /\ \A i \in 1..l : stack[i] <=> \A m \in 2..i : ConditionHolds(u, opens[m])
  BY StackedTyped
<1>3. /\ opens \in Seq(Nat) /\ Len(opens) = l /\ opens[1] = 0
      /\ OpenAt(t, n + 1) = {opens[i] : i \in 2..l}
      /\ \A i \in 1..l : Count(t, IfKinds, opens[i]+1..n)
                           = Count(t, {"endif"}, opens[i]+1..n) + (l - i)
  BY DEF Stacked
<1>4. /\ more \in Seq(Nat) /\ Len(more) = l + 1
      /\ \A i \in 1..l : more[i] = opens[i]
      /\ more[l+1] = n + 1
  <2>1. n + 1 \in Nat
    BY <1>1
  <2> QED
    BY <1>3, <2>1, AppendProperties
<1>5. Last(stack) = stack[l] /\ stack[l] \in BOOLEAN
  BY <1>2, ElementOfSeq DEF Last
<1>6. top \in BOOLEAN
  BY <1>5
<1> HIDE DEF top
<1>7. s \in Seq(BOOLEAN) /\ Len(s) = l + 1 /\ (\A i \in 1..l : s[i] = stack[i]) /\ s[l+1] = top
  BY <1>6, AppendProperties
<1> HIDE DEF s, more, n, l
<1>8. OpenAt(u, Len(u) + 1) = {more[i] : i \in 2..l+1}
  <2>1. OpenAt(u, n + 2) = OpenAt(t, n + 1) \union {n + 1}
    BY OpenStep DEF n
  <2>2. Len(u) + 1 = n + 2 /\ 2..l+1 = (2..l) \union {l + 1} /\ \A i \in 2..l : i \in 1..l
    BY <1>1, <1>2
  <2>3. \A i \in 2..l : more[i] = opens[i]
    BY <1>4, <2>2
  <2> DEFINE R == 2..l
  <2>4. 2..l+1 = R \union {l + 1} /\ \A i \in R : more[i] = opens[i]
    BY <2>2, <2>3
  <2>5. OpenAt(t, n + 1) = {opens[i] : i \in R}
    BY <1>3
  <2> HIDE DEF R
  <2>6. OpenAt(t, n + 1) \union {n + 1} = {more[i] : i \in R \union {l + 1}}
    BY <1>4, <2>4, <2>5, SMTT(20)
  <2> QED
    BY <2>1, <2>2, <2>4, <2>6
<1>9. ASSUME NEW i \in 1..l+1
      PROVE  Count(u, IfKinds, more[i]+1..Len(u))
               = Count(u, {"endif"}, more[i]+1..Len(u)) + ((l + 1) - i)
  <2>0. "endif" \notin IfKinds
    BY DEF IfKinds
  <2>1. CASE i = l + 1
    <3> DEFINE a == more[i] + 1
    <3>1. a \in Nat /\ Len(u) \in Nat /\ Len(u) < a
      BY <1>1, <1>4, <2>1
    <3> HIDE DEF a
    <3>2. \A kinds : Count(u, kinds, a..Len(u)) = 0
      BY <3>1, CountStep
    <3>3. Count(u, IfKinds, more[i]+1..Len(u)) = 0 /\ Count(u, {"endif"}, more[i]+1..Len(u)) = 0
      BY <3>2 DEF a
    <3> QED
      BY <1>2, <2>1, <3>3
  <2>2. CASE i \in 1..l
    <3>1. opens[i] \in Nat /\ opens[i] <= Len(t) /\ more[i] = opens[i]
      BY <1>2, <1>4, <2>2 DEF n
    <3>2. /\ Count(t, IfKinds, opens[i]+1..Len(t)) \in Nat
          /\ Count(t, {"endif"}, opens[i]+1..Len(t)) \in Nat
          /\ Count(u, IfKinds, opens[i]+1..Len(u)) = Count(t, IfKinds, opens[i]+1..Len(t))
               + (IF tok.kind \in IfKinds THEN 1 ELSE 0)
          /\ Count(u, {"endif"}, opens[i]+1..Len(u)) = Count(t, {"endif"}, opens[i]+1..Len(t))
               + (IF tok.kind = "endif" THEN 1 ELSE 0)
      BY <3>1, CountsLonger
    <3>4. Count(t, IfKinds, opens[i]+1..Len(t))
            = Count(t, {"endif"}, opens[i]+1..Len(t)) + (l - i)
      BY <1>3, <2>2 DEF n
    <3>5. tok.kind # "endif"
      BY <2>0
    <3> QED
      BY <1>2, <3>1, <3>2, <3>4, <3>5
  <2> QED
    BY <1>2, <2>1, <2>2
<1>10. ASSUME NEW i \in 1..l+1
       PROVE  s[i] <=> \A m \in 2..i : ConditionHolds(u, more[m])
  <2>1. CASE i \in 1..l
    <3>1. \A m \in 2..i : more[m] = opens[m]
      BY <1>2, <1>4, <2>1
    <3> QED
      BY <1>2, <1>7, <2>1, <3>1
  <2>2. CASE i = l + 1
    <3>1. 2..l+1 = (2..l) \union {l + 1} /\ \A m \in 2..l : more[m] = opens[m]
      BY <1>2, <1>4
    <3>2. stack[l] <=> \A m \in 2..l : ConditionHolds(u, opens[m])
      BY <1>2
    <3>3. holds <=> ConditionHolds(u, more[l+1])
      BY <1>4 DEF n
    <3>4. (\A m \in 2..l+1 : ConditionHolds(u, more[m]))
            <=> (\A m \in 2..l : ConditionHolds(u, opens[m])) /\ ConditionHolds(u, more[l+1])
      BY <3>1
    <3>5. s[l+1] <=> stack[l] /\ holds
      BY <1>5, <1>7 DEF top
    <3> QED
      BY <2>2, <3>2, <3>3, <3>4, <3>5
  <2> QED
    BY <1>2, <2>1, <2>2
<1>11. /\ \A i \in 1..l+1 : more[i] <= Len(u)
       /\ more[1] = 0
  <2> HIDE DEF more
  <2>1. ASSUME NEW i \in 1..l+1 PROVE more[i] <= Len(u)
    <3>1. CASE i = l + 1
      BY <1>1, <1>4, <3>1
    <3>2. CASE i # l + 1
      <4>1. i \in 1..l
        BY <1>2, <3>2
      <4>2. more[i] = opens[i] /\ opens[i] \in Nat /\ opens[i] <= n
        BY <1>2, <1>4, <4>1
      <4> QED
        BY <1>1, <4>2
    <3> QED
      BY <3>1, <3>2
  <2>2. more[1] = 0
    BY <1>2, <1>3, <1>4
  <2> QED
    BY <2>1, <2>2
<1>12. Stacked(u, more, s)
  BY <1>4, <1>7, <1>8, <1>9, <1>10, <1>11 DEF Stacked
<1> QED
  BY <1>12 DEF s, top

(* An #endif takes the last conditional from the stack.                      *)
LEMMA StackedEndif ==
    ASSUME NEW t, NEW u, NEW tok, Longer(t, u, tok), tok.kind = "endif",
           NEW opens, NEW stack \in Seq(BOOLEAN), Len(stack) > 1, Stacked(t, opens, stack)
    PROVE  \E less : Stacked(u, less, Front(stack))
<1> DEFINE n == Len(t)
           l == Len(stack)
           less == Front(opens)
           s == Front(stack)
<1>0. stack # <<>>
  BY EmptySeq
<1>1. n \in Nat /\ Len(u) = n + 1
  BY DEF Longer
<1>2. /\ l \in Nat \ {0, 1} /\ DOMAIN stack = 1..l
      /\ \A i \in 1..l : opens[i] \in Nat /\ opens[i] <= n
      /\ \A i \in 1..l : stack[i] <=> \A m \in 2..i : ConditionHolds(u, opens[m])
  <2>1. l \in Nat \ {0}
    BY <1>0, StackedTyped
  <2> QED
    BY <1>0, <2>1, StackedTyped
<1>3. /\ opens \in Seq(Nat) /\ Len(opens) = l /\ opens[1] = 0
      /\ OpenAt(t, n + 1) = {opens[i] : i \in 2..l}
      /\ \A i \in 1..l : Count(t, IfKinds, opens[i]+1..n)
                           = Count(t, {"endif"}, opens[i]+1..n) + (l - i)
  BY DEF Stacked
<1>4. /\ less \in Seq(Nat) /\ Len(less) = l - 1
      /\ \A i \in 1..l-1 : less[i] = opens[i]
  <2>1. \A i \in 1..l-1 : opens[i] \in Nat
    BY <1>2
  <2> QED
    BY <1>2, <1>3, <2>1, SubSeqProperties DEF Front
<1>5. Len(s) = l - 1 /\ \A i \in 1..l-1 : s[i] = stack[i]
  BY <1>2, SubSeqProperties DEF Front
<1> HIDE DEF s, less, n, l
<1>6. ASSUME NEW i \in 1..l
      PROVE  /\ Count(t, IfKinds, opens[i]+1..n) \in Nat
             /\ Count(t, {"endif"}, opens[i]+1..n) \in Nat
             /\ Count(u, IfKinds, opens[i]+1..Len(u)) = Count(t, IfKinds, opens[i]+1..n)
             /\ Count(u, {"endif"}, opens[i]+1..Len(u)) = Count(t, {"endif"}, opens[i]+1..n) + 1
  <2>0. "endif" \notin IfKinds
    BY DEF IfKinds
  <2>1. opens[i] \in Nat /\ opens[i] <= Len(t)
    BY <1>2 DEF n
  <2>2. /\ Count(t, IfKinds, opens[i]+1..Len(t)) \in Nat
        /\ Count(t, {"endif"}, opens[i]+1..Len(t)) \in Nat
        /\ Count(u, IfKinds, opens[i]+1..Len(u)) = Count(t, IfKinds, opens[i]+1..Len(t))
             + (IF tok.kind \in IfKinds THEN 1 ELSE 0)
        /\ Count(u, {"endif"}, opens[i]+1..Len(u)) = Count(t, {"endif"}, opens[i]+1..Len(t))
             + (IF tok.kind = "endif" THEN 1 ELSE 0)
    BY <2>1, CountsLonger
  <2> QED
    BY <2>0, <2>2 DEF n
<1>7. OpenAt(u, Len(u) + 1) = {less[i] : i \in 2..l-1}
  <2> DEFINE spare(j) == Count(t, {"endif"}, j+1..n) < Count(t, IfKinds, j+1..n)
  <2>1. OpenAt(u, n + 2) = {j \in OpenAt(t, n + 1) : spare(j)}
    BY OpenStep DEF n
  <2>2. Len(u) + 1 = n + 2 /\ 2..l = (2..l-1) \union {l} /\ \A i \in 2..l : i \in 1..l
    BY <1>1, <1>2
  <2>3. ASSUME NEW i \in 2..l PROVE spare(opens[i]) <=> i # l
    <3>1. i \in 1..l /\ Count(t, IfKinds, opens[i]+1..n)
                           = Count(t, {"endif"}, opens[i]+1..n) + (l - i)
      BY <1>3, <2>2
    <3>2. Count(t, {"endif"}, opens[i]+1..n) \in Nat
      BY <1>6, <3>1
    <3> QED
      BY <1>2, <3>1, <3>2
  <2> HIDE DEF spare
  <2>4. {j \in OpenAt(t, n + 1) : spare(j)} = {opens[i] : i \in 2..l-1}
    <3>1. {j \in OpenAt(t, n + 1) : spare(j)} = {opens[i] : i \in {h \in 2..l : spare(opens[h])}}
      BY <1>3
    <3>2. {h \in 2..l : spare(opens[h])} = 2..l-1
      BY <1>2, <2>2, <2>3
    <3> QED
      BY <3>1, <3>2
  <2>5. \A i \in 2..l-1 : less[i] = opens[i]
    BY <1>2, <1>4
  <2>6. {opens[i] : i \in 2..l-1} = {less[i] : i \in 2..l-1}
    BY <2>5
  <2> QED
    BY <2>1, <2>2, <2>4, <2>6
<1>8. ASSUME NEW i \in 1..l-1
      PROVE  Count(u, IfKinds, less[i]+1..Len(u))
               = Count(u, {"endif"}, less[i]+1..Len(u)) + ((l - 1) - i)
  <2>1. i \in 1..l /\ less[i] = opens[i]
    BY <1>2, <1>4
  <2>2. Count(t, IfKinds, opens[i]+1..n) = Count(t, {"endif"}, opens[i]+1..n) + (l - i)
    BY <1>3, <2>1
  <2>3. /\ Count(t, {"endif"}, opens[i]+1..n) \in Nat
        /\ Count(u, IfKinds, opens[i]+1..Len(u)) = Count(t, IfKinds, opens[i]+1..n)
        /\ Count(u, {"endif"}, opens[i]+1..Len(u)) = Count(t, {"endif"}, opens[i]+1..n) + 1
    BY <1>6, <2>1
  <2> QED
    BY <1>2, <2>1, <2>2, <2>3
<1>9. ASSUME NEW i \in 1..l-1
      PROVE  s[i] <=> \A m \in 2..i : ConditionHolds(u, less[m])
  <2>1. i \in 1..l /\ \A m \in 2..i : less[m] = opens[m]
    BY <1>2, <1>4
  <2> QED
    BY <1>2, <1>5, <2>1
<1>10. less[1] = 0 /\ \A i \in 1..l-1 : less[i] <= Len(u)
  <2>1. 1 \in 1..l-1 /\ \A i \in 1..l-1 : i \in 1..l
    BY <1>2
  <2>2. less[1] = 0
    BY <1>3, <1>4, <2>1
  <2>3. ASSUME NEW i \in 1..l-1 PROVE less[i] <= Len(u)
    <3>1. less[i] = opens[i] /\ opens[i] \in Nat /\ opens[i] <= n
      BY <1>2, <1>4, <2>1
    <3> QED
      BY <1>1, <3>1
  <2> QED
    BY <2>2, <2>3
<1>11. Stacked(u, less, s)
  BY <1>4, <1>5, <1>7, <1>8, <1>9, <1>10 DEF Stacked
<1> QED
  BY <1>11 DEF s

-----------------------------------------------------------------------------
(* The preprocessor computes, token by token, what is said of them at once.  *)

(* No #error, no include that is left, no #endif before its conditional.     *)
Allowed(t) ==
    \A k \in DOMAIN t :
      /\ t[k].kind \notin {"error", "include"}
      /\ Count(t, {"endif"}, 1..k) <= Count(t, IfKinds, 1..k)

(* A sequence that is allowed begins with one that is.                       *)
LEMMA AllowedPrefix ==
    ASSUME NEW t \in Seq(Token), NEW w \in Seq(Token), Allowed(t \o w)
    PROVE  Allowed(t)
<1> DEFINE v == t \o w
<1>1. /\ Len(t) \in Nat /\ Len(w) \in Nat /\ DOMAIN t = 1..Len(t)
      /\ DOMAIN v = 1..Len(t) + Len(w)
      /\ \A k \in 1..Len(t) + Len(w) : v[k] = IF k <= Len(t) THEN t[k] ELSE w[k - Len(t)]
  BY ConcatProperties, LenProperties
<1>0. Allowed(v)
  OBVIOUS
<1> HIDE DEF v
<1>2. \A k \in 1..Len(t) : k \in DOMAIN v /\ v[k] = t[k]
  BY <1>1
<1>3. ASSUME NEW k \in 1..Len(t)
      PROVE  \A kinds : Count(v, kinds, 1..k) = Count(t, kinds, 1..k)
  <2> DEFINE range == 1..k
  <2>1. \A m \in range : v[m] = t[m]
    BY <1>1, <1>2
  <2> HIDE DEF range
  <2>2. \A kinds : Count(v, kinds, range) = Count(t, kinds, range)
    BY <2>1, CountSame
  <2> QED
    BY <2>2 DEF range
<1>4. ASSUME NEW k \in 1..Len(t)
      PROVE  /\ t[k].kind \notin {"error", "include"}
             /\ Count(t, {"endif"}, 1..k) <= Count(t, IfKinds, 1..k)
  <2>1. /\ v[k].kind \notin {"error", "include"}
        /\ Count(v, {"endif"}, 1..k) <= Count(v, IfKinds, 1..k)
    BY <1>0, <1>2 DEF Allowed
  <2>2. Count(v, {"endif"}, 1..k) = Count(t, {"endif"}, 1..k)
    BY <1>3
  <2>3. Count(v, IfKinds, 1..k) = Count(t, IfKinds, 1..k)
    BY <1>3
  <2> QED
    BY <1>2, <2>1, <2>2, <2>3
<1> QED
  BY <1>1, <1>4 DEF Allowed

(* The top of the stack says whether all open conditionals hold.             *)
LEMMA TopHolds ==
    ASSUME NEW t, NEW opens, NEW stack \in Seq(BOOLEAN), stack # <<>>, Stacked(t, opens, stack)
    PROVE  Last(stack) <=> \A j \in OpenAt(t, Len(t) + 1) : ConditionHolds(t, j)
<1>1. Len(stack) \in Nat \ {0} /\ Last(stack) = stack[Len(stack)]
  BY LenProperties, EmptySeq DEF Last
<1>2. Len(stack) \in 1..Len(stack)
  BY <1>1
<1>3. stack[Len(stack)] <=> \A m \in 2..Len(stack) : ConditionHolds(t, opens[m])
  BY <1>2 DEF Stacked
<1>4. OpenAt(t, Len(t) + 1) = {opens[i] : i \in 2..Len(stack)}
  BY DEF Stacked
<1> QED
  BY <1>1, <1>3, <1>4

(* One token more is allowed if it is no #error and no include, and no       *)
(* #endif when only the bottom of the stack is left.                         *)
LEMMA AllowedStep ==
    ASSUME NEW t, NEW u, NEW tok, Longer(t, u, tok), Allowed(t),
           NEW opens, NEW stack \in Seq(BOOLEAN), stack # <<>>, Stacked(t, opens, stack)
    PROVE  Allowed(u) <=> /\ tok.kind \notin {"error", "include"}
                          /\ tok.kind = "endif" => Len(stack) > 1
<1> DEFINE n == Len(t)
           l == Len(stack)
<1>1. /\ n \in Nat /\ Len(u) = n + 1 /\ u[n+1] = tok /\ \A k \in 1..n : u[k] = t[k]
      /\ DOMAIN u = 1..n+1 /\ DOMAIN t = 1..n
  BY DEF Longer
<1>2. l \in Nat \ {0} /\ 1 \in 1..l
  BY LenProperties, EmptySeq
<1>3. /\ opens[1] = 0
      /\ Count(t, IfKinds, opens[1]+1..n) = Count(t, {"endif"}, opens[1]+1..n) + (l - 1)
  BY <1>2 DEF Stacked
<1>4. Count(t, IfKinds, 0+1..n) = Count(t, {"endif"}, 0+1..n) + (l - 1)
  BY <1>3
<1>5. /\ Count(t, IfKinds, 0+1..n) \in Nat
      /\ Count(t, {"endif"}, 0+1..n) \in Nat
      /\ Count(u, IfKinds, 0+1..Len(u)) = Count(t, IfKinds, 0+1..n)
                                            + (IF tok.kind \in IfKinds THEN 1 ELSE 0)
      /\ Count(u, {"endif"}, 0+1..Len(u)) = Count(t, {"endif"}, 0+1..n)
                                              + (IF tok.kind = "endif" THEN 1 ELSE 0)
  BY <1>1, CountsLonger
<1>6. 0 + 1 = 1
  OBVIOUS
<1>7. "endif" \notin IfKinds
  BY DEF IfKinds
<1> HIDE DEF n, l
<1>8. Count(u, {"endif"}, 1..n+1) <= Count(u, IfKinds, 1..n+1) <=> (tok.kind = "endif" => l > 1)
  <2>1. Count(u, IfKinds, 1..n+1) = Count(u, IfKinds, 0+1..Len(u))
    BY <1>1, <1>6
  <2>2. Count(u, {"endif"}, 1..n+1) = Count(u, {"endif"}, 0+1..Len(u))
    BY <1>1, <1>6
  <2> QED
    BY <1>2, <1>4, <1>5, <1>7, <2>1, <2>2
<1>9. ASSUME NEW k \in 1..n
      PROVE  /\ u[k].kind \notin {"error", "include"}
             /\ Count(u, {"endif"}, 1..k) <= Count(u, IfKinds, 1..k)
  <2> DEFINE range == 1..k
  <2>1. \A m \in range : u[m] = t[m]
    BY <1>1
  <2> HIDE DEF range
  <2>2. \A kinds : Count(u, kinds, range) = Count(t, kinds, range)
    BY <2>1, CountSame
  <2>3. /\ t[k].kind \notin {"error", "include"} /\ u[k] = t[k]
        /\ Count(t, {"endif"}, 1..k) <= Count(t, IfKinds, 1..k)
    BY <1>1 DEF Allowed
  <2>4. Count(u, {"endif"}, 1..k) = Count(t, {"endif"}, 1..k)
    BY <2>2 DEF range
  <2>5. Count(u, IfKinds, 1..k) = Count(t, IfKinds, 1..k)
    BY <2>2 DEF range
  <2> QED
    BY <2>3, <2>4, <2>5
<1>10. n+1 \in 1..n+1 /\ \A k \in 1..n+1 : k = n+1 \/ k \in 1..n
  BY <1>1
<1>11. Allowed(u) <=> \A k \in 1..n+1 :
                        /\ u[k].kind \notin {"error", "include"}
                        /\ Count(u, {"endif"}, 1..k) <= Count(u, IfKinds, 1..k)
  BY <1>1 DEF Allowed
<1>12. Allowed(u) <=> /\ u[n+1].kind \notin {"error", "include"}
                      /\ Count(u, {"endif"}, 1..n+1) <= Count(u, IfKinds, 1..n+1)
  BY <1>9, <1>10, <1>11
<1> QED
  BY <1>1, <1>8, <1>12 DEF l

-----------------------------------------------------------------------------
(* What the preprocessor has made of the tokens t: the selection of them,    *)
(* the macros and the conditionals at their end, and nothing wrong so far.   *)
Processed(t, out, defs, stack) ==
    /\ out = Selected(t)
    /\ defs = MacrosAt(t, Len(t) + 1)
    /\ \E opens : Stacked(t, opens, stack)
    /\ Allowed(t)

(* It begins with nothing.                                                   *)
LEMMA ProcessedNone == Processed(<<>>, <<>>, <<>>, <<TRUE>>)
<1> DEFINE t == <<>>
<1>1. Len(t) = 0 /\ DOMAIN t = {}
  OBVIOUS
<1> HIDE DEF t
<1>2. Selected(t) = <<>>
  <2> DEFINE a == [k \in DOMAIN t |-> Expanded(MacrosAt(t, k), t[k])]
  <2>1. a = <<>>
    BY <1>1
  <2>2. Len(<<>>) = 0
    OBVIOUS
  <2> HIDE DEF a
  <2>3. \A places : Subsequence(a, places) = <<>>
    BY <2>1, <2>2, SubsequenceOfNone
  <2> QED
    BY <2>3 DEF Selected, a
<1>3. MacrosAt(t, Len(t) + 1) = <<>>
  <2> DEFINE D == DefinedAt(t, 1)
             M == MacrosAt(t, 1)
  <2>1. D = {}
    BY DEF DefinedAt
  <2>2. M = [name \in DOMAIN M |-> M[name]] /\ DOMAIN M = {t[j].name : j \in D}
    BY MacrosAre, ZenonT(30)
  <2> HIDE DEF M, D
  <2>3. DOMAIN M = {}
    BY <2>1, <2>2
  <2>4. M = <<>>
    BY <2>2, <2>3
  <2>5. Len(t) + 1 = 1
    BY <1>1
  <2> QED
    BY <2>4, <2>5 DEF M
<1>4. \E opens : Stacked(t, opens, <<TRUE>>)
  <2> DEFINE opens == <<0>>
             stack == <<TRUE>>
  <2>1. /\ opens \in Seq(Nat) /\ Len(opens) = 1 /\ opens[1] = 0
        /\ Len(stack) = 1 /\ stack[1] = TRUE
    OBVIOUS
  <2> HIDE DEF opens, stack
  <2>2. OpenAt(t, Len(t) + 1) = {opens[i] : i \in 2..Len(stack)}
    <3>1. 2..Len(stack) = {} /\ 1..(Len(t) + 1) - 1 = {}
      BY <1>1, <2>1
    <3> QED
      BY <3>1 DEF OpenAt
  <2>3. \A kinds : Count(t, kinds, 1..0) = 0
    BY CountStep
  <2>4. ASSUME NEW i \in 1..Len(stack)
        PROVE  Count(t, IfKinds, opens[i]+1..Len(t))
                 = Count(t, {"endif"}, opens[i]+1..Len(t)) + (Len(stack) - i)
    <3>1. i = 1 /\ opens[i] + 1 = 1 /\ Len(t) = 0 /\ Len(stack) - i = 0
      BY <1>1, <2>1
    <3>2. Count(t, IfKinds, 1..0) = 0 /\ Count(t, {"endif"}, 1..0) = 0
      BY <2>3
    <3>3. opens[i]+1..Len(t) = 1..0
      BY <3>1
    <3>4. Count(t, IfKinds, opens[i]+1..Len(t)) = 0
      BY <3>2, <3>3, Zenon
    <3>5. Count(t, {"endif"}, opens[i]+1..Len(t)) = 0
      BY <3>2, <3>3, Zenon
    <3> DEFINE a == Count(t, IfKinds, opens[i]+1..Len(t))
               b == Count(t, {"endif"}, opens[i]+1..Len(t))
               d == Len(stack) - i
    <3>6. a = 0 /\ b = 0 /\ d = 0
      BY <3>1, <3>4, <3>5, Zenon
    <3> HIDE DEF a, b, d
    <3>7. a = b + d
      BY <3>6
    <3> QED
      BY <3>7, Zenon DEF a, b, d
  <2>5. \A i \in 1..Len(stack) : opens[i] <= Len(t)
    BY <1>1, <2>1
  <2>6. \A i \in 1..Len(stack) : stack[i] <=> \A m \in 2..i : ConditionHolds(t, opens[m])
    BY <2>1
  <2>7. Stacked(t, opens, stack)
    BY <2>1, <2>2, <2>4, <2>5, <2>6 DEF Stacked
  <2> QED
    BY <2>7 DEF stack
<1>5. Allowed(t)
  BY <1>1 DEF Allowed
<1> QED
  BY <1>2, <1>3, <1>4, <1>5 DEF Processed, t

(* It goes on with a token that is no conditional,                           *)
LEMMA ProcessedText ==
    ASSUME NEW t, NEW u, NEW tok, Longer(t, u, tok),
           NEW out, NEW defs, NEW stack \in Seq(BOOLEAN), stack # <<>>,
           Processed(t, out, defs, stack),
           tok.kind \notin IfKinds \union {"endif", "include", "error"}
    PROVE  Processed(u, IF tok.kind \in Text /\ Last(stack)
                        THEN Append(out, Expanded(defs, tok)) ELSE out,
                     MacrosAt(u, Len(t) + 2), stack)
<1>1. PICK opens : Stacked(t, opens, stack)
  BY DEF Processed
<1>2. Stacked(u, opens, stack)
  BY <1>1, StackedText
<1>3. Allowed(u)
  BY <1>1, AllowedStep DEF Processed
<1>4. Selected(u) = IF tok.kind \in Text /\ Last(stack)
                    THEN Append(out, Expanded(defs, tok)) ELSE out
  BY <1>1, SelectedStep, TopHolds DEF Processed
<1>5. Len(u) + 1 = Len(t) + 2
  BY DEF Longer
<1> QED
  BY <1>2, <1>3, <1>4, <1>5 DEF Processed

(* with a conditional, whose own condition is about the macros so far,       *)
LEMMA ProcessedIf ==
    ASSUME NEW t, NEW u, NEW tok, Longer(t, u, tok),
           NEW out, NEW defs, NEW stack \in Seq(BOOLEAN), stack # <<>>,
           Processed(t, out, defs, stack), tok.kind \in IfKinds,
           NEW holds \in BOOLEAN, holds <=> ((tok.kind = "ifdef") = (tok.name \in DOMAIN defs))
    PROVE  Processed(u, out, defs, Append(stack, Last(stack) /\ holds))
<1>0. tok.kind \notin Text /\ tok.kind \notin {"error", "include", "endif"} /\ ~Sets(tok)
  BY DEF IfKinds, Text, Sets
<1>1. PICK opens : Stacked(t, opens, stack)
  BY DEF Processed
<1>2. \E more : Stacked(u, more, Append(stack, Last(stack) /\ holds))
  <2>1. ConditionHolds(u, Len(t) + 1)
          <=> ((tok.kind = "ifdef") = (tok.name \in DOMAIN MacrosAt(t, Len(t) + 1)))
    BY ConditionSame
  <2>2. defs = MacrosAt(t, Len(t) + 1)
    BY DEF Processed
  <2>3. holds <=> ConditionHolds(u, Len(t) + 1)
    BY <2>1, <2>2, Zenon
  <2> QED
    BY <1>1, <2>3, StackedIf
<1>3. Allowed(u)
  BY <1>0, <1>1, AllowedStep DEF Processed
<1>4. Selected(u) = out
  BY <1>0, SelectedStep DEF Processed
<1>5. MacrosAt(u, Len(t) + 2) = defs
  BY <1>0, MacrosStep DEF Processed
<1>6. Len(u) + 1 = Len(t) + 2
  BY DEF Longer
<1> QED
  BY <1>2, <1>3, <1>4, <1>5, <1>6 DEF Processed

(* and with an #endif that has its conditional.                              *)
LEMMA ProcessedEndif ==
    ASSUME NEW t, NEW u, NEW tok, Longer(t, u, tok),
           NEW out, NEW defs, NEW stack \in Seq(BOOLEAN), Len(stack) > 1,
           Processed(t, out, defs, stack), tok.kind = "endif"
    PROVE  Processed(u, out, defs, Front(stack))
<1>0. tok.kind \notin Text /\ tok.kind \notin {"error", "include"} /\ ~Sets(tok) /\ stack # <<>>
  BY EmptySeq DEF Text, Sets
<1>1. PICK opens : Stacked(t, opens, stack)
  BY DEF Processed
<1>2. \E less : Stacked(u, less, Front(stack))
  BY <1>1, StackedEndif
<1>3. Allowed(u)
  BY <1>0, <1>1, AllowedStep DEF Processed
<1>4. Selected(u) = out
  BY <1>0, SelectedStep DEF Processed
<1>5. MacrosAt(u, Len(t) + 2) = defs
  BY <1>0, MacrosStep DEF Processed
<1>6. Len(u) + 1 = Len(t) + 2
  BY DEF Longer
<1> QED
  BY <1>2, <1>3, <1>4, <1>5, <1>6 DEF Processed

(* What a file means is what its tokens select, if they are allowed.         *)
LEMMA MeaningIs ==
    ASSUME NEW fs, NEW includes, NEW f
    PROVE  LET tokens == Flat(fs, includes, fs[f].tokens)
               m == Meaning(fs, includes, f)
           IN  /\ m.ok <=> /\ fs[f].lexes /\ Allowed(tokens)
                           /\ Parses(Selected(tokens)) /\ Evaluates(Selected(tokens))
               /\ m.patterns = IF m.ok THEN Evaluated(Selected(tokens)) ELSE <<>>
BY DEF Meaning, Allowed

-----------------------------------------------------------------------------
(* The source, split at the token that is looked at.                         *)

(* A sequence at one of its places.                                          *)
LEMMA SplitAt ==
    ASSUME NEW S, NEW s \in Seq(S), NEW k \in 1..Len(s)
    PROVE  /\ s[k] \in S /\ <<s[k]>> \in Seq(S)
           /\ SubSeq(s, 1, k - 1) \in Seq(S) /\ SubSeq(s, k + 1, Len(s)) \in Seq(S)
           /\ SubSeq(s, k, Len(s)) \in Seq(S)
           /\ SubSeq(s, 1, k) = Append(SubSeq(s, 1, k - 1), s[k])
           /\ SubSeq(s, k, Len(s)) = <<s[k]>> \o SubSeq(s, k + 1, Len(s))
<1>1. Len(s) \in Nat /\ \A i \in 1..Len(s) : s[i] \in S
  BY LenProperties, ElementOfSeq
<1> DEFINE a == SubSeq(s, 1, k - 1)
           b == SubSeq(s, k + 1, Len(s))
           c == SubSeq(s, 1, k)
           d == SubSeq(s, k, Len(s))
           x == <<s[k]>>
<1>2. /\ a \in Seq(S) /\ Len(a) = k - 1 /\ \A i \in 1..k-1 : a[i] = s[i]
      /\ c \in Seq(S) /\ Len(c) = k /\ \A i \in 1..k : c[i] = s[i]
  <2>1. a \in Seq(S) /\ Len(a) = k - 1 /\ \A i \in 1..k-1 : a[i] = s[i]
    BY <1>1, SubSeqProperties
  <2>2. c \in Seq(S) /\ Len(c) = k /\ \A i \in 1..k : c[i] = s[i]
    BY <1>1, SubSeqProperties
  <2> QED
    BY <2>1, <2>2
<1>3. /\ b \in Seq(S) /\ Len(b) = Len(s) - k /\ \A i \in 1..Len(s)-k : b[i] = s[k+i]
      /\ d \in Seq(S) /\ Len(d) = Len(s) - k + 1 /\ \A i \in 1..Len(s)-k+1 : d[i] = s[k+i-1]
  <2>1. b \in Seq(S) /\ Len(b) = Len(s) - k /\ \A i \in 1..Len(s)-k : b[i] = s[k+i]
    <3>1. /\ b \in Seq(S)
          /\ Len(b) = IF k + 1 <= Len(s) THEN Len(s) - (k + 1) + 1 ELSE 0
          /\ \A i \in 1..Len(s)-(k+1)+1 : b[i] = s[k+1+i-1]
      BY <1>1, SubSeqProperties
    <3> HIDE DEF b
    <3>2. Len(b) = Len(s) - k
      BY <1>1, <3>1
    <3>3. ASSUME NEW i \in 1..Len(s)-k PROVE b[i] = s[k+i]
      <4>1. i \in 1..Len(s)-(k+1)+1 /\ k+1+i-1 = k+i
        BY <1>1
      <4> QED
        BY <3>1, <4>1
    <3> QED
      BY <3>1, <3>2, <3>3
  <2>2. d \in Seq(S) /\ Len(d) = Len(s) - k + 1 /\ \A i \in 1..Len(s)-k+1 : d[i] = s[k+i-1]
    BY <1>1, SubSeqProperties
  <2> QED
    BY <2>1, <2>2
<1>4. s[k] \in S /\ x \in Seq(S) /\ Len(x) = 1 /\ x[1] = s[k]
  BY <1>1
<1> HIDE DEF a, b, c, d, x
<1>5. c = Append(a, s[k])
  <2> DEFINE e == Append(a, s[k])
  <2>1. /\ e \in Seq(S) /\ Len(e) = k /\ (\A i \in 1..k-1 : e[i] = a[i]) /\ e[k] = s[k]
    BY <1>2, <1>4, AppendProperties
  <2> HIDE DEF e
  <2>2. \A i \in 1..k : e[i] = c[i]
    BY <1>2, <2>1, SMTT(20)
  <2>3. c = e
    BY <1>2, <2>1, <2>2, SeqEqual
  <2> QED
    BY <2>3 DEF e
<1>6. d = x \o b
  <2> DEFINE e == x \o b
  <2>1. /\ e \in Seq(S) /\ Len(e) = 1 + (Len(s) - k)
        /\ \A i \in 1..1 + (Len(s) - k) : e[i] = IF i <= 1 THEN x[i] ELSE b[i-1]
    <3>1. /\ e \in Seq(S) /\ Len(e) = Len(x) + Len(b)
          /\ \A i \in 1..Len(x) + Len(b) : e[i] = IF i <= Len(x) THEN x[i] ELSE b[i-Len(x)]
      BY <1>3, <1>4, ConcatProperties
    <3>2. Len(x) = 1 /\ Len(b) = Len(s) - k
      BY <1>3, <1>4
    <3> HIDE DEF e
    <3> QED
      BY <3>1, <3>2
  <2> HIDE DEF e
  <2>2. ASSUME NEW i \in 1..Len(s)-k+1 PROVE d[i] = e[i]
    <3>1. CASE i = 1
      BY <1>1, <1>3, <1>4, <2>1, <3>1, SMTT(20)
    <3>2. CASE i # 1
      <4>1. i \in 1..1 + (Len(s) - k) /\ ~(i <= 1) /\ i-1 \in 1..Len(s)-k /\ k+(i-1) = k+i-1
        BY <1>1, <3>2
      <4>2. e[i] = b[i-1]
        BY <2>1, <4>1
      <4> QED
        BY <1>3, <4>1, <4>2
    <3> QED
      BY <3>1, <3>2
  <2>3. Len(d) = Len(e)
    BY <1>1, <1>3, <2>1
  <2>4. d = e
    BY <1>3, <2>1, <2>2, <2>3, SeqEqual
  <2> QED
    BY <2>4 DEF e
<1> QED
  BY <1>2, <1>3, <1>4, <1>5, <1>6 DEF a, b, c, d, x

(* The two parts of a concatenation.                                         *)
LEMMA SplitConcat ==
    ASSUME NEW S, NEW s \in Seq(S), NEW t \in Seq(S)
    PROVE  /\ SubSeq(s \o t, 1, Len(s)) = s
           /\ SubSeq(s \o t, Len(s) + 1, Len(s \o t)) = t
<1> DEFINE u == s \o t
           m == Len(s)
           n == Len(t)
           a == SubSeq(u, 1, m)
           b == SubSeq(u, m + 1, m + n)
<1>1. /\ m \in Nat /\ n \in Nat /\ u \in Seq(S) /\ Len(u) = m + n
      /\ \A i \in 1..m+n : u[i] = IF i <= m THEN s[i] ELSE t[i-m]
      /\ \A i \in 1..m+n : u[i] \in S
  <2>1. /\ m \in Nat /\ n \in Nat /\ u \in Seq(S) /\ Len(u) = m + n
        /\ \A i \in 1..m+n : u[i] = IF i <= m THEN s[i] ELSE t[i-m]
    BY ConcatProperties, LenProperties
  <2> HIDE DEF u
  <2> QED
    BY <2>1, ElementOfSeq
<1> HIDE DEF u, n
<1>2. a \in Seq(S) /\ Len(a) = m /\ \A i \in 1..m : a[i] = u[i]
  BY <1>1, SubSeqProperties
<1>3. b \in Seq(S) /\ Len(b) = n /\ \A i \in 1..n : b[i] = u[m+i]
  <2>1. m + 1 \in 1..Len(u)+1 /\ m + n \in 0..Len(u)
    BY <1>1
  <2>2. /\ b \in Seq(S)
        /\ Len(b) = IF m + 1 <= m + n THEN (m + n) - (m + 1) + 1 ELSE 0
        /\ \A i \in 1..(m + n) - (m + 1) + 1 : b[i] = u[m+1+i-1]
    BY <1>1, <2>1, SubSeqProperties
  <2> HIDE DEF b
  <2>3. Len(b) = n
    BY <1>1, <2>2
  <2>4. ASSUME NEW i \in 1..n PROVE b[i] = u[m+i]
    <3>1. i \in 1..(m + n) - (m + 1) + 1 /\ m+1+i-1 = m+i
      BY <1>1
    <3> QED
      BY <2>2, <3>1
  <2> QED
    BY <2>2, <2>3, <2>4
<1> HIDE DEF a, b
<1>4. a = s
  <2>1. \A i \in 1..m : a[i] = s[i]
    BY <1>1, <1>2
  <2> QED
    BY <1>2, <2>1, SeqEqual
<1>5. b = t
  <2>1. ASSUME NEW i \in 1..n PROVE b[i] = t[i]
    <3>1. m+i \in 1..m+n /\ ~(m+i <= m) /\ (m+i)-m = i
      BY <1>1
    <3> QED
      BY <1>1, <1>3, <3>1
  <2>2. Len(b) = Len(t)
    BY <1>3 DEF n
  <2> QED
    BY <1>3, <2>1, <2>2, SeqEqual DEF n
<1> QED
  BY <1>1, <1>4, <1>5 DEF u, n, a, b

-----------------------------------------------------------------------------
(* The tokens that are behind, without the includes they came from; those    *)
(* ahead; and what they are of: the file with its includes replaced.         *)
Past == Without(SubSeq(source, 1, pos - 1), {"include"})
Rest == SubSeq(source, pos, Len(source))
FileTokens == files[Head(queue)].tokens
Whole == Flat(files, resolver, FileTokens)

(* If its includes can be replaced, the file is what is behind and what the  *)
(* rest means; if those ahead can, all can; and the preprocessor has made of *)
(* the tokens behind what it should.                                         *)
WholeIs == NoIncludes(Whole) => Whole = Past \o Flat(files, resolver, Rest)
WholeEnds == resolver /\ Ends(files, Rest) => Ends(files, FileTokens)
PastIs == Processed(Past, output, macros, ifStack)
AtTokens == pc = "process" => /\ files[Head(queue)].lexes
                              /\ WholeIs /\ WholeEnds /\ PastIs

(* The file that is worked at.                                               *)
LEMMA AtHead ==
    ASSUME LoadingInv, queue # <<>>
    PROVE  /\ files \in FileSystems /\ resolver \in BOOLEAN /\ Head(queue) \in DOMAIN files
           /\ FileTokens \in Seq(Token) /\ Whole \in Seq(Token)
<1>1. files \in FileSystems /\ resolver \in BOOLEAN /\ queue \in Seq(DOMAIN files)
  BY DEF LoadingInv, TypeOK
<1>2. Head(queue) \in DOMAIN files
  BY <1>1, HeadTailProperties
<1>3. FileTokens \in Seq(Token)
  BY <1>2, FileTyped DEF FileTokens
<1> QED
  BY <1>1, <1>2, <1>3, FlatTyped DEF Whole

(* The source at a token.                                                    *)
LEMMA AtTokenSplit ==
    ASSUME LoadingInv, NEW kinds, AtToken(kinds)
    PROVE  LET behind == SubSeq(source, 1, pos)
               ahead  == SubSeq(source, pos + 1, Len(source))
           IN  /\ Tok \in Token /\ behind \in Seq(Token) /\ ahead \in Seq(Token)
               /\ Len(behind) = pos
               /\ Past \in Seq(Token) /\ Rest = <<Tok>> \o ahead
               /\ Without(behind, {"include"}) = IF Tok.kind = "include" THEN Past
                                                 ELSE Append(Past, Tok)
<1> DEFINE first == SubSeq(source, 1, pos - 1)
           behind == SubSeq(source, 1, pos)
           ahead == SubSeq(source, pos + 1, Len(source))
<1>1. source \in Seq(Token) /\ pos \in 1..Len(source) /\ Tok = source[pos] /\ Len(source) \in Nat
  BY AtTokenTyped DEF LoadingInv, TypeOK, Tok
<1>2. /\ Tok \in Token /\ first \in Seq(Token) /\ ahead \in Seq(Token)
      /\ behind = Append(first, Tok) /\ Rest = <<Tok>> \o ahead
  <2>1. /\ source[pos] \in Token /\ first \in Seq(Token) /\ ahead \in Seq(Token)
        /\ behind = Append(first, source[pos])
        /\ SubSeq(source, pos, Len(source)) = <<source[pos]>> \o ahead
    BY <1>1, SplitAt
  <2> QED
    BY <1>1, <2>1 DEF Rest
<1>3. behind \in Seq(Token) /\ Len(behind) = pos
  <2>1. \A i \in 1..pos : source[i] \in Token
    BY <1>1, ElementOfSeq
  <2> QED
    BY <1>1, <2>1, SubSeqProperties
<1> HIDE DEF first, behind, ahead
<1>4. Past = Without(first, {"include"})
  BY DEF Past, first
<1>5. Past \in Seq(Token)
  BY <1>2, <1>4, WithoutTyped
<1>6. Without(behind, {"include"}) = IF Tok.kind = "include" THEN Past ELSE Append(Past, Tok)
  <2> DEFINE kind == {"include"}
  <2>1. Tok.kind \in kind <=> Tok.kind = "include"
    OBVIOUS
  <2> HIDE DEF kind
  <2>2. Without(behind, kind) = IF Tok.kind \in kind THEN Without(first, kind)
                                ELSE Append(Without(first, kind), Tok)
    BY <1>2, WithoutStep
  <2> QED
    BY <1>4, <2>1, <2>2 DEF kind
<1> QED
  BY <1>2, <1>3, <1>5, <1>6 DEF behind, ahead

(* Where a token stands for itself, it is the next of the whole file.        *)
LEMMA WholeAt ==
    ASSUME LoadingInv, AtTokens, NEW kinds, AtToken(kinds), NoIncludes(Whole),
           Flat(files, resolver, <<Tok>>) = <<Tok>>
    PROVE  LET ahead == SubSeq(source, pos + 1, Len(source))
           IN  /\ Flat(files, resolver, ahead) \in Seq(Token)
               /\ Whole = Append(Past, Tok) \o Flat(files, resolver, ahead)
<1> DEFINE ahead == SubSeq(source, pos + 1, Len(source))
           x == <<Tok>>
           rest == Flat(files, resolver, ahead)
<1>1. pc = "process" /\ queue # <<>>
  BY AtTokenTyped DEF LoadingInv, AtFile
<1>2. files \in FileSystems /\ resolver \in BOOLEAN
  BY <1>1, AtHead
<1>3. Tok \in Token /\ ahead \in Seq(Token) /\ Past \in Seq(Token) /\ Rest = x \o ahead
  BY AtTokenSplit
<1>4. x \in Seq(Token) /\ Append(Past, Tok) = Past \o x
  BY <1>3, AppendIsConcat
<1>5. Whole = Past \o Flat(files, resolver, Rest)
  BY <1>1 DEF AtTokens, WholeIs
<1>0. Flat(files, resolver, x) = x
  OBVIOUS
<1> HIDE DEF ahead, x
<1>6. Flat(files, resolver, Rest) = x \o rest
  <2>1. Flat(files, resolver, x \o ahead) = Flat(files, resolver, x) \o Flat(files, resolver, ahead)
    BY <1>2, <1>3, <1>4, FlatConcat
  <2> QED
    BY <1>0, <1>3, <2>1
<1>7. rest \in Seq(Token)
  BY <1>2, <1>3, FlatTyped
<1> HIDE DEF rest
<1>8. Past \o (x \o rest) = (Past \o x) \o rest
  <2> DEFINE past == Past
  <2>1. past \in Seq(Token) /\ x \in Seq(Token) /\ rest \in Seq(Token)
    BY <1>3, <1>4, <1>7
  <2> HIDE DEF past
  <2>2. (past \o x) \o rest = past \o (x \o rest)
    BY <2>1, TokensAssociative
  <2> QED
    BY <2>2 DEF past
<1> QED
  BY <1>4, <1>5, <1>6, <1>7, <1>8 DEF rest, ahead

(* What a directive or a text token leaves true; the preprocessor has one    *)
(* more token behind it.                                                     *)
LEMMA TokenStep ==
    ASSUME LoadingInv, AtTokens, NEW kinds, AtToken(kinds), Tok.kind # "include",
           Advance, UNCHANGED <<files, queue, resolver, source>>
    PROVE  /\ files'[Head(queue')].lexes /\ WholeIs' /\ WholeEnds'
           /\ Longer(Past, Past', Tok)
<1> DEFINE behind == SubSeq(source, 1, pos)
           ahead == SubSeq(source, pos + 1, Len(source))
<1>1. pc = "process" /\ queue # <<>> /\ pos \in 1..Len(source)
  BY AtTokenTyped DEF LoadingInv, AtFile
<1>2. files \in FileSystems /\ resolver \in BOOLEAN
  BY <1>1, AtHead
<1>3. /\ Tok \in Token /\ ahead \in Seq(Token)
      /\ Past \in Seq(Token) /\ Rest = <<Tok>> \o ahead
      /\ Without(behind, {"include"}) = Append(Past, Tok)
  BY AtTokenSplit
<1>4. pos' = pos + 1 /\ (pos + 1) - 1 = pos
  BY <1>1 DEF Advance
<1> HIDE DEF behind, ahead
<1>5. Past' = Append(Past, Tok) /\ Rest' = ahead /\ Whole' = Whole /\ FileTokens' = FileTokens
  <2>1. Past' = Without(SubSeq(source, 1, (pos + 1) - 1), {"include"})
    BY <1>4 DEF Past
  <2>2. Past' = Without(behind, {"include"})
    BY <1>4, <2>1 DEF behind
  <2>3. Rest' = ahead
    BY <1>4 DEF Rest, ahead
  <2>4. Whole' = Whole /\ FileTokens' = FileTokens
    BY DEF Whole, FileTokens
  <2> QED
    BY <1>3, <2>2, <2>3, <2>4
<1>6. Longer(Past, Past', Tok)
  BY <1>3, <1>5, AppendLonger
<1>7. WholeIs'
  <2> SUFFICES ASSUME NoIncludes(Whole) PROVE Whole = Append(Past, Tok) \o Flat(files, resolver, ahead)
    BY <1>5 DEF WholeIs
  <2>1. Flat(files, resolver, <<Tok>>) = <<Tok>>
    BY <1>2, <1>3, FlatOne
  <2> QED
    BY <2>1, WholeAt DEF ahead
<1>8. WholeEnds'
  <2> SUFFICES ASSUME resolver, Ends(files, ahead) PROVE Ends(files, FileTokens)
    BY <1>5 DEF WholeEnds
  <2>1. Ends(files, <<Tok>> \o ahead)
    BY <1>2, <1>3, EndsBackward
  <2> QED
    BY <1>1, <1>3, <2>1 DEF AtTokens, WholeEnds
<1> QED
  BY <1>1, <1>6, <1>7, <1>8 DEF AtTokens

-----------------------------------------------------------------------------
(* Including a file: it is put in the place of the directive, or ignored.    *)
LEMMA IncludeTokens ==
    ASSUME LoadingInv, AtTokens, Include \/ IncludeIgnored
    PROVE  AtTokens'
<1> DEFINE behind == SubSeq(source, 1, pos)
           ahead == SubSeq(source, pos + 1, Len(source))
           x == <<Tok>>
<1>0. AtToken({"include"})
  BY DEF Include, IncludeIgnored
<1>1. /\ pc = "process" /\ queue # <<>> /\ pos \in 1..Len(source) /\ Tok.kind = "include"
      /\ pos' = pos + 1 /\ (pos + 1) - 1 = pos
      /\ UNCHANGED <<files, queue, resolver, output, ifStack, macros, pc>>
  <2>1. pc = "process" /\ pos \in 1..Len(source)
    BY <1>0, AtTokenTyped
  <2> QED
    BY <1>0, <2>1 DEF Include, IncludeIgnored, Advance, outside, AtToken, LoadingInv, AtFile
<1>2. files \in FileSystems /\ resolver \in BOOLEAN
  BY <1>1, AtHead
<1>3. /\ Tok \in Token /\ behind \in Seq(Token) /\ ahead \in Seq(Token)
      /\ Len(behind) = pos
      /\ Past \in Seq(Token) /\ Rest = x \o ahead
      /\ Without(behind, {"include"}) = Past
  BY <1>0, <1>1, AtTokenSplit
<1>4. x \in Seq(Token)
  BY <1>3
<1>5. Whole' = Whole /\ FileTokens' = FileTokens
  BY <1>1 DEF Whole, FileTokens
<1>6. Whole \in Seq(Token)
  BY <1>1, AtHead
(* What is behind stays; what is ahead means the same.                       *)
<1>7. ASSUME NEW new \in Seq(Token), SubSeq(source', 1, pos) = behind, Rest' = new,
             NoIncludes(Flat(files, resolver, x)) =>
               Flat(files, resolver, x \o ahead) = Flat(files, resolver, new),
             resolver /\ Ends(files, new) => Ends(files, x \o ahead)
      PROVE  AtTokens'
  <2>1. Past' = Past
    <3>1. Past' = Without(SubSeq(source', 1, (pos + 1) - 1), {"include"})
      BY <1>1 DEF Past
    <3> HIDE DEF behind
    <3> QED
      BY <1>1, <1>3, <1>7, <3>1
  <2> DEFINE old == Flat(files, resolver, x \o ahead)
  <2> HIDE DEF x, ahead
  <2>2. old = Flat(files, resolver, x) \o Flat(files, resolver, ahead)
    BY <1>2, <1>3, <1>4, FlatConcat, SMTT(20)
  <2>3. NoIncludes(Whole) => NoIncludes(Flat(files, resolver, x))
    <3> SUFFICES ASSUME NoIncludes(Whole) PROVE NoIncludes(Flat(files, resolver, x))
      OBVIOUS
    <3> DEFINE a == Flat(files, resolver, x)
               b == Flat(files, resolver, ahead)
    <3>1. a \in Seq(Token) /\ b \in Seq(Token)
      BY <1>2, <1>3, <1>4, FlatTyped
    <3> HIDE DEF a, b
    <3>2. a \o b \in Seq(Token)
      BY <3>1, ConcatProperties
    <3>3. Whole = Past \o (a \o b)
      BY <1>1, <1>3, <2>2 DEF AtTokens, WholeIs, a, b
    <3> DEFINE c == a \o b
    <3> HIDE DEF c
    <3>4. NoIncludes(c)
      BY <1>3, <3>2, <3>3, NoIncludesConcat DEF c
    <3>5. NoIncludes(a)
      BY <3>1, <3>4, NoIncludesConcat DEF c
    <3> QED
      BY <3>5 DEF a
  <2>4. WholeIs'
    <3> SUFFICES ASSUME NoIncludes(Whole) PROVE Whole = Past \o Flat(files, resolver, new)
      BY <1>1, <1>5, <1>7, <2>1 DEF WholeIs
    <3> QED
      BY <1>1, <1>3, <1>7, <2>3 DEF AtTokens, WholeIs
  <2>5. WholeEnds'
    <3> SUFFICES ASSUME resolver, Ends(files, new) PROVE Ends(files, FileTokens)
      BY <1>1, <1>5, <1>7 DEF WholeEnds
    <3> QED
      BY <1>1, <1>3, <1>7 DEF AtTokens, WholeEnds
  <2>6. PastIs'
    BY <1>1, <2>1 DEF AtTokens, PastIs
  <2> QED
    BY <1>1, <2>4, <2>5, <2>6 DEF AtTokens
<1>8. CASE IncludeIgnored
  <2>1. ~resolver /\ source' = source
    BY <1>8 DEF IncludeIgnored
  <2>2. Rest' = ahead
    BY <1>1, <2>1 DEF Rest
  <2>3. Flat(files, resolver, x) = <<>>
    BY <1>1, <1>2, <1>3, <2>1, FlatOne
  <2>4. Flat(files, resolver, x \o ahead) = Flat(files, resolver, ahead)
    <3> DEFINE b == Flat(files, resolver, ahead)
    <3>1. b \in Seq(Token)
      BY <1>2, <1>3, FlatTyped
    <3> HIDE DEF x, ahead
    <3>2. Flat(files, resolver, x \o ahead) = Flat(files, resolver, x) \o b
      BY <1>2, <1>3, <1>4, FlatConcat
    <3> HIDE DEF b
    <3>3. <<>> \o b = b
      BY <3>1, ConcatEmptySeq
    <3> QED
      BY <2>3, <3>2, <3>3 DEF b
  <2> HIDE DEF x, ahead
  <2> QED
    BY <1>3, <1>7, <2>1, <2>2, <2>4 DEF behind
<1>9. CASE Include
  <2> DEFINE f == Tok.file
             t == files[f].tokens
             new == t \o ahead
  <2>1. /\ resolver /\ f \in DOMAIN files /\ files[f].lexes
        /\ source' = behind \o t \o ahead
    BY <1>9 DEF Include, Found, Spliced
  <2>2. t \in Seq(Token)
    BY <2>1, FileTyped
  <2>3. Opened(files, Tok)
    BY <1>1, <2>1 DEF Opened
  <2>9. NoIncludes(Flat(files, resolver, x)) => Flat(files, resolver, x) = Flat(files, resolver, t)
    BY <1>2, <1>3, <2>1, <2>3, FlatOne
  <2>10. Ends(files, t \o ahead) => Ends(files, x \o ahead)
    BY <1>2, <1>3, <2>3, EndsBackward
  <2> HIDE DEF t, f, ahead, behind, x
  <2>4. new \in Seq(Token) /\ source' = behind \o new
    <3>1. new \in Seq(Token)
      BY <1>3, <2>2, ConcatProperties
    <3>2. (behind \o t) \o ahead = behind \o (t \o ahead)
      BY <1>3, <2>2, TokensAssociative, ZenonT(30)
    <3> QED
      BY <2>1, <3>1, <3>2
  <2> HIDE DEF new
  <2>5. /\ SubSeq(behind \o new, 1, Len(behind)) = behind
        /\ SubSeq(behind \o new, Len(behind) + 1, Len(behind \o new)) = new
    BY <1>3, <2>4, SplitConcat
  <2>6. SubSeq(source', 1, pos) = behind /\ Rest' = new
    BY <1>1, <1>3, <2>4, <2>5 DEF Rest
  <2>7. NoIncludes(Flat(files, resolver, x)) =>
          Flat(files, resolver, x \o ahead) = Flat(files, resolver, new)
    <3>1. Flat(files, resolver, x \o ahead) = Flat(files, resolver, x) \o Flat(files, resolver, ahead)
      BY <1>2, <1>3, <1>4, FlatConcat, ZenonT(30)
    <3>2. Flat(files, resolver, t \o ahead) = Flat(files, resolver, t) \o Flat(files, resolver, ahead)
      BY <1>2, <1>3, <2>2, FlatConcat, ZenonT(30)
    <3> QED
      BY <2>9, <3>1, <3>2 DEF new
  <2>8. Ends(files, new) => Ends(files, x \o ahead)
    BY <2>10 DEF new
  <2> QED
    BY <1>7, <2>4, <2>6, <2>7, <2>8
<1> QED
  BY <1>8, <1>9

-----------------------------------------------------------------------------
(* Each directive and each token of text does to the preprocessor what it    *)
(* means for the tokens behind.                                              *)
LEMMA DirectiveTokens ==
    ASSUME LoadingInv, AtTokens,
           \/ Define \/ Undef \/ If \/ Endif \/ Pragma \/ SkipToken \/ EmitToken
    PROVE  AtTokens'
<1> DEFINE kinds == {"define", "undef", "ifdef", "ifndef", "endif", "pragma"} \union Text
<1>0. /\ AtToken(kinds) /\ Advance /\ Tok.kind # "include"
      /\ UNCHANGED <<files, queue, resolver, source, pc>>
  BY DEF Define, Undef, If, Endif, Pragma, SkipToken, EmitToken, AtToken, Text, outside
<1> HIDE DEF kinds
<1>1. /\ files'[Head(queue')].lexes /\ WholeIs' /\ WholeEnds'
      /\ Longer(Past, Past', Tok)
  BY <1>0, TokenStep
<1>2. pc = "process" /\ Processed(Past, output, macros, ifStack)
  BY <1>0 DEF AtTokens, PastIs, AtToken
<1>3. ifStack \in Seq(BOOLEAN) /\ ifStack # <<>>
  BY DEF LoadingInv, TypeOK
<1>4. macros = MacrosAt(Past, Len(Past) + 1)
  BY <1>2 DEF Processed
<1> DEFINE t == Past
           u == Past'
           tok == Tok
<1>5. CASE Define \/ Undef \/ Pragma \/ SkipToken \/ EmitToken
  <2>1. /\ tok.kind \notin IfKinds \union {"endif", "include", "error"}
        /\ ifStack' = ifStack
    BY <1>5 DEF Define, Undef, Pragma, SkipToken, EmitToken, AtToken, Text, IfKinds
  <2>2. output' = IF tok.kind \in Text /\ Last(ifStack)
                  THEN Append(output, Expanded(macros, tok)) ELSE output
    BY <1>5 DEF Define, Undef, Pragma, SkipToken, EmitToken, AtToken, Text, shouldEmit
  <2>3. macros' = MacrosAt(u, Len(t) + 2)
    <3> DEFINE W == MacrosAt(u, Len(t) + 2)
    <3>1. /\ ~Sets(tok) => W = macros
          /\ Sets(tok) /\ tok.kind = "define" =>
               W = [name \in DOMAIN macros \union {tok.name} |->
                      IF name = tok.name THEN tok.value ELSE macros[name]]
          /\ tok.kind = "undef" => W = [name \in DOMAIN macros \ {tok.name} |-> macros[name]]
      <4> DEFINE M == MacrosAt(t, Len(t) + 1)
      <4>1. Longer(t, u, tok) /\ M = macros
        BY <1>1, <1>4
      <4> HIDE DEF t, u, tok
      <4>2. /\ ~Sets(tok) => W = M
            /\ Sets(tok) /\ tok.kind = "define" =>
                 W = [name \in DOMAIN M \union {tok.name} |->
                        IF name = tok.name THEN tok.value ELSE M[name]]
            /\ tok.kind = "undef" => W = [name \in DOMAIN M \ {tok.name} |-> M[name]]
        BY <4>1, MacrosStep
      <4> HIDE DEF M, W
      <4> QED
        BY <4>1, <4>2
    <3> HIDE DEF W
    <3>2. CASE Define
      <4>1. tok.kind = "define" /\ (Sets(tok) <=> tok.lexes)
        BY <3>2 DEF Define, AtToken, Sets
      <4>2. macros' = IF tok.lexes THEN [name \in DOMAIN macros \union {tok.name} |->
                         IF name = tok.name THEN tok.value ELSE macros[name]] ELSE macros
        BY <3>2 DEF Define
      <4> QED
        BY <3>1, <4>1, <4>2 DEF W
    <3>3. CASE Undef
      BY <3>1, <3>3 DEF Undef, AtToken, W
    <3>4. CASE Pragma \/ SkipToken \/ EmitToken
      <4>1. ~Sets(tok) /\ macros' = macros
        BY <3>4 DEF Pragma, SkipToken, EmitToken, AtToken, Text, Sets
      <4> QED
        BY <3>1, <4>1 DEF W
    <3> QED
      BY <1>5, <3>2, <3>3, <3>4
  <2>4. Processed(u, output', macros', ifStack')
    <3> HIDE DEF u, t, tok
    <3> DEFINE out == IF tok.kind \in Text /\ Last(ifStack)
                      THEN Append(output, Expanded(macros, tok)) ELSE output
    <3>1. Longer(t, u, tok) /\ Processed(t, output, macros, ifStack)
      BY <1>1, <1>2 DEF t, u, tok
    <3>2. Processed(u, out, MacrosAt(u, Len(t) + 2), ifStack)
      BY <1>3, <2>1, <3>1, ProcessedText
    <3> QED
      BY <2>1, <2>2, <2>3, <3>2
  <2> QED
    BY <1>1, <2>4 DEF AtTokens, PastIs
<1>6. CASE If
  <2>1. /\ tok.kind \in IfKinds /\ output' = output /\ macros' = macros
        /\ ifStack' = Append(ifStack, Last(ifStack) /\ Holds(tok))
    BY <1>6 DEF If, AtToken, IfKinds, pushConditional, shouldEmit
  <2>2. Holds(tok) \in BOOLEAN /\ (Holds(tok) <=> ((tok.kind = "ifdef") = (tok.name \in DOMAIN macros)))
    BY DEF Holds
  <2>3. Processed(u, output, macros, Append(ifStack, Last(ifStack) /\ Holds(tok)))
    <3> HIDE DEF u, t, tok
    <3> DEFINE holds == Holds(tok)
    <3>1. Longer(t, u, tok) /\ Processed(t, output, macros, ifStack)
      BY <1>1, <1>2 DEF t, u, tok
    <3>2. holds \in BOOLEAN /\ (holds <=> ((tok.kind = "ifdef") = (tok.name \in DOMAIN macros)))
      BY <2>2
    <3> HIDE DEF holds
    <3>3. Processed(u, output, macros, Append(ifStack, Last(ifStack) /\ holds))
      BY <1>3, <2>1, <3>1, <3>2, ProcessedIf
    <3> QED
      BY <3>3 DEF holds
  <2> QED
    BY <1>1, <2>1, <2>3 DEF AtTokens, PastIs
<1>7. CASE Endif
  <2>1. /\ tok.kind = "endif" /\ output' = output /\ macros' = macros
        /\ ifStack' = Front(ifStack) /\ Len(ifStack) > 1
    BY <1>7 DEF Endif, AtToken
  <2>2. Processed(u, output, macros, Front(ifStack))
    <3> HIDE DEF u, t, tok
    <3>1. Longer(t, u, tok) /\ Processed(t, output, macros, ifStack)
      BY <1>1, <1>2 DEF t, u, tok
    <3> QED
      BY <1>3, <2>1, <3>1, ProcessedEndif
  <2> QED
    BY <1>1, <2>1, <2>2 DEF AtTokens, PastIs
<1> QED
  BY <1>5, <1>6, <1>7

(* A file begins with nothing behind.                                        *)
LEMMA OpenTokens ==
    ASSUME LoadingInv, OpenFile
    PROVE  AtTokens'
<1>1. /\ queue # <<>> /\ files[Head(queue)].lexes
      /\ source' = FileTokens /\ pos' = 1 /\ output' = <<>> /\ macros' = <<>>
      /\ ifStack' = <<TRUE>> /\ UNCHANGED <<files, queue, resolver>>
  BY DEF OpenFile, FileTokens
<1>2. /\ files \in FileSystems /\ resolver \in BOOLEAN
      /\ FileTokens \in Seq(Token) /\ Whole \in Seq(Token)
  BY <1>1, AtHead
<1>3. Whole' = Whole /\ FileTokens' = FileTokens
  BY <1>1 DEF Whole, FileTokens
<1>4. Past' = <<>>
  <2> DEFINE t == FileTokens
  <2>1. Past' = Without(SubSeq(t, 1, 0), {"include"})
    <3>1. pos' - 1 = 0
      BY <1>1
    <3>2. Past' = Without(SubSeq(t, 1, pos' - 1), {"include"})
      BY <1>1 DEF Past
    <3> HIDE DEF t
    <3> QED
      BY <3>1, <3>2
  <2> HIDE DEF t
  <2>2. SubSeq(t, 1, 0) = <<>>
    BY SubSeqEmpty
  <2> QED
    BY <2>1, <2>2, WithoutNone
<1>5. Rest' = FileTokens
  <2> DEFINE t == FileTokens
             r == SubSeq(t, 1, Len(t))
  <2>1. t \in Seq(Token) /\ Len(t) \in Nat /\ \A i \in 1..Len(t) : t[i] \in Token
    BY <1>2, LenProperties, ElementOfSeq
  <2>2. Rest' = r
    BY <1>1 DEF Rest
  <2> HIDE DEF t
  <2>3. r \in Seq(Token) /\ Len(r) = Len(t) /\ \A i \in 1..Len(t) : r[i] = t[i]
    BY <2>1, SubSeqProperties
  <2> HIDE DEF r
  <2>4. r = t
    BY <2>1, <2>3, SeqEqual
  <2> QED
    BY <2>2, <2>4 DEF t
<1>6. WholeIs'
  <2> DEFINE w == Whole
  <2>1. w = Flat(files, resolver, FileTokens) /\ w \in Seq(Token)
    BY <1>2 DEF Whole
  <2> HIDE DEF w
  <2>2. <<>> \o w = w
    BY <2>1, ConcatEmptySeq
  <2>3. Whole' = <<>> \o Flat(files, resolver, FileTokens)
    BY <1>3, <2>1, <2>2 DEF w
  <2> QED
    BY <1>1, <1>3, <1>4, <1>5, <2>3 DEF WholeIs
<1>7. WholeEnds'
  BY <1>1, <1>3, <1>5 DEF WholeEnds
<1>8. PastIs'
  BY <1>1, <1>4, ProcessedNone DEF PastIs
<1> QED
  BY <1>1, <1>6, <1>7, <1>8 DEF AtTokens

-----------------------------------------------------------------------------
(* What cannot be read does not mean anything.                               *)
LEMMA ErrorMeans ==
    ASSUME LoadingInv, AtTokens, EndifUnmatched \/ ErrorDirective \/ IncludeMissing
    PROVE  queue # <<>> /\ ~Meaning(files, resolver, Head(queue)).ok
<1> DEFINE kinds == {"endif", "error", "include"}
<1>0. AtToken(kinds)
  BY DEF EndifUnmatched, ErrorDirective, IncludeMissing, AtToken
<1>1. /\ Tok.kind \in kinds
      /\ Tok.kind = "endif" => Len(ifStack) <= 1
      /\ Tok.kind = "include" => resolver /\ ~Opened(files, Tok)
  BY <1>0 DEF EndifUnmatched, ErrorDirective, IncludeMissing, AtToken, Found, Opened
<1> HIDE DEF kinds
<1>2. pc = "process" /\ queue # <<>>
  BY <1>0, AtTokenTyped DEF LoadingInv, AtFile
<1>3. files \in FileSystems /\ resolver \in BOOLEAN /\ Whole \in Seq(Token)
  BY <1>2, AtHead
<1> SUFFICES ASSUME Meaning(files, resolver, Head(queue)).ok PROVE FALSE
  BY <1>2
<1>4. Allowed(Whole)
  BY MeaningIs DEF Whole, FileTokens
<1>5. NoIncludes(Whole)
  BY <1>4 DEF Allowed, NoIncludes
<1>6. Tok \in Token /\ Past \in Seq(Token)
  BY <1>0, AtTokenSplit
<1>7. Flat(files, resolver, <<Tok>>) = <<Tok>>
  BY <1>1, <1>3, <1>6, FlatOne
<1> DEFINE ahead == SubSeq(source, pos + 1, Len(source))
           rest == Flat(files, resolver, ahead)
           u == Append(Past, Tok)
<1>8. rest \in Seq(Token) /\ Whole = u \o rest
  BY <1>0, <1>5, <1>7, WholeAt
<1>9. Longer(Past, u, Tok)
  BY <1>6, AppendLonger
<1> HIDE DEF rest, u
<1>10. Allowed(u)
  <2>1. u \in Seq(Token)
    BY <1>9 DEF Longer
  <2> QED
    BY <1>4, <1>8, <2>1, AllowedPrefix
<1>11. PICK opens : Stacked(Past, opens, ifStack)
  BY <1>2 DEF AtTokens, PastIs, Processed
<1>12. /\ Tok.kind \notin {"error", "include"}
       /\ Tok.kind = "endif" => Len(ifStack) > 1
  <2>1. Allowed(Past) /\ ifStack \in Seq(BOOLEAN) /\ ifStack # <<>>
    BY <1>2 DEF AtTokens, PastIs, Processed, LoadingInv, TypeOK
  <2> QED
    BY <1>9, <1>10, <1>11, <2>1, AllowedStep
<1>13. Len(ifStack) \in Nat
  BY LenProperties DEF LoadingInv, TypeOK
<1> QED
  BY <1>1, <1>12, <1>13 DEF kinds

(* At the end of the source all of the file is behind.                       *)
LEMMA SourceEnds ==
    ASSUME LoadingInv, AtTokens, pc = "process", pos \notin DOMAIN source
    PROVE  /\ queue # <<>> /\ output = Selected(Whole)
           /\ Meaning(files, resolver, Head(queue)).ok <=> Parses(output) /\ Evaluates(output)
<1>1. queue # <<>> /\ files[Head(queue)].lexes
  BY DEF LoadingInv, AtFile, AtTokens
<1>2. /\ files \in FileSystems /\ resolver \in BOOLEAN /\ Head(queue) \in DOMAIN files
      /\ Whole \in Seq(Token)
  BY <1>1, AtHead
<1>3. Rest = <<>> /\ pos = Len(source) + 1 /\ source \in Seq(Token) /\ Len(source) \in Nat
  <2>1. /\ source \in Seq(Token) /\ pos \in 1..Len(source) + 1 /\ Len(source) \in Nat
        /\ DOMAIN source = 1..Len(source)
    BY LenProperties DEF LoadingInv, TypeOK
  <2>2. pos = Len(source) + 1
    BY <2>1
  <2>3. SubSeq(source, pos, Len(source)) = <<>>
    BY <2>1, <2>2, SubSeqEmpty
  <2> QED
    BY <2>1, <2>2, <2>3 DEF Rest
<1>4. NoIncludes(Whole)
  <2>1. Ends(files, <<>>)
    <3>1. Deep(files, <<>>, 0) = <<>>
      BY <1>2, DeepNone
    <3> QED
      BY <3>1, NoIncludesNone DEF Ends
  <2>2. resolver => Ends(files, FileTokens)
    BY <1>3, <2>1 DEF AtTokens, WholeEnds
  <2> QED
    BY <1>2, <2>2, EndsFlat DEF Whole, FileTokens
<1>5. Past \in Seq(Token)
  <2>1. \A i \in 1..pos-1 : source[i] \in Token
    BY <1>3, ElementOfSeq
  <2>2. SubSeq(source, 1, pos - 1) \in Seq(Token)
    BY <1>3, <2>1, SubSeqProperties
  <2> QED
    BY <2>2, WithoutTyped DEF Past
<1>6. Whole = Past
  <2>1. Whole = Past \o <<>>
    BY <1>2, <1>3, <1>4, FlatNone DEF AtTokens, WholeIs
  <2> QED
    BY <1>5, <2>1, ConcatEmptySeq
<1>7. output = Selected(Whole) /\ Allowed(Whole)
  BY <1>6 DEF AtTokens, PastIs, Processed
<1>8. Meaning(files, resolver, Head(queue)).ok
        <=> Parses(Selected(Whole)) /\ Evaluates(Selected(Whole))
  BY <1>1, <1>7, MeaningIs DEF Whole, FileTokens
<1> QED
  BY <1>1, <1>7, <1>8

-----------------------------------------------------------------------------
(* One node more is evaluated.                                               *)
LEMMA EvaluatedStep ==
    ASSUME NEW t \in Seq(Token), NEW tok \in Token
    PROVE  Evaluated(Append(t, tok)) = IF tok.kind = "pattern"
                                       THEN Append(Evaluated(t), evalPattern(tok))
                                       ELSE Evaluated(t)
<1> DEFINE u == Append(t, tok)
           a == Subsequence(t, Places(t, {"pattern"}))
           b == Subsequence(u, Places(u, {"pattern"}))
           F(s) == [k \in DOMAIN s |-> evalPattern(s[k])]
<1>1. Longer(t, u, tok)
  BY AppendLonger
<1>2. /\ Len(t) \in Nat /\ Len(u) = Len(t) + 1 /\ u[Len(t) + 1] = tok
      /\ DOMAIN t = 1..Len(t) /\ DOMAIN u = 1..Len(t)+1 /\ \A k \in 1..Len(t) : u[k] = t[k]
  BY <1>1 DEF Longer
<1> HIDE DEF u
<1>3. b = IF tok.kind = "pattern" THEN Append(a, tok) ELSE a
  <2> DEFINE A == Places(t, {"pattern"})
             B == Places(u, {"pattern"})
  <2>1. \A k \in 1..Len(t) : u[k] = t[k] /\ (k \in B <=> k \in A)
    BY <1>2 DEF Places
  <2>2. Len(u) \in B <=> tok.kind = "pattern"
    BY <1>2 DEF Places
  <2> HIDE DEF A, B
  <2>3. Subsequence(u, B) = IF Len(u) \in B THEN Append(Subsequence(t, A), u[Len(u)])
                            ELSE Subsequence(t, A)
    BY <1>2, <2>1, SubsequenceStep
  <2> QED
    BY <1>2, <2>2, <2>3 DEF A, B
<1>4. a \in Seq(Token)
  BY SubsequenceTyped
<1>5. Evaluated(t) = F(a) /\ Evaluated(u) = F(b)
  BY DEF Evaluated
<1> HIDE DEF a, b
<1>6. F(Append(a, tok)) = Append(F(a), evalPattern(tok))
  <2> DEFINE S == {evalPattern(a[k]) : k \in DOMAIN a} \union {evalPattern(tok)}
             c == Append(a, tok)
             f == F(a)
             g == F(c)
             h == Append(f, evalPattern(tok))
             n == Len(a)
  <2>1. /\ n \in Nat /\ DOMAIN a = 1..n
        /\ Len(c) = n + 1 /\ DOMAIN c = 1..n+1 /\ (\A k \in 1..n : c[k] = a[k]) /\ c[n+1] = tok
    BY <1>4, AppendProperties, LenProperties
  <2> HIDE DEF c, n
  <2>2. f \in Seq(S) /\ Len(f) = n /\ \A k \in 1..n : f[k] = evalPattern(a[k])
    <3>1. f = [k \in 1..n |-> evalPattern(a[k])] /\ \A k \in 1..n : evalPattern(a[k]) \in S
      BY <2>1
    <3> HIDE DEF S, f
    <3>2. f \in Seq(S) /\ DOMAIN f = 1..n
      BY <2>1, <3>1, IsASeq, SMTT(20)
    <3> QED
      BY <2>1, <3>1, <3>2, LenProperties
  <2>3. g \in Seq(S) /\ Len(g) = n + 1 /\ \A k \in 1..n+1 : g[k] = evalPattern(c[k])
    <3>1. g = [k \in 1..n+1 |-> evalPattern(c[k])]
      BY <2>1
    <3>2. \A k \in 1..n+1 : evalPattern(c[k]) \in S
      BY <2>1
    <3> DEFINE m == n + 1
    <3>3. m \in Nat
      BY <2>1
    <3> HIDE DEF S, g, m
    <3>4. g = [k \in 1..m |-> evalPattern(c[k])] /\ \A k \in 1..m : evalPattern(c[k]) \in S
      BY <3>1, <3>2 DEF m
    <3>5. g \in Seq(S) /\ DOMAIN g = 1..m
      BY <3>3, <3>4, IsASeq
    <3>6. Len(g) = m
      BY <3>3, <3>5, LenProperties
    <3> QED
      BY <3>4, <3>5, <3>6 DEF m
  <2>4. evalPattern(tok) \in S
    OBVIOUS
  <2> HIDE DEF S, f, g
  <2>5. /\ h \in Seq(S) /\ Len(h) = n + 1 /\ (\A k \in 1..n : h[k] = f[k])
        /\ h[n+1] = evalPattern(tok)
    BY <2>2, <2>4, AppendProperties
  <2> HIDE DEF h
  <2>6. ASSUME NEW k \in 1..n+1 PROVE g[k] = h[k]
    BY <2>1, <2>2, <2>3, <2>5
  <2>7. g = h
    BY <2>3, <2>5, <2>6, SeqEqual
  <2> QED
    BY <2>7 DEF c, f, g, h
<1> HIDE DEF F
<1> QED
  BY <1>3, <1>5, <1>6 DEF u

(* No tokens give no patterns.                                               *)
LEMMA EvaluatedNone == Evaluated(<<>>) = <<>>
<1> DEFINE t == <<>>
           a == Subsequence(t, Places(t, {"pattern"}))
<1>1. Len(t) = 0
  OBVIOUS
<1> HIDE DEF t
<1>2. a = <<>>
  BY <1>1, SubsequenceOfNone
<1>3. Evaluated(t) = [k \in DOMAIN a |-> evalPattern(a[k])]
  BY DEF Evaluated
<1> HIDE DEF a
<1>4. DOMAIN a = {}
  BY <1>2
<1> QED
  BY <1>3, <1>4 DEF t

-----------------------------------------------------------------------------
(* The evaluator works at the selection of a file that means something if    *)
(* there is nothing endless left in it; no file waits while the patterns are called for or taken out; and            *)
(* DeregisterLibrary keeps what is of other libraries.                       *)
AtNodes ==
    pc = "evaluate" =>
      /\ Evaluates(output) => Meaning(files, resolver, Head(queue)).ok
      /\ output = Selected(Whole)
      /\ next \in 1..Len(output) + 1
      /\ \A k \in 1..next-1 : output[k].kind # "endless"
      /\ compiled = Evaluated(SubSeq(output, 1, next - 1))
NoneWaits == pc \in {"ready", "sift", "rebuild"} => queue = <<>>
Others(list) == Subsequence(list, {i \in DOMAIN list : list[i].library # dropped})
KeptIs == pc = "sift" => kept = Others(SubSeq(patterns, 1, next - 1))

StoreInv == LoadingInv /\ AtTokens /\ AtNodes /\ NoneWaits /\ KeptIs

(* A prefix of nothing.                                                      *)
LEMMA NonePrefix == \A s : SubSeq(s, 1, 0) = <<>>
<1> SUFFICES ASSUME NEW s PROVE SubSeq(s, 1, 0) = <<>>
  OBVIOUS
<1> QED
  BY SubSeqEmpty

(* Parsing begins, and evaluating goes on, with the selection of the file.   *)
LEMMA NodesStep ==
    ASSUME StoreInv, Parse \/ EvaluateNode
    PROVE  AtNodes'
<1>1. CASE Parse
  <2>1. /\ pc = "process" /\ pos \notin DOMAIN source /\ Parses(output)
        /\ compiled' = <<>> /\ next' = 1
        /\ UNCHANGED <<files, queue, resolver, output>>
    BY <1>1 DEF Parse, AtEnd, preprocessor
  <2>2. /\ output = Selected(Whole)
        /\ Evaluates(output) => Meaning(files, resolver, Head(queue)).ok
    BY <2>1, SourceEnds DEF StoreInv
  <2>3. Whole' = Whole
    BY <2>1 DEF Whole, FileTokens
  <2>4. compiled' = Evaluated(SubSeq(output', 1, next' - 1))
    <3>1. next' - 1 = 0
      BY <2>1
    <3>2. SubSeq(output, 1, 0) = <<>>
      BY NonePrefix
    <3> QED
      BY <2>1, <3>1, <3>2, EvaluatedNone
  <2>5. next' \in 1..Len(output') + 1
    <3>1. Len(output) \in Nat
      BY LenProperties DEF StoreInv, LoadingInv, TypeOK
    <3> QED
      BY <2>1, <3>1
  <2>6. /\ Evaluates(output') => Meaning(files', resolver', Head(queue')).ok
        /\ output' = Selected(Whole')
    BY <2>1, <2>2, <2>3
  <2>7. \A k \in 1..next'-1 : output'[k].kind # "endless"
    BY <2>1
  <2> QED
    BY <2>4, <2>5, <2>6, <2>7 DEF AtNodes
<1>2. CASE EvaluateNode
  <2>1. /\ pc = "evaluate" /\ next \in DOMAIN output /\ next' = next + 1
        /\ compiled' = IF output[next].kind = "pattern"
                       THEN Append(compiled, evalPattern(output[next])) ELSE compiled
        /\ output[next].kind # "endless"
        /\ UNCHANGED <<files, queue, resolver, output>>
    BY <1>2 DEF EvaluateNode, preprocessor
  <2>2. output \in Seq(Token) /\ next \in 1..Len(output) /\ Len(output) \in Nat
    BY <2>1, LenProperties DEF StoreInv, LoadingInv, TypeOK
  <2>3. /\ output[next] \in Token /\ SubSeq(output, 1, next - 1) \in Seq(Token)
        /\ SubSeq(output, 1, next) = Append(SubSeq(output, 1, next - 1), output[next])
    BY <2>2, SplitAt
  <2>4. compiled' = Evaluated(SubSeq(output, 1, next))
    BY <2>1, <2>3, EvaluatedStep DEF StoreInv, AtNodes
  <2>5. next' - 1 = next /\ next' \in 1..Len(output) + 1
    BY <2>1, <2>2
  <2>6. Whole' = Whole
    BY <2>1 DEF Whole, FileTokens
  <2>7. \A k \in 1..next : output[k].kind # "endless"
    <3>1. \A k \in 1..next : k \in 1..next-1 \/ k = next
      BY <2>2
    <3> QED
      BY <2>1, <3>1 DEF StoreInv, AtNodes
  <2> QED
    BY <2>1, <2>4, <2>5, <2>6, <2>7 DEF StoreInv, AtNodes
<1> QED
  BY <1>1, <1>2

(* The next pattern is kept if it is of another library.                     *)
LEMMA KeptStep ==
    ASSUME LoadingInv, KeptIs, Sift
    PROVE  KeptIs'
<1>1. /\ pc = "sift" /\ next \in DOMAIN patterns /\ next' = next + 1
      /\ kept' = IF patterns[next].library = dropped THEN kept ELSE Append(kept, patterns[next])
      /\ UNCHANGED <<patterns, dropped>>
  BY DEF Sift
<1>2. patterns \in Seq(Pattern) /\ next \in 1..Len(patterns) /\ Len(patterns) \in Nat
  BY <1>1, LenProperties DEF LoadingInv, TypeOK
<1> DEFINE s == SubSeq(patterns, 1, next - 1)
           t == SubSeq(patterns, 1, next)
           p == patterns[next]
<1>3. s \in Seq(Pattern) /\ t = Append(s, p) /\ p \in Pattern
  BY <1>2, SplitAt
<1>4. kept = Others(s)
  BY <1>1 DEF KeptIs
<1>5. next' - 1 = next
  BY <1>1, <1>2
<1> HIDE DEF s, t, p
<1>6. /\ Len(s) \in Nat /\ Len(t) = Len(s) + 1 /\ t[Len(t)] = p
      /\ DOMAIN s = 1..Len(s) /\ DOMAIN t = 1..Len(t)
      /\ \A k \in 1..Len(s) : t[k] = s[k]
  BY <1>3, AppendProperties, LenProperties
<1>7. Others(t) = IF p.library # dropped THEN Append(Others(s), p) ELSE Others(s)
  <2> DEFINE A == {i \in DOMAIN s : s[i].library # dropped}
             B == {i \in DOMAIN t : t[i].library # dropped}
  <2>1. \A k \in 1..Len(s) : t[k] = s[k] /\ (k \in B <=> k \in A)
    BY <1>6
  <2>2. Len(t) \in B <=> p.library # dropped
    BY <1>6
  <2> HIDE DEF A, B
  <2>3. Subsequence(t, B) = IF Len(t) \in B THEN Append(Subsequence(s, A), t[Len(t)])
                            ELSE Subsequence(s, A)
    BY <1>6, <2>1, SubsequenceStep
  <2> QED
    BY <1>6, <2>2, <2>3 DEF Others, A, B
<1>8. kept' = Others(t)
  BY <1>1, <1>4, <1>7 DEF p
<1>10. SubSeq(patterns', 1, next' - 1) = t
  BY <1>1, <1>5 DEF t
<1>11. kept' = Subsequence(t, {i \in DOMAIN t : t[i].library # dropped})
  BY <1>8 DEF Others
<1>12. kept' = Subsequence(SubSeq(patterns', 1, next' - 1),
                           {i \in DOMAIN SubSeq(patterns', 1, next' - 1) :
                              SubSeq(patterns', 1, next' - 1)[i].library # dropped'})
  BY <1>1, <1>10, <1>11
<1> QED
  BY <1>12 DEF KeptIs, Others

(* Sifting begins with nothing kept.                                         *)
LEMMA KeptNone ==
    ASSUME NEW library \in Libraries, DeregisterLibrary(library)
    PROVE  KeptIs'
<1>1. kept' = <<>> /\ next' - 1 = 0
  BY DEF DeregisterLibrary
<1> DEFINE t == SubSeq(patterns', 1, 0)
<1>2. t = <<>>
  BY NonePrefix
<1> HIDE DEF t
<1>3. \A places : Subsequence(t, places) = <<>>
  <2>1. Len(t) = 0
    BY <1>2
  <2> QED
    BY <2>1, SubsequenceOfNone
<1>4. kept' = Subsequence(t, {i \in DOMAIN t : t[i].library # dropped'})
  BY <1>1, <1>3
<1>5. SubSeq(patterns', 1, next' - 1) = t
  BY <1>1 DEF t
<1>6. kept' = Subsequence(SubSeq(patterns', 1, next' - 1),
                          {i \in DOMAIN SubSeq(patterns', 1, next' - 1) :
                             SubSeq(patterns', 1, next' - 1)[i].library # dropped'})
  BY <1>4, <1>5
<1> QED
  BY <1>6 DEF KeptIs, Others

(* Every step keeps the invariant of the refinement.                         *)
LEMMA StoreInvStep ==
    ASSUME StoreInv, [Next]_vars, LoadingInv'
    PROVE  StoreInv'
<1>1. AtTokens'
  <2>1. CASE OpenFile
    BY <2>1, OpenTokens DEF StoreInv
  <2>2. CASE Include \/ IncludeIgnored
    BY <2>2, IncludeTokens DEF StoreInv
  <2>3. CASE Define \/ Undef \/ If \/ Endif \/ Pragma \/ SkipToken \/ EmitToken
    BY <2>3, DirectiveTokens DEF StoreInv
  <2>4. CASE UNCHANGED vars
    <3>1. UNCHANGED <<files, pc, queue, resolver, source, pos, output, ifStack, macros>>
      BY <2>4 DEF vars, preprocessor
    <3> QED
      BY <3>1 DEF StoreInv, AtTokens, WholeIs, WholeEnds, PastIs, Past, Rest, Whole, FileTokens
  <2>5. CASE pc' # "process"
    BY <2>5 DEF AtTokens
  <2>6. ASSUME ~OpenFile, ~Include, ~IncludeIgnored, pc' = "process",
               ~(Define \/ Undef \/ If \/ Endif \/ Pragma \/ SkipToken \/ EmitToken),
               ~UNCHANGED vars
        PROVE  FALSE
    <3>1. LoadStep \/ Call \/ Ended
      BY <2>6 DEF Next
    <3>2. ~Ended
      BY <2>6 DEF Ended
    <3>3. ~Call
      BY <2>6 DEF Call, Load, Deregister, DeregisterLibrary, Rebuild
    <3>4. ~LoadStep
      <4>1. ~(LexError \/ EndWalk \/ IncludeMissing \/ IncludeForever \/ EndifUnmatched
              \/ ErrorDirective \/ Parse \/ ParseError \/ ParseForever)
        BY <2>6 DEF LexError, EndWalk, IncludeMissing, IncludeForever, EndifUnmatched,
                    ErrorDirective, Parse, ParseError, ParseForever, Fail
      <4>2. ~(EvaluateNode \/ EvaluateForever \/ EndEvaluate \/ Register \/ EndRegister \/ Sift \/ EndSift
              \/ RebuildIndex \/ EndRebuild)
        BY <2>6 DEF EvaluateNode, EvaluateForever, EndEvaluate, Register, EndRegister, Sift, EndSift,
                    RebuildIndex, EndRebuild, Rebuild
      <4> QED
        BY <2>6, <4>1, <4>2 DEF LoadStep
    <3> QED
      BY <3>1, <3>2, <3>3, <3>4
  <2> QED
    BY <2>1, <2>2, <2>3, <2>4, <2>5, <2>6
<1>2. AtNodes'
  <2>1. CASE Parse \/ EvaluateNode
    BY <2>1, NodesStep
  <2>2. CASE UNCHANGED vars
    <3>1. UNCHANGED <<files, pc, queue, resolver, output, next, compiled>>
      BY <2>2 DEF vars, preprocessor
    <3> QED
      BY <3>1 DEF StoreInv, AtNodes, Whole, FileTokens
  <2>3. CASE pc' # "evaluate"
    BY <2>3 DEF AtNodes
  <2>4. ASSUME ~Parse, ~EvaluateNode, pc' = "evaluate", ~UNCHANGED vars
        PROVE  FALSE
    <3>1. LoadStep \/ Call \/ Ended
      BY <2>4 DEF Next
    <3>2. ~Ended
      BY <2>4 DEF Ended
    <3>3. ~Call
      BY <2>4 DEF Call, Load, Deregister, DeregisterLibrary, Rebuild
    <3>4. ~LoadStep
      <4>1. ~(OpenFile \/ LexError \/ EndWalk \/ Include \/ IncludeMissing \/ IncludeForever
              \/ IncludeIgnored)
        BY <2>4 DEF OpenFile, LexError, EndWalk, Include, IncludeMissing, IncludeForever,
                    IncludeIgnored, Fail, AtToken
      <4>2. ~(Define \/ Undef \/ If \/ Endif \/ EndifUnmatched \/ ErrorDirective \/ Pragma
              \/ SkipToken \/ EmitToken)
        BY <2>4 DEF Define, Undef, If, Endif, EndifUnmatched, ErrorDirective, Pragma,
                    SkipToken, EmitToken, Fail, AtToken
      <4>3. ~(ParseError \/ ParseForever \/ EvaluateForever \/ EndEvaluate \/ Register \/ EndRegister \/ Sift \/ EndSift
              \/ RebuildIndex \/ EndRebuild)
        BY <2>4 DEF ParseError, ParseForever, EvaluateForever, EndEvaluate, Register, EndRegister, Sift, EndSift,
                    RebuildIndex, EndRebuild, Rebuild, Fail
      <4> QED
        BY <2>4, <4>1, <4>2, <4>3 DEF LoadStep
    <3> QED
      BY <3>1, <3>2, <3>3, <3>4
  <2> QED
    BY <2>1, <2>2, <2>3, <2>4
<1>3. NoneWaits'
  <2>1. CASE LoadStep
    <3>1. CASE LexError \/ EndWalk \/ IncludeMissing \/ EndifUnmatched \/ ErrorDirective
               \/ ParseError
      BY <3>1 DEF LexError, EndWalk, IncludeMissing, EndifUnmatched, ErrorDirective,
                  ParseError, Fail, NoneWaits
    <3>2. CASE OpenFile \/ Include \/ IncludeForever \/ IncludeIgnored \/ Define \/ Undef \/ If
               \/ Endif \/ Pragma \/ SkipToken \/ EmitToken
      BY <3>2 DEF OpenFile, Include, IncludeForever, IncludeIgnored, Define, Undef, If, Endif,
                  Pragma, SkipToken, EmitToken, AtToken, NoneWaits
    <3>3. CASE Parse \/ ParseForever \/ EvaluateNode \/ EvaluateForever \/ EndEvaluate
               \/ Register \/ EndRegister
      BY <3>3 DEF Parse, ParseForever, EvaluateNode, EvaluateForever, EndEvaluate, Register,
                  EndRegister, NoneWaits
    <3>4. CASE Sift \/ EndSift \/ RebuildIndex \/ EndRebuild
      BY <3>4 DEF Sift, EndSift, RebuildIndex, EndRebuild, StoreInv, NoneWaits
    <3> QED
      BY <2>1, <3>1, <3>2, <3>3, <3>4 DEF LoadStep
  <2>2. CASE Call
    BY <2>2 DEF Call, Load, Deregister, DeregisterLibrary, Called, StoreInv, NoneWaits
  <2>3. CASE UNCHANGED vars
    BY <2>3 DEF vars, StoreInv, NoneWaits
  <2> QED
    BY <2>1, <2>2, <2>3 DEF Next, Ended
<1>4. KeptIs'
  <2>1. CASE Sift
    BY <2>1, KeptStep DEF StoreInv
  <2>2. ASSUME NEW library \in Libraries, DeregisterLibrary(library) PROVE KeptIs'
    BY <2>2, KeptNone
  <2>3. CASE UNCHANGED vars
    <3>1. UNCHANGED <<pc, patterns, kept, dropped, next>>
      BY <2>3 DEF vars, db
    <3> QED
      BY <3>1 DEF StoreInv, KeptIs, Others
  <2>4. CASE pc' # "sift"
    BY <2>4 DEF KeptIs
  <2>5. ASSUME ~Sift, ~(\E library \in Libraries : DeregisterLibrary(library)), pc' = "sift",
               ~UNCHANGED vars
        PROVE  FALSE
    <3>1. LoadStep \/ Call \/ Ended
      BY <2>5 DEF Next
    <3>2. ~Ended
      BY <2>5 DEF Ended
    <3>3. ~Call
      BY <2>5 DEF Call, Load, Deregister, Rebuild
    <3>4. ~LoadStep
      <4>1. ~(OpenFile \/ LexError \/ EndWalk \/ Include \/ IncludeMissing \/ IncludeForever
              \/ IncludeIgnored)
        BY <2>5 DEF OpenFile, LexError, EndWalk, Include, IncludeMissing, IncludeForever,
                    IncludeIgnored, Fail, AtToken
      <4>2. ~(Define \/ Undef \/ If \/ Endif \/ EndifUnmatched \/ ErrorDirective \/ Pragma
              \/ SkipToken \/ EmitToken)
        BY <2>5 DEF Define, Undef, If, Endif, EndifUnmatched, ErrorDirective, Pragma,
                    SkipToken, EmitToken, Fail, AtToken
      <4>3. ~(Parse \/ ParseError \/ ParseForever \/ EvaluateNode \/ EvaluateForever
              \/ EndEvaluate \/ Register \/ EndRegister \/ EndSift \/ RebuildIndex \/ EndRebuild)
        BY <2>5 DEF Parse, ParseError, ParseForever, EvaluateNode, EvaluateForever,
                    EndEvaluate, Register, EndRegister,
                    EndSift, RebuildIndex, EndRebuild, Rebuild, Fail
      <4> QED
        BY <2>5, <4>1, <4>2, <4>3 DEF LoadStep
    <3> QED
      BY <3>1, <3>2, <3>3, <3>4
  <2> QED
    BY <2>1, <2>2, <2>3, <2>4, <2>5
<1> QED
  BY <1>1, <1>2, <1>3, <1>4 DEF StoreInv

(* The inductive invariant of the refinement.                                *)
THEOREM StoreInvariant == Spec => []StoreInv
<1>1. Init => StoreInv
  <2> SUFFICES ASSUME Init PROVE StoreInv
    OBVIOUS
  <2>1. pc = "ready" /\ queue = <<>> /\ LoadingInv
    BY InitInv DEF Init
  <2> QED
    BY <2>1 DEF StoreInv, AtTokens, AtNodes, NoneWaits, KeptIs
<1>2. StoreInv /\ [Next]_vars /\ LoadingInv' => StoreInv'
  BY StoreInvStep
<1> QED
  BY <1>1, <1>2, LoadingInvariant, PTL DEF Spec

-----------------------------------------------------------------------------
(* The list of the abstract store and the meanings of the files that wait.   *)
Stored == IF pc = "register" THEN patterns \o compiled ELSE patterns
Meant(fs, includes, walk) == [k \in DOMAIN walk |-> Meanings[fs][includes][walk[k]]]
Waiting == Meant(files, resolver, queue)

(* A file that waits has its meaning.                                        *)
LEMMA MeantIs ==
    ASSUME NEW fs \in FileSystems, NEW includes \in BOOLEAN, NEW walk \in Seq(DOMAIN fs)
    PROVE  /\ walk = <<>> => Meant(fs, includes, walk) = <<>>
           /\ walk # <<>> =>
                /\ Meant(fs, includes, walk) # <<>>
                /\ Head(Meant(fs, includes, walk)) = Meaning(fs, includes, Head(walk))
                /\ Tail(Meant(fs, includes, walk)) = Meant(fs, includes, Tail(walk))
<1> DEFINE M(f) == Meanings[fs][includes][f]
           w == Meant(fs, includes, walk)
<1>1. \A f \in DOMAIN fs : M(f) = Meaning(fs, includes, f)
  BY DEF Meanings
<1>2. Len(walk) \in Nat /\ DOMAIN walk = 1..Len(walk) /\ \A k \in 1..Len(walk) : walk[k] \in DOMAIN fs
  BY LenProperties, ElementOfSeq
<1>3. w = [k \in 1..Len(walk) |-> M(walk[k])]
  BY <1>2 DEF Meant
<1> HIDE DEF M
<1>4. w \in Seq({M(f) : f \in DOMAIN fs}) /\ Len(w) = Len(walk)
  <2> DEFINE S == {M(f) : f \in DOMAIN fs}
             n == Len(walk)
  <2>1. n \in Nat /\ \A k \in 1..n : M(walk[k]) \in S
    BY <1>2
  <2> HIDE DEF S, w
  <2>2. w \in Seq(S) /\ DOMAIN w = 1..n
    <3> HIDE DEF n
    <3>1. w = [k \in 1..n |-> M(walk[k])]
      BY <1>3 DEF n
    <3> QED
      BY <2>1, <3>1, IsASeq
  <2>3. Len(w) = n
    BY <2>1, <2>2, LenProperties
  <2> QED
    BY <2>2, <2>3 DEF S
<1>5. ASSUME walk = <<>> PROVE w = <<>>
  <2>1. Len(w) = 0
    BY <1>4, <1>5
  <2> HIDE DEF w
  <2> QED
    BY <1>4, <2>1, EmptySeq
<1>6. ASSUME walk # <<>>
      PROVE  w # <<>> /\ Head(w) = Meaning(fs, includes, Head(walk))
             /\ Tail(w) = Meant(fs, includes, Tail(walk))
  <2>1. Len(walk) >= 1
    BY <1>2, <1>6, EmptySeq
  <2>2. Head(walk) = walk[1] /\ Head(walk) \in DOMAIN fs
    BY <1>2, <2>1
  <2>3. w # <<>>
    <3> HIDE DEF w
    <3>1. Len(w) # 0
      BY <1>2, <1>4, <2>1
    <3> QED
      BY <3>1
  <2>4. Head(w) = Meaning(fs, includes, Head(walk))
    <3>1. w[1] = M(walk[1])
      BY <1>2, <1>3, <2>1
    <3>2. Head(w) = w[1]
      <4> HIDE DEF w
      <4> QED
        BY <1>4
    <3> QED
      BY <1>1, <2>2, <3>1, <3>2
  <2>5. Tail(w) = Meant(fs, includes, Tail(walk))
    <3> DEFINE v == Meant(fs, includes, Tail(walk))
               x == Tail(walk)
               n == Len(walk) - 1
               S == {M(f) : f \in DOMAIN fs}
    <3>1. n \in Nat /\ x \in Seq(DOMAIN fs) /\ Len(x) = n /\ \A k \in 1..n : x[k] = walk[k+1]
      <4>1. Tail(walk) \in Seq(DOMAIN fs) /\ Len(Tail(walk)) = Len(walk) - 1
            /\ \A i \in 1..Len(Tail(walk)) : Tail(walk)[i] = walk[i+1]
        BY <1>6, HeadTailProperties
      <4> QED
        BY <1>2, <2>1, <4>1
    <3>2. DOMAIN x = 1..n /\ \A k \in 1..n : x[k] \in DOMAIN fs
      <4> HIDE DEF x, n
      <4> QED
        BY <3>1, LenProperties, ElementOfSeq
    <3>3. v = [k \in 1..n |-> M(x[k])]
      <4> HIDE DEF x, n
      <4>1. v = [k \in DOMAIN x |-> M(x[k])]
        BY DEF Meant, M, x
      <4> HIDE DEF v
      <4> QED
        BY <3>2, <4>1
    <3>4. v \in Seq(S) /\ Len(v) = n
      <4>1. \A k \in 1..n : M(x[k]) \in S
        BY <3>2
      <4> HIDE DEF S, v, n, x
      <4>2. v \in Seq(S) /\ DOMAIN v = 1..n
        BY <3>1, <3>3, <4>1, IsASeq
      <4> QED
        BY <3>1, <4>2, LenProperties
    <3>5. /\ Tail(w) \in Seq(S) /\ Len(Tail(w)) = n
          /\ \A k \in 1..n : Tail(w)[k] = w[k+1]
      <4>1. w \in Seq(S) /\ w # <<>> /\ Len(w) - 1 = n
        BY <1>4, <2>3
      <4> HIDE DEF S, w, n
      <4>2. Tail(w) \in Seq(S) /\ Len(Tail(w)) = Len(w) - 1
            /\ \A i \in 1..Len(Tail(w)) : Tail(w)[i] = w[i+1]
        BY <4>1, HeadTailProperties
      <4> QED
        BY <4>1, <4>2
    <3>6. \A k \in 1..n : w[k+1] = M(walk[k+1])
      BY <1>2, <1>3, <3>1
    <3> DEFINE t == Tail(w)
    <3>7. \A k \in 1..n : t[k] = v[k]
      <4> HIDE DEF v, w, n, x
      <4> QED
        BY <3>1, <3>3, <3>5, <3>6
    <3>8. t \in Seq(S) /\ Len(t) = n
      BY <3>5
    <3> HIDE DEF v, t, n, S
    <3>9. t = v
      BY <3>1, <3>4, <3>7, <3>8, SeqEqual
    <3> QED
      BY <3>9 DEF v, t
  <2> QED
    BY <2>3, <2>4, <2>5
<1> QED
  BY <1>5, <1>6

(* All of a sequence.                                                        *)
LEMMA WholeSubSeq ==
    ASSUME NEW S, NEW s \in Seq(S)
    PROVE  SubSeq(s, 1, Len(s)) = s
<1> DEFINE r == SubSeq(s, 1, Len(s))
<1>1. Len(s) \in Nat /\ \A i \in 1..Len(s) : s[i] \in S
  BY LenProperties, ElementOfSeq
<1>2. r \in Seq(S) /\ Len(r) = Len(s) /\ \A i \in 1..Len(s) : r[i] = s[i]
  BY <1>1, SubSeqProperties
<1> HIDE DEF r
<1>3. r = s
  BY <1>1, <1>2, SeqEqual
<1> QED
  BY <1>3 DEF r

(* Registering the first of the compiled patterns moves it within the list.  *)
LEMMA RegisterMoves ==
    ASSUME NEW list \in Seq(Pattern), NEW more \in Seq(Pattern), more # <<>>
    PROVE  Append(list, Head(more)) \o Tail(more) = list \o more
<1> DEFINE p == Head(more)
           r == Tail(more)
<1>1. p \in Pattern /\ r \in Seq(Pattern) /\ more = <<p>> \o r
  <2>1. Len(more) \in Nat /\ 1 \in 1..Len(more) /\ p = more[1]
    BY LenProperties, EmptySeq
  <2>2. SubSeq(more, 1, Len(more)) = <<more[1]>> \o SubSeq(more, 1 + 1, Len(more))
    BY <2>1, SplitAt
  <2>3. r = SubSeq(more, 1 + 1, Len(more))
    BY TailIsSubSeq
  <2>4. SubSeq(more, 1, Len(more)) = more
    BY WholeSubSeq
  <2> QED
    BY <2>1, <2>2, <2>3, <2>4, HeadTailProperties
<1> HIDE DEF p, r
<1> DEFINE x == <<p>>
<1>2. x \in Seq(Pattern) /\ Append(list, p) = list \o x
  BY <1>1, AppendIsConcat
<1>3. more = x \o r
  BY <1>1
<1> HIDE DEF x
<1>4. (list \o x) \o r = list \o (x \o r)
  BY <1>1, <1>2, ConcatAssociative
<1> QED
  BY <1>2, <1>3, <1>4 DEF p, r

-----------------------------------------------------------------------------
(* What the database stores between the steps of the program.                *)
LEMMA StoredIs ==
    /\ Stored = IF pc = "register" THEN patterns \o compiled ELSE patterns
    /\ Stored' = IF pc' = "register" THEN patterns' \o compiled' ELSE patterns'
BY DEF Stored

(* A step that takes a file, ends with it, or leaves the queue.              *)
LEMMA WaitingIs ==
    ASSUME LoadingInv
    PROVE  /\ queue = <<>> <=> Waiting = <<>>
           /\ queue # <<>> => /\ Head(Waiting) = Meaning(files, resolver, Head(queue))
                             /\ Tail(Waiting) = Meant(files, resolver, Tail(queue))
<1>1. files \in FileSystems /\ resolver \in BOOLEAN /\ queue \in Seq(DOMAIN files)
  BY DEF LoadingInv, TypeOK
<1> QED
  BY <1>1, MeantIs DEF Waiting

(* The end of a file that cannot be read ends the load.                      *)
LEMMA FailStep ==
    ASSUME StoreInv, LoadingInv', Fail, UNCHANGED <<files, resolver, patterns>>, pc # "register",
           queue # <<>>, ~Meaning(files, resolver, Head(queue)).ok
    PROVE  Store!StoreFile
<1>1. Waiting # <<>> /\ ~Head(Waiting).ok
  BY WaitingIs DEF StoreInv
<1>2. Stored' = Stored
  BY StoredIs DEF Fail
<1>3. Waiting' = <<>>
  <2>1. queue' = <<>> /\ files' = files /\ resolver' = resolver
    BY DEF Fail
  <2>2. Waiting' = Meant(files, resolver, <<>>)
    BY <2>1 DEF Waiting
  <2>3. files \in FileSystems /\ resolver \in BOOLEAN
    BY DEF StoreInv, LoadingInv, TypeOK
  <2>4. <<>> \in Seq(DOMAIN files)
    BY EmptySeq
  <2> QED
    BY <2>2, <2>3, <2>4, MeantIs
<1> QED
  BY <1>1, <1>2, <1>3 DEF Store!StoreFile, Stored, Waiting, Meant

-----------------------------------------------------------------------------
(* The operators of the store are those of the loader.                       *)
LEMMA StoreOperators ==
    ASSUME NEW s, NEW places, NEW i
    PROVE  /\ Store!Subsequence(s, places) = Subsequence(s, places)
           /\ Store!RemoveAt(s, i) = RemoveAt(s, i)
<1>1. Store!Subsequence(s, places) = Subsequence(s, places)
  BY DEF Store!Subsequence, Subsequence
<1>2. Store!RemoveAt(s, i) = RemoveAt(s, i)
  BY DEF Store!RemoveAt, RemoveAt
<1> QED
  BY <1>1, <1>2

(* Where the patterns, the files that wait and what waits of the last file   *)
(* stay, the store does.                                                     *)
LEMMA SameStore ==
    ASSUME LoadingInv, LoadingInv', UNCHANGED <<files, resolver, queue, patterns>>,
           pc # "register", pc' # "register"
    PROVE  Stored' = Stored /\ Waiting' = Waiting
<1>1. Stored' = Stored
  BY StoredIs
<1>2. Waiting' = Waiting
  BY DEF Waiting, Meant
<1> QED
  BY <1>1, <1>2

(* A file that has been evaluated is in the store as a whole.                *)
LEMMA FileStep ==
    ASSUME StoreInv, LoadingInv', EndEvaluate
    PROVE  Store!StoreFile
<1>1. /\ pc = "evaluate" /\ next \notin DOMAIN output /\ queue' = Tail(queue) /\ pc' = "register"
      /\ UNCHANGED <<files, resolver, patterns, compiled>>
  BY DEF EndEvaluate, db
<1>2. /\ queue # <<>> /\ files \in FileSystems /\ resolver \in BOOLEAN
      /\ queue \in Seq(DOMAIN files)
  BY <1>1 DEF StoreInv, LoadingInv, AtFile, TypeOK
<1> DEFINE m == Meaning(files, resolver, Head(queue))
<1>3. /\ Evaluates(output) => m.ok
      /\ output = Selected(Whole) /\ next \in 1..Len(output) + 1
      /\ \A k \in 1..next-1 : output[k].kind # "endless"
      /\ compiled = Evaluated(SubSeq(output, 1, next - 1))
  BY <1>1 DEF StoreInv, AtNodes
<1>4. compiled = Evaluated(output) /\ m.ok
  <2>1. output \in Seq(Token) /\ Len(output) \in Nat /\ DOMAIN output = 1..Len(output)
    BY LenProperties DEF StoreInv, LoadingInv, TypeOK
  <2>2. next - 1 = Len(output)
    BY <1>1, <1>3, <2>1
  <2>3. SubSeq(output, 1, Len(output)) = output
    BY <2>1, WholeSubSeq
  <2>4. Evaluates(output)
    BY <1>3, <2>1, <2>2 DEF Evaluates
  <2> QED
    BY <1>3, <2>2, <2>3, <2>4
<1>5. m.patterns = compiled
  <2>1. m.patterns = Evaluated(Selected(Whole))
    BY <1>4, MeaningIs DEF Whole, FileTokens
  <2> QED
    BY <1>3, <1>4, <2>1
<1>6. Waiting # <<>> /\ Head(Waiting) = m /\ Tail(Waiting) = Meant(files, resolver, Tail(queue))
  BY <1>2, WaitingIs DEF StoreInv
<1>7. Stored' = Stored \o compiled
  BY <1>1, StoredIs
<1>8. Waiting' = Tail(Waiting)
  BY <1>1, <1>6 DEF Waiting, Meant
<1> HIDE DEF m
<1>9. Waiting # <<>> /\ Head(Waiting).ok /\ Stored' = Stored \o Head(Waiting).patterns
      /\ Waiting' = Tail(Waiting)
  BY <1>4, <1>5, <1>6, <1>7, <1>8
<1> QED
  BY <1>9 DEF Store!StoreFile, Stored, Waiting, Meant

(* A call that removes one pattern does so in the store.                     *)
LEMMA RemoveStep ==
    ASSUME StoreInv, LoadingInv', NEW name \in Names, Deregister(name)
    PROVE  Store!StoreRemove
<1>1. /\ pc = "ready" /\ pc' = "rebuild" /\ UNCHANGED <<files, queue, resolver>>
      /\ \E i \in DOMAIN patterns :
           /\ patterns[i].name = name /\ \A j \in 1..i-1 : patterns[j].name # name
           /\ patterns' = RemoveAt(patterns, i)
  BY DEF Deregister, Called, Rebuild
<1>2. Stored = patterns /\ Stored' = patterns'
  BY <1>1, StoredIs
<1>3. Waiting = <<>> /\ Waiting' = Waiting
  <2>1. queue = <<>>
    BY <1>1 DEF StoreInv, NoneWaits
  <2> QED
    BY <1>1, <2>1, WaitingIs DEF StoreInv, Waiting, Meant
<1>4. \E i \in DOMAIN Stored : /\ \A j \in 1..i-1 : Stored[j].name # Stored[i].name
                               /\ Stored' = RemoveAt(Stored, i)
  BY <1>1, <1>2
<1> QED
  BY <1>3, <1>4, StoreOperators DEF Store!StoreRemove, Stored, Waiting, Meant

(* The end of the sifting removes a library, or nothing if it is not there.  *)
LEMMA SiftedStep ==
    ASSUME StoreInv, LoadingInv', EndSift
    PROVE  Store!StoreRemoveLibrary \/ (Stored' = Stored /\ Waiting' = Waiting)
<1>1. /\ pc = "sift" /\ pc' = "rebuild" /\ next \notin DOMAIN patterns /\ patterns' = kept
      /\ UNCHANGED <<files, queue, resolver>>
  BY DEF EndSift, Rebuild
<1>2. Stored = patterns /\ Stored' = kept
  BY <1>1, StoredIs
<1>3. Waiting = <<>> /\ Waiting' = Waiting
  <2>1. queue = <<>>
    BY <1>1 DEF StoreInv, NoneWaits
  <2> QED
    BY <1>1, <2>1, WaitingIs DEF StoreInv, Waiting, Meant
<1>4. patterns \in Seq(Pattern) /\ Len(patterns) \in Nat /\ DOMAIN patterns = 1..Len(patterns)
  BY LenProperties DEF StoreInv, LoadingInv, TypeOK
<1>5. kept = Others(patterns)
  <2>1. next - 1 = Len(patterns)
    BY <1>1, <1>4 DEF StoreInv, LoadingInv, Looping
  <2>2. SubSeq(patterns, 1, Len(patterns)) = patterns
    BY <1>4, WholeSubSeq
  <2> QED
    BY <1>1, <2>1, <2>2 DEF StoreInv, KeptIs
<1>6. ASSUME NEW i \in DOMAIN patterns, patterns[i].library = dropped
      PROVE  Store!StoreRemoveLibrary
  <2>1. kept = Subsequence(patterns,
                 {j \in DOMAIN patterns : patterns[j].library # patterns[i].library})
    BY <1>5, <1>6 DEF Others
  <2>2. \E k \in DOMAIN Stored :
           Stored' = Subsequence(Stored, {j \in DOMAIN Stored : Stored[j].library # Stored[k].library})
    BY <1>2, <1>6, <2>1
  <2> QED
    BY <1>3, <2>2, StoreOperators DEF Store!StoreRemoveLibrary, Stored, Waiting, Meant
<1>7. ASSUME \A i \in DOMAIN patterns : patterns[i].library # dropped
      PROVE  Stored' = Stored /\ Waiting' = Waiting
  <2> DEFINE rest == {i \in DOMAIN patterns : patterns[i].library # dropped}
  <2>1. DOMAIN patterns \subseteq rest
    BY <1>7
  <2>2. Others(patterns) = Subsequence(patterns, rest)
    BY DEF Others
  <2> HIDE DEF rest
  <2>3. Subsequence(patterns, rest) = patterns
    BY <1>4, <2>1, SubsequenceOfAll
  <2> QED
    BY <1>2, <1>3, <1>5, <2>2, <2>3
<1> QED
  BY <1>6, <1>7

(* Every step of a load or of a call is a step of the store or none.         *)
LEMMA LoadStepStores ==
    ASSUME StoreInv, LoadingInv', LoadStep
    PROVE  Store!StoreNext \/ (Stored' = Stored /\ Waiting' = Waiting)
<1>1. CASE OpenFile \/ EndWalk \/ Include \/ IncludeForever \/ IncludeIgnored \/ Define \/ Undef
           \/ If \/ Endif \/ Pragma \/ SkipToken \/ EmitToken \/ Parse \/ ParseForever
           \/ EvaluateNode \/ EvaluateForever \/ Sift \/ RebuildIndex \/ EndRebuild
  <2>1. /\ UNCHANGED <<files, resolver, queue, patterns>>
        /\ pc # "register" /\ pc' # "register"
    BY <1>1 DEF OpenFile, EndWalk, Include, IncludeForever, IncludeIgnored, Define, Undef,
                If, Endif, Pragma, SkipToken, EmitToken, Parse, ParseForever,
                EvaluateNode, EvaluateForever, Sift, RebuildIndex, EndRebuild, AtToken, AtEnd,
                outside, db
  <2> QED
    BY <2>1, SameStore DEF StoreInv
<1>2. CASE LexError
  <2>1. /\ Fail /\ UNCHANGED <<files, resolver, patterns>> /\ pc # "register"
        /\ queue # <<>> /\ ~files[Head(queue)].lexes
    BY <1>2 DEF LexError, db
  <2>2. ~Meaning(files, resolver, Head(queue)).ok
    BY <2>1, MeaningIs
  <2> QED
    BY <2>1, <2>2, FailStep DEF Store!StoreNext
<1>3. CASE EndifUnmatched \/ ErrorDirective \/ IncludeMissing
  <2>1. Fail /\ UNCHANGED <<files, resolver, patterns>> /\ pc # "register"
    BY <1>3 DEF EndifUnmatched, ErrorDirective, IncludeMissing, AtToken, outside, db
  <2>2. queue # <<>> /\ ~Meaning(files, resolver, Head(queue)).ok
    BY <1>3, ErrorMeans DEF StoreInv
  <2> QED
    BY <2>1, <2>2, FailStep DEF Store!StoreNext
<1>4. CASE ParseError
  <2>1. /\ Fail /\ UNCHANGED <<files, resolver, patterns>> /\ pc = "process"
        /\ pos \notin DOMAIN source /\ ~Parses(output)
    BY <1>4 DEF ParseError, AtEnd, ParserMeets, Parses, outside, db
  <2>2. queue # <<>> /\ ~Meaning(files, resolver, Head(queue)).ok
    BY <2>1, SourceEnds DEF StoreInv
  <2> QED
    BY <2>1, <2>2, FailStep DEF Store!StoreNext
<1>5. CASE EndEvaluate
  BY <1>5, FileStep DEF Store!StoreNext
<1>6. CASE Register
  <2>1. /\ pc = "register" /\ pc' = "register" /\ compiled # <<>>
        /\ patterns' = Append(patterns, Head(compiled)) /\ compiled' = Tail(compiled)
        /\ UNCHANGED <<files, resolver, queue>>
    BY <1>6 DEF Register
  <2>2. Stored = patterns \o compiled /\ Stored' = patterns' \o compiled'
    BY <2>1, StoredIs
  <2>3. patterns \in Seq(Pattern) /\ compiled \in Seq(Pattern)
    BY DEF StoreInv, LoadingInv, TypeOK
  <2>4. Append(patterns, Head(compiled)) \o Tail(compiled) = patterns \o compiled
    BY <2>1, <2>3, RegisterMoves
  <2>5. Stored' = Stored
    BY <2>1, <2>2, <2>4
  <2> QED
    BY <2>1, <2>5 DEF Waiting, Meant
<1>7. CASE EndRegister
  <2>1. /\ pc = "register" /\ pc' = "walk" /\ compiled = <<>>
        /\ UNCHANGED <<files, resolver, queue, patterns>>
    BY <1>7 DEF EndRegister, db
  <2>2. Stored = patterns \o compiled /\ Stored' = patterns'
    BY <2>1, StoredIs
  <2>3. patterns \in Seq(Pattern)
    BY DEF StoreInv, LoadingInv, TypeOK
  <2>4. patterns \o <<>> = patterns
    BY <2>3, ConcatEmptySeq
  <2>5. Stored' = Stored
    BY <2>1, <2>2, <2>4
  <2> QED
    BY <2>1, <2>5 DEF Waiting, Meant
<1>8. CASE EndSift
  BY <1>8, SiftedStep DEF Store!StoreNext
<1> QED
  BY <1>1, <1>2, <1>3, <1>4, <1>5, <1>6, <1>7, <1>8 DEF LoadStep

(* A call begins a load, removes a pattern, or is yet to remove a library.   *)
LEMMA CallStores ==
    ASSUME StoreInv, LoadingInv', Call
    PROVE  Store!StoreNext \/ (Stored' = Stored /\ Waiting' = Waiting)
<1>1. ASSUME NEW walk \in Walks, NEW includes \in BOOLEAN, Load(walk, includes)
      PROVE  Store!StoreLoad
  <2>1. pc = "ready" /\ pc' = "walk" /\ UNCHANGED patterns
    BY <1>1 DEF Load, Called, db
  <2>2. Waiting = <<>>
    BY <2>1, WaitingIs DEF StoreInv, NoneWaits
  <2>3. Stored' = Stored
    BY <2>1, StoredIs
  <2> QED
    BY <2>2, <2>3 DEF Store!StoreLoad, Stored, Waiting, Meant
<1>2. ASSUME NEW name \in Names, Deregister(name) PROVE Store!StoreRemove
  BY <1>2, RemoveStep
<1>3. ASSUME NEW library \in Libraries, DeregisterLibrary(library)
      PROVE  Stored' = Stored /\ Waiting' = Waiting
  <2>1. /\ UNCHANGED <<files, resolver, queue, patterns>>
        /\ pc # "register" /\ pc' # "register"
    BY <1>3 DEF DeregisterLibrary, Called
  <2> QED
    BY <2>1, SameStore DEF StoreInv
<1> QED
  BY <1>1, <1>2, <1>3 DEF Call, Store!StoreNext

-----------------------------------------------------------------------------
(* The loader refines the list of patterns it is to its clients: each file   *)
(* of a load is added as a whole, with what its tokens mean, or not at all,  *)
(* the first that does not compile ends the load, and the calls that remove  *)
(* patterns remove those they name.                                          *)
THEOREM ImplementsPatternStore == Spec => IsPatternStore
<1>1. Init => Store!StoreInit
  <2> SUFFICES ASSUME Init PROVE Store!StoreInit
    OBVIOUS
  <2>1. pc = "ready" /\ queue = <<>> /\ patterns = <<>>
    BY DEF Init
  <2>2. Waiting = <<>>
    BY <2>1, InitInv, WaitingIs
  <2> QED
    BY <2>1, <2>2 DEF Store!StoreInit, Waiting, Meant
<1>2. StoreInv /\ [Next]_vars /\ LoadingInv' => [Store!StoreNext]_Store!storeVars
  <2> SUFFICES ASSUME StoreInv, [Next]_vars, LoadingInv'
               PROVE  Store!StoreNext \/ (Stored' = Stored /\ Waiting' = Waiting)
    BY DEF Store!storeVars, Stored, Waiting, Meant
  <2>1. CASE LoadStep
    BY <2>1, LoadStepStores
  <2>2. CASE Call
    BY <2>2, CallStores
  <2>3. CASE UNCHANGED vars
    <3>1. UNCHANGED <<files, pc, resolver, queue, patterns, compiled>>
      BY <2>3 DEF vars, db
    <3> QED
      BY <3>1, StoredIs DEF Waiting, Meant
  <2> QED
    BY <2>1, <2>2, <2>3 DEF Next, Ended
<1> QED
  BY <1>1, <1>2, StoreInvariant, LoadingInvariant, PTL DEF Spec, IsPatternStore, Store!StoreSpec
=============================================================================
