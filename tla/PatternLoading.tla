--------------------------- MODULE PatternLoading ---------------------------
(* The pattern database and how it is filled: the preprocessor works through *)
(* the tokens of one file after the other, what it lets through is parsed    *)
(* and evaluated, and the patterns are registered under their opcodes        *)
(* (database/database.go, pattern/lang/preprocessor/preprocessor.go,         *)
(* evalPattern of pattern/lang/evaluator/evaluator.go).                      *)
(* A whole `pattern` definition is one token here, with one instruction, of  *)
(* which the opcode counts, or none in each alternative of its blocks; a     *)
(* macro stands for one opcode or for nothing. Other definitions and the     *)
(* statements of a file make no patterns and are left out, but for what is   *)
(* wrong with them: "junk" is refused, on "stuck" the parser loops for ever  *)
(* (PatternCompile has such definitions), and "endless" is a function with a *)
(* loop that the evaluator, which runs it where it is defined, never leaves. *)
EXTENDS Integers, SequencesExt, Subsequences

CONSTANTS
    FileSystems,  \* functions from file names to files [lexes, tokens]
    Upper,        \* strings.ToUpper on the opcodes
    Walks,        \* the files of a directory, in the order they are walked
    Names,        \* arguments of Deregister
    Libraries,    \* arguments of DeregisterLibrary
    MaxCalls,     \* bound: calls of the database's operations
    MaxSource     \* bound: tokens the memory has room for

VARIABLES
    files,        \* the files there are
    calls,        \* calls made so far
    pc,           \* what is being done
    queue,        \* files of the walk still to be loaded
    resolver,     \* whether the preprocessor has an IncludeResolver
    source, pos, output, ifStack, macros,   \* the Preprocessor
    compiled,     \* patterns of the file that are not registered
    patterns,     \* Patterns
    byOpcode,     \* byOpcode: an opcode without patterns is not in the map
    kept, dropped,  \* of DeregisterLibrary: kept, and the library
    next          \* counter of the loop over tokens or patterns

preprocessor == <<source, pos, output, ifStack, macros>>
db == <<patterns, byOpcode, kept, dropped>>
vars == <<files, calls, pc, queue, resolver, preprocessor, compiled, db, next>>

Opcodes == DOMAIN Upper
Keys == {Upper[opcode] : opcode \in Opcodes}
NoOpcode == ""

Blocks == Seq(Seq(Opcodes \union {NoOpcode}))
PatternToken == [kind : {"pattern"}, name : STRING, library : STRING, blocks : Blocks]
Token ==
    [kind : {"include"}, file : STRING]
      \union [kind : {"define"}, name : STRING, lexes : BOOLEAN, value : Opcodes \union {NoOpcode}]
      \union [kind : {"undef", "ifdef", "ifndef"}, name : STRING]
      \union [kind : {"endif", "error", "pragma", "junk", "stuck", "endless"}]
      \union [kind : {"arch"}, arch : STRING]
      \union [kind : {"platform"}, platforms : SUBSET STRING]
      \union PatternToken

File == [lexes : BOOLEAN, tokens : Seq(Token)]
(* No pattern gets an architecture or a platform (see evalPattern).          *)
Pattern == [name : STRING, library : STRING, arch : {""}, platforms : {{}},
            alternatives : Seq(Opcodes \union {NoOpcode})]

ASSUME UpperAssumption ==
    /\ NoOpcode \notin Opcodes
    /\ \A opcode \in Opcodes : Upper[opcode] \in Opcodes
ASSUME FileSystemsAssumption ==
    \A fs \in FileSystems : /\ DOMAIN fs \subseteq STRING /\ IsFiniteSet(DOMAIN fs)
                            /\ \A f \in DOMAIN fs : fs[f] \in File
ASSUME WalksAssumption ==
    \A fs \in FileSystems, walk \in Walks : walk \in Seq(DOMAIN fs)
ASSUME MaxCallsAssumption == MaxCalls \in Nat

-----------------------------------------------------------------------------
Init ==
    /\ files \in FileSystems
    /\ calls = 0 /\ pc = "ready" /\ queue = <<>> /\ resolver = FALSE
    /\ source = <<>> /\ pos = 1 /\ output = <<>> /\ ifStack = <<TRUE>> /\ macros = <<>>
    /\ compiled = <<>> /\ patterns = <<>> /\ byOpcode = [key \in Keys |-> <<>>]
    /\ kept = <<>> /\ dropped = "" /\ next = 1

Called == pc = "ready" /\ calls < MaxCalls /\ calls' = calls + 1

(* LoadFromFS walks a directory, LoadFromSource has one file; both without a *)
(* resolver, which LoadPatternsFromDir has.                                  *)
Load(walk, includes) ==
    /\ Called
    /\ queue' = walk /\ resolver' = includes /\ pc' = "walk"
    /\ UNCHANGED <<files, preprocessor, compiled, db, next>>

(* An error ends the walk.                                                   *)
Fail == pc' = "ready" /\ queue' = <<>>

(* A mistake: the macros of the last file are still defined.                 *)
OpenFileKeeping ==
    /\ pc = "walk" /\ queue # <<>>
    /\ files[Head(queue)].lexes
    /\ source' = files[Head(queue)].tokens /\ pos' = 1 /\ output' = <<>>
    /\ ifStack' = <<TRUE>>
    /\ pc' = "process"
    /\ UNCHANGED <<files, calls, queue, resolver, macros, compiled, db, next>>

(* Lex and New. The preprocessor starts afresh with each file.               *)
OpenFile ==
    /\ pc = "walk" /\ queue # <<>>
    /\ files[Head(queue)].lexes
    /\ source' = files[Head(queue)].tokens /\ pos' = 1 /\ output' = <<>>
    /\ ifStack' = <<TRUE>> /\ macros' = <<>>
    /\ pc' = "process"
    /\ UNCHANGED <<files, calls, queue, resolver, compiled, db, next>>

LexError ==
    /\ pc = "walk" /\ queue # <<>>
    /\ ~files[Head(queue)].lexes
    /\ Fail
    /\ UNCHANGED <<files, calls, resolver, preprocessor, compiled, db, next>>

EndWalk ==
    /\ pc = "walk" /\ queue = <<>> /\ pc' = "ready"
    /\ UNCHANGED <<files, calls, queue, resolver, preprocessor, compiled, db, next>>

-----------------------------------------------------------------------------
(* processTokens and processDirective: a directive acts whether or not the   *)
(* conditionals around it hold.                                              *)
shouldEmit == Last(ifStack)
Tok == source[pos]

AtToken(kinds) == pc = "process" /\ pos \in DOMAIN source /\ Tok.kind \in kinds

Advance == pos' = pos + 1
outside == <<files, calls, resolver, compiled, db, next>>

(* handleInclude puts the tokens of the file where the directive was.        *)
Found == Tok.file \in DOMAIN files /\ files[Tok.file].lexes
Spliced == SubSeq(source, 1, pos) \o files[Tok.file].tokens
             \o SubSeq(source, pos + 1, Len(source))

(* A mistake: the directive is replaced but not stepped over.                *)
IncludeAgain ==
    /\ AtToken({"include"}) /\ resolver /\ Found /\ Len(Spliced) <= MaxSource
    /\ source' = Spliced
    /\ UNCHANGED <<outside, pc, queue, pos, output, ifStack, macros>>

Include ==
    /\ AtToken({"include"}) /\ resolver /\ Found /\ Len(Spliced) <= MaxSource
    /\ source' = Spliced /\ Advance
    /\ UNCHANGED <<outside, pc, queue, output, ifStack, macros>>

IncludeMissing ==
    /\ AtToken({"include"}) /\ resolver /\ ~Found /\ Advance
    /\ Fail
    /\ UNCHANGED <<outside, source, output, ifStack, macros>>

(* A file that includes itself does so until the memory is full.             *)
IncludeForever ==
    /\ AtToken({"include"}) /\ resolver /\ Found /\ Len(Spliced) > MaxSource
    /\ pc' = "exhausted"
    /\ UNCHANGED <<outside, queue, preprocessor>>

IncludeIgnored ==
    /\ AtToken({"include"}) /\ ~resolver /\ Advance
    /\ UNCHANGED <<outside, pc, queue, source, output, ifStack, macros>>

(* handleDefine keeps what was there when the replacement does not lex.      *)
Define ==
    /\ AtToken({"define"}) /\ Advance
    /\ macros' = IF Tok.lexes THEN [name \in DOMAIN macros \union {Tok.name} |->
                                 IF name = Tok.name THEN Tok.value ELSE macros[name]]
                 ELSE macros
    /\ UNCHANGED <<outside, pc, queue, source, output, ifStack>>

Undef ==
    /\ AtToken({"undef"}) /\ Advance
    /\ macros' = [name \in DOMAIN macros \ {Tok.name} |-> macros[name]]
    /\ UNCHANGED <<outside, pc, queue, source, output, ifStack>>

Holds(tok) == (tok.kind = "ifdef") = (tok.name \in DOMAIN macros)

(* A mistake: the conditionals around this one are forgotten.                *)
pushAlone == ifStack' = Append(ifStack, Holds(Tok))

pushConditional == ifStack' = Append(ifStack, shouldEmit /\ Holds(Tok))

If ==
    /\ AtToken({"ifdef", "ifndef"}) /\ Advance
    /\ pushConditional
    /\ UNCHANGED <<outside, pc, queue, source, output, macros>>

Endif ==
    /\ AtToken({"endif"}) /\ Len(ifStack) > 1 /\ Advance
    /\ ifStack' = Front(ifStack)
    /\ UNCHANGED <<outside, pc, queue, source, output, macros>>

EndifUnmatched ==
    /\ AtToken({"endif"}) /\ Len(ifStack) <= 1 /\ Advance
    /\ Fail
    /\ UNCHANGED <<outside, source, output, ifStack, macros>>

ErrorDirective ==
    /\ AtToken({"error"}) /\ Advance
    /\ Fail
    /\ UNCHANGED <<outside, source, output, ifStack, macros>>

Pragma ==
    /\ AtToken({"pragma"}) /\ Advance
    /\ UNCHANGED <<outside, pc, queue, source, output, ifStack, macros>>

Text == {"pattern", "arch", "platform", "junk", "stuck", "endless"}

SkipToken ==
    /\ AtToken(Text) /\ ~shouldEmit /\ Advance
    /\ UNCHANGED <<outside, pc, queue, source, output, ifStack, macros>>

(* A macro is replaced once: what it stands for is not looked up again.      *)
Replaced(defs, opcode) == IF opcode \in DOMAIN defs THEN defs[opcode] ELSE opcode
Expanded(defs, tok) ==
    IF tok.kind # "pattern" THEN tok
    ELSE [tok EXCEPT !.blocks =
            [b \in DOMAIN tok.blocks |->
               [a \in DOMAIN tok.blocks[b] |-> Replaced(defs, tok.blocks[b][a])]]]

EmitToken ==
    /\ AtToken(Text) /\ shouldEmit /\ Advance
    /\ output' = Append(output, Expanded(macros, Tok))
    /\ UNCHANGED <<outside, pc, queue, source, ifStack, macros>>

-----------------------------------------------------------------------------
(* parseInstrBlock opens an alternative at the first instruction or at a     *)
(* `|`, so an empty one in front is lost.                                    *)
Alternatives(block) == IF block # <<>> /\ Head(block) = NoOpcode THEN Tail(block) ELSE block

(* evalPattern: of several blocks the last is kept. The parser gives no      *)
(* pattern the Arch and Platforms that are declared before it.               *)
evalPattern(tok) ==
    [name |-> tok.name, library |-> tok.library, arch |-> "", platforms |-> {},
     alternatives |-> IF tok.blocks = <<>> THEN <<>> ELSE Alternatives(Last(tok.blocks))]

(* The parser goes as far as the first definition it refuses or loops on.    *)
Parses(tokens) == \A k \in DOMAIN tokens : tokens[k].kind \notin {"junk", "stuck"}
ParserMeets(tokens, kind) ==
    \E k \in DOMAIN tokens : tokens[k].kind = kind /\ Parses(SubSeq(tokens, 1, k - 1))

AtEnd == pc = "process" /\ pos \notin DOMAIN source

Parse ==
    /\ AtEnd /\ Parses(output)
    /\ compiled' = <<>> /\ next' = 1 /\ pc' = "evaluate"
    /\ UNCHANGED <<files, calls, queue, resolver, preprocessor, db>>

ParseError ==
    /\ AtEnd /\ ParserMeets(output, "junk")
    /\ Fail
    /\ UNCHANGED <<outside, preprocessor>>

ParseForever ==
    /\ AtEnd /\ ParserMeets(output, "stuck")
    /\ pc' = "hung"
    /\ UNCHANGED <<outside, queue, preprocessor>>

(* Evaluate, node by node: declarations are skipped.                         *)
EvaluateNode ==
    /\ pc = "evaluate" /\ next \in DOMAIN output /\ output[next].kind # "endless"
    /\ compiled' = IF output[next].kind = "pattern"
                   THEN Append(compiled, evalPattern(output[next])) ELSE compiled
    /\ next' = next + 1
    /\ UNCHANGED <<files, calls, pc, queue, resolver, preprocessor, db>>

EvaluateForever ==
    /\ pc = "evaluate" /\ next \in DOMAIN output /\ output[next].kind = "endless"
    /\ pc' = "hung"
    /\ UNCHANGED <<outside, queue, preprocessor>>

EndEvaluate ==
    /\ pc = "evaluate" /\ next \notin DOMAIN output
    /\ queue' = Tail(queue) /\ pc' = "register"
    /\ UNCHANGED <<files, calls, resolver, preprocessor, compiled, db, next>>

-----------------------------------------------------------------------------
(* Both addPattern and rebuildIndex enter a pattern once for each of its     *)
(* alternatives.                                                             *)
Entries(p, key) ==
    {a \in DOMAIN p.alternatives :
       p.alternatives[a] # NoOpcode /\ Upper[p.alternatives[a]] = key}

Indexed(index, p) ==
    [key \in Keys |-> index[key] \o [k \in 1..Cardinality(Entries(p, key)) |-> p]]

(* Register, called for each pattern of the file.                            *)
Register ==
    /\ pc = "register" /\ compiled # <<>>
    /\ patterns' = Append(patterns, Head(compiled))
    /\ byOpcode' = Indexed(byOpcode, Head(compiled))
    /\ compiled' = Tail(compiled)
    /\ UNCHANGED <<files, calls, pc, queue, resolver, preprocessor, kept, dropped, next>>

EndRegister ==
    /\ pc = "register" /\ compiled = <<>> /\ pc' = "walk"
    /\ UNCHANGED <<files, calls, queue, resolver, preprocessor, compiled, db, next>>

Rebuild == pc' = "rebuild" /\ next' = 1 /\ byOpcode' = [key \in Keys |-> <<>>]

(* A mistake: the index is not rebuilt.                                      *)
DeregisterOnly(name) ==
    /\ Called
    /\ \E i \in DOMAIN patterns :
         /\ patterns[i].name = name /\ \A j \in 1..i-1 : patterns[j].name # name
         /\ patterns' = RemoveAt(patterns, i)
    /\ UNCHANGED <<files, pc, queue, resolver, preprocessor, compiled, byOpcode, kept, dropped, next>>

(* A name that is not there is an error and changes nothing.                 *)
Deregister(name) ==
    /\ Called
    /\ \E i \in DOMAIN patterns :
         /\ patterns[i].name = name /\ \A j \in 1..i-1 : patterns[j].name # name
         /\ patterns' = RemoveAt(patterns, i)
    /\ Rebuild
    /\ UNCHANGED <<files, queue, resolver, preprocessor, compiled, kept, dropped>>

DeregisterLibrary(library) ==
    /\ Called
    /\ kept' = <<>> /\ dropped' = library /\ next' = 1 /\ pc' = "sift"
    /\ UNCHANGED <<files, queue, resolver, preprocessor, compiled, patterns, byOpcode>>

Sift ==
    /\ pc = "sift" /\ next \in DOMAIN patterns
    /\ kept' = IF patterns[next].library = dropped THEN kept ELSE Append(kept, patterns[next])
    /\ next' = next + 1
    /\ UNCHANGED <<files, calls, pc, queue, resolver, preprocessor, compiled, patterns,
                   byOpcode, dropped>>

EndSift ==
    /\ pc = "sift" /\ next \notin DOMAIN patterns
    /\ patterns' = kept
    /\ Rebuild
    /\ UNCHANGED <<files, calls, queue, resolver, preprocessor, compiled, kept, dropped>>

RebuildIndex ==
    /\ pc = "rebuild" /\ next \in DOMAIN patterns
    /\ byOpcode' = Indexed(byOpcode, patterns[next])
    /\ next' = next + 1
    /\ UNCHANGED <<files, calls, pc, queue, resolver, preprocessor, compiled, patterns, kept, dropped>>

EndRebuild ==
    /\ pc = "rebuild" /\ next \notin DOMAIN patterns /\ pc' = "ready"
    /\ UNCHANGED <<files, calls, queue, resolver, preprocessor, compiled, db, next>>

-----------------------------------------------------------------------------
LoadStep ==
    \/ OpenFile \/ LexError \/ EndWalk
    \/ Include \/ IncludeMissing \/ IncludeForever \/ IncludeIgnored
    \/ Define \/ Undef \/ If \/ Endif \/ EndifUnmatched \/ ErrorDirective \/ Pragma
    \/ SkipToken \/ EmitToken \/ Parse \/ ParseError \/ ParseForever
    \/ EvaluateNode \/ EvaluateForever \/ EndEvaluate
    \/ Register \/ EndRegister \/ Sift \/ EndSift \/ RebuildIndex \/ EndRebuild

Call ==
    \/ \E walk \in Walks, includes \in BOOLEAN : Load(walk, includes)
    \/ \E name \in Names : Deregister(name)
    \/ \E library \in Libraries : DeregisterLibrary(library)

(* The clients have made their calls, or the program is out of memory or in  *)
(* a loop of the parser or of a function.                                    *)
Ended ==
    /\ pc \in {"exhausted", "hung"} \/ (pc = "ready" /\ calls = MaxCalls)
    /\ UNCHANGED vars

Next == LoadStep \/ Call \/ Ended

Spec == Init /\ [][Next]_vars

(* A load is a loop of the program: it goes on for as long as it can.        *)
FairSpec == Spec /\ ([]<>(pc \in {"ready", "exhausted", "hung"}) \/ []<><<LoadStep>>_vars)

-----------------------------------------------------------------------------
(* Types. The stack of conditionals is never empty.                          *)
TypeOK ==
    /\ files \in FileSystems /\ calls \in 0..MaxCalls
    /\ pc \in {"ready", "walk", "process", "evaluate", "register", "sift", "rebuild",
              "exhausted", "hung"}
    /\ queue \in Seq(DOMAIN files) /\ resolver \in BOOLEAN
    /\ source \in Seq(Token) /\ output \in Seq(Token)
    /\ pos \in 1..Len(source) + 1
    /\ ifStack \in Seq(BOOLEAN) /\ ifStack # <<>>
    /\ \A name \in DOMAIN macros : macros[name] \in Opcodes \union {NoOpcode}
    /\ compiled \in Seq(Pattern) /\ patterns \in Seq(Pattern)
    /\ byOpcode \in [Keys -> Seq(Pattern)]
    /\ kept \in Seq(Pattern) /\ next \in Nat

(* Where a conditional does not hold, nothing inside it does, whatever its   *)
(* own condition is (preprocessor.go:227).                                   *)
ConditionalsNest ==
    \A i, j \in DOMAIN ifStack : i < j /\ ifStack[j] => ifStack[i]

(* The opcode index names exactly the patterns of the list that have an      *)
(* alternative with that first opcode, in whichever case; while it is        *)
(* rebuilt, those the loop has seen (database.go:290, 348).                  *)
Seen == IF pc = "rebuild" THEN next - 1 ELSE Len(patterns)
IndexAgrees ==
    \A key \in Keys :
        /\ \A k \in DOMAIN byOpcode[key] :
             /\ Entries(byOpcode[key][k], key) # {}
             /\ \E i \in 1..Seen : patterns[i] = byOpcode[key][k]
        /\ \A i \in 1..Seen :
             Entries(patterns[i], key) # {} =>
                 \E k \in DOMAIN byOpcode[key] : byOpcode[key][k] = patterns[i]

-----------------------------------------------------------------------------
(* What a file means, said of its tokens at once. First the includes are     *)
(* replaced, as deep as there are files.                                     *)
Opened(fs, tok) == tok.kind = "include" /\ tok.file \in DOMAIN fs /\ fs[tok.file].lexes
Deeper(fs, tokens) ==
    FlattenSeq([k \in DOMAIN tokens |->
        IF Opened(fs, tokens[k]) THEN fs[tokens[k].file].tokens ELSE <<tokens[k]>>])
Deep(fs, tokens, depth) ==
    LET level[d \in Nat] == IF d = 0 THEN tokens ELSE Deeper(fs, level[d-1]) IN level[depth]
Deepest(fs, tokens) == Deep(fs, tokens, Cardinality(DOMAIN fs))
Places(tokens, kinds) == {k \in DOMAIN tokens : tokens[k].kind \in kinds}
Without(tokens, kinds) == Subsequence(tokens, DOMAIN tokens \ Places(tokens, kinds))
Flat(fs, includes, tokens) ==
    IF includes THEN Deepest(fs, tokens) ELSE Without(tokens, {"include"})

(* The conditionals that are open at token k, and the macros defined there.  *)
Count(tokens, kinds, range) == Cardinality({m \in range : tokens[m].kind \in kinds})
IfKinds == {"ifdef", "ifndef"}
OpenAt(tokens, k) ==
    {j \in 1..k-1 :
       /\ tokens[j].kind \in IfKinds
       /\ \A m \in j+1..k-1 :
            Count(tokens, {"endif"}, j+1..m) <= Count(tokens, IfKinds, j+1..m)}

Sets(tok) == tok.kind = "undef" \/ (tok.kind = "define" /\ tok.lexes)
DefinedAt(tokens, k) ==
    {j \in 1..k-1 :
       /\ Sets(tokens[j]) /\ tokens[j].kind = "define"
       /\ \A m \in j+1..k-1 : Sets(tokens[m]) => tokens[m].name # tokens[j].name}
MacrosAt(tokens, k) ==
    [name \in {tokens[j].name : j \in DefinedAt(tokens, k)} |->
       tokens[CHOOSE j \in DefinedAt(tokens, k) : tokens[j].name = name].value]

ConditionHolds(tokens, j) ==
    (tokens[j].kind = "ifdef")
      = (\E d \in DefinedAt(tokens, j) : tokens[d].name = tokens[j].name)
Chosen(tokens, k) ==
    tokens[k].kind \in Text /\ \A j \in OpenAt(tokens, k) : ConditionHolds(tokens, j)
Selected(tokens) ==
    Subsequence([k \in DOMAIN tokens |-> Expanded(MacrosAt(tokens, k), tokens[k])],
                {k \in DOMAIN tokens : Chosen(tokens, k)})

Evaluated(tokens) ==
    LET defs == Subsequence(tokens, Places(tokens, {"pattern"}))
    IN  [k \in DOMAIN defs |-> evalPattern(defs[k])]

(* A file compiles if it, and what it includes, can be read; if there is no  *)
(* #error, selected or not; if every #endif has its #if; and if what is      *)
(* selected parses and can be evaluated to the end.                          *)
Evaluates(tokens) == \A k \in DOMAIN tokens : tokens[k].kind # "endless"
Meaning(fs, includes, f) ==
    LET tokens == Flat(fs, includes, fs[f].tokens)
        ok     == /\ fs[f].lexes
                  /\ \A k \in DOMAIN tokens :
                       /\ tokens[k].kind \notin {"error", "include"}
                       /\ Count(tokens, {"endif"}, 1..k) <= Count(tokens, IfKinds, 1..k)
                  /\ Parses(Selected(tokens)) /\ Evaluates(Selected(tokens))
    IN  [ok |-> ok, patterns |-> IF ok THEN Evaluated(Selected(tokens)) ELSE <<>>]

Meanings ==
    [fs \in FileSystems |->
       [includes \in BOOLEAN |-> [f \in DOMAIN fs |-> Meaning(fs, includes, f)]]]

(* The database with its loaders is a list of patterns to which a file is    *)
(* added as a whole or not at all, up to the first that does not compile: a  *)
(* load that takes effect when the file has been evaluated (database.go:182, *)
(* 206).                                                                     *)
Store == INSTANCE PatternStore
         WITH store <- IF pc = "register" THEN patterns \o compiled ELSE patterns,
              left  <- [k \in DOMAIN queue |-> Meanings[files][resolver][queue[k]]]
IsPatternStore == Store!StoreSpec

(* Unless files include each other in a circle, the preprocessor works       *)
(* through every file; that a conditional is around the #include breaks no   *)
(* circle (preprocessor.go:119). So a load returns, or parser or evaluator   *)
(* hang on a file whose own selected tokens have what they never end on: one *)
(* inside a conditional that does not hold is harmless.                      *)
Acyclic ==
    {fs \in FileSystems : \A f \in DOMAIN fs :
       \A k \in DOMAIN Deepest(fs, fs[f].tokens) :
         ~Opened(fs, Deepest(fs, fs[f].tokens)[k])}
HangsByItself(f) ==
    Places(Selected(Flat(files, resolver, files[f].tokens)), {"stuck", "endless"}) # {}
AcyclicLoadsEnd ==
    files \in Acyclic =>
        (pc = "walk" ~> pc = "ready" \/ (pc = "hung" /\ HangsByItself(Head(queue))))
=============================================================================
