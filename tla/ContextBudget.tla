--------------------------- MODULE ContextBudget ---------------------------
(***************************************************************************)
(* ContextBudgetManager.assemble_context: which symbols and which memory   *)
(* snippets go into a prompt, and what is flagged as truncated.  Sizes are *)
(* in tokens; the relevance of a symbol is a float, so the ranked list is  *)
(* any list.  The program exports the class and does not use it.           *)
(***************************************************************************)
EXTENDS Naturals, Sequences

CONSTANTS
    Windows,        \* context windows of CAPABILITY_MATRIX
    SymbolSizes,    \* [sig |-> signature and docstring, file |-> the file it is in]
    SnippetSizes,
    Instructions,   \* sizes of the task instruction
    SystemSize,     \* the system message
    BodyCap,        \* _read_file_content keeps 8000 characters (2000)
    Wrapping,       \* wrap_untrusted_content puts a frame around a body
    NoteSize,       \* "...[body truncated, budget constrained]"
    HeaderSize,     \* "### Relevant Context & Memory:"
    MaxItems        \* bound on the symbols and on the snippets

VARIABLES
    window, ranked, snippets, instruction,
    entries,        \* what each symbol seen so far became: "full", "signature" or "none"
    truncated,      \* its context_truncated
    used,           \* used_symbol_tokens
    taken, memory,  \* snippets taken, used_memory_tokens
    stage           \* "symbols", "memory" or "done"

inputs == <<window, ranked, snippets, instruction>>
vars == <<inputs, entries, truncated, used, taken, memory, stage>>

Lists(S) == UNION {[1 .. n -> S] : n \in 0 .. MaxItems}

Init ==
    /\ window \in Windows /\ instruction \in Instructions
    /\ ranked \in Lists(SymbolSizes) /\ snippets \in Lists(SnippetSizes)
    /\ entries = <<>> /\ truncated = <<>> /\ used = 0
    /\ taken = 0 /\ memory = IF snippets = <<>> THEN 0 ELSE HeaderSize
    /\ stage = "symbols"

----------------------------------------------------------------------------
\* budget_limits; the symbols pay for a system message beyond its own share.
Share(percent) == (window * percent) \div 100
SymbolBudget ==
    LET excess == IF SystemSize > Share(15) THEN SystemSize - Share(15) ELSE 0
    IN  IF Share(55) > excess THEN Share(55) - excess ELSE 0

Body(symbol) == Wrapping + (IF symbol.file < BodyCap THEN symbol.file ELSE BodyCap)

\* A symbol becomes an entry of this form.
Enter(form, tokens) ==
    /\ entries' = Append(entries, form)
    /\ truncated' = Append(truncated, form # "full")
    /\ used' = used + tokens
    /\ UNCHANGED <<inputs, taken, memory, stage>>

\* Mutant of AddSymbol: a symbol for which nothing is left is passed over.
AddSymbolQuietly ==
    LET symbol == ranked[Len(entries) + 1]
        remaining == SymbolBudget - used
    IN  /\ stage = "symbols" /\ Len(entries) < Len(ranked)
        /\ IF used >= SymbolBudget
           THEN /\ entries' = Append(entries, "none") /\ truncated' = Append(truncated, FALSE)
                /\ UNCHANGED <<inputs, used, taken, memory, stage>>
           ELSE IF symbol.sig * 2 <= remaining THEN Enter("full", symbol.sig + Body(symbol))
           ELSE Enter("none", 0)

\* The next symbol of the ranking.  The body is the head of its file, however
\* long, once twice the signature fits.
AddSymbol ==
    LET symbol == ranked[Len(entries) + 1]
        remaining == SymbolBudget - used
    IN  /\ stage = "symbols" /\ Len(entries) < Len(ranked)
        /\ IF used >= SymbolBudget THEN Enter("none", 0)
           ELSE IF symbol.sig * 2 <= remaining THEN Enter("full", symbol.sig + Body(symbol))
           ELSE IF symbol.sig <= remaining THEN Enter("signature", symbol.sig + NoteSize)
           ELSE Enter("none", 0)

EndSymbols ==
    /\ stage = "symbols" /\ Len(entries) = Len(ranked)
    /\ stage' = "memory" /\ UNCHANGED <<inputs, entries, truncated, used, taken, memory>>

\* Snippets are taken in order up to the first that does not fit; the others
\* are dropped, unflagged.
AddSnippet ==
    /\ stage = "memory" /\ taken < Len(snippets)
    /\ memory + snippets[taken + 1] <= Share(20)
    /\ taken' = taken + 1 /\ memory' = memory + snippets[taken + 1]
    /\ UNCHANGED <<inputs, entries, truncated, used, stage>>
EndSnippets ==
    /\ stage = "memory"
    /\ taken < Len(snippets) => memory + snippets[taken + 1] > Share(20)
    /\ stage' = "done" /\ UNCHANGED <<inputs, entries, truncated, used, taken, memory>>

Next == AddSymbol \/ EndSymbols \/ AddSnippet \/ EndSnippets

Spec == Init /\ [][Next]_vars

\* total_tokens_used, headroom_remaining.
Total == SystemSize + memory + used + instruction
HeadroomRemaining == IF window > Total THEN window - Total ELSE 0

----------------------------------------------------------------------------
TypeOK ==
    /\ Len(entries) <= Len(ranked) /\ Len(truncated) = Len(entries)
    /\ used \in Nat /\ memory \in Nat /\ taken \in 0 .. Len(snippets)
    /\ stage \in {"symbols", "memory", "done"}

\* Nothing of a ranked symbol is left out unflagged, but what its file has
\* beyond the 8000 characters that are read; and though the last body is not
\* weighed against the budget, the symbols exceed it by one body at most, so
\* that the prompt fits every window whose reserve holds one body, with an
\* instruction no longer than what the system message leaves
\* (assemble_context).
BudgetFlagged ==
    stage = "done" =>
        /\ \A i \in DOMAIN ranked : ~truncated[i] => entries[i] = "full"
        /\ used <= SymbolBudget + BodyCap + Wrapping
        /\ (/\ BodyCap + Wrapping <= Share(10)
            /\ HeaderSize <= Share(20) /\ SystemSize + instruction <= Share(15))
              => Total <= window /\ HeadroomRemaining = window - Total
=============================================================================
