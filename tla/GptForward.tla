---------------------------- MODULE GptForward ----------------------------
(***************************************************************************)
(* The forward pass of the GPT-2 model (m6/gpt.c) as data flow: where each *)
(* tensor lies, and which addresses every unit of work of every layer      *)
(* reads and writes.  Floating point values are left out.  The batch size  *)
(* is 1, as in every call of gpt2_forward.                                 *)
(***************************************************************************)
EXTENDS Integers, Sequences

CONSTANTS V, L, NH, C,    \* vocabulary, layers, heads, channels
          maxT,           \* longest sequence the position embedding knows
          Limit           \* n of main: the number of tokens

ASSUME ForwardAssumption ==
    /\ {V, L, NH, C, Limit} \subseteq Nat \ {0} /\ maxT \in Nat
    /\ C % NH = 0

\* The tensors in the order in which the two malloc_and_point functions lay
\* them out, and the sizes in the order of param_sizes and act_sizes.
ParamNames == << "wte", "wpe", "ln1w", "ln1b", "qkvw", "qkvb", "attprojw", "attprojb",
                 "ln2w", "ln2b", "fcw", "fcb", "fcprojw", "fcprojb", "lnfw", "lnfb" >>

ParamSizes == << V * C, maxT * C, L * C, L * C, L * (3 * C) * C, L * (3 * C),
                 L * C * C, L * C, L * C, L * C, L * (4 * C) * C, L * (4 * C),
                 L * C * (4 * C), L * C, C, C >>

ActNames == << "encoded", "ln1", "ln1_mean", "ln1_rstd", "qkv", "atty", "preatt", "att",
               "attproj", "residual2", "ln2", "ln2_mean", "ln2_rstd", "fch", "fch_gelu",
               "fcproj", "residual3", "lnf", "lnf_mean", "lnf_rstd", "logits", "probs",
               "losses" >>

\* Faulty variant: the score matrices of one head only.
ActSizesOneHead(T) ==
    << T * C, L * T * C, L * T, L * T, L * T * 3 * C, L * T * C, L * T * T, L * T * T,
       L * T * C, L * T * C, L * T * C, L * T, L * T, L * T * 4 * C, L * T * 4 * C,
       L * T * C, L * T * C, T * C, T, T, T * V, T * V, T >>

ActSizes(T) ==
    << T * C, L * T * C, L * T, L * T, L * T * 3 * C, L * T * C, L * NH * T * T,
       L * NH * T * T, L * T * C, L * T * C, L * T * C, L * T, L * T, L * T * 4 * C,
       L * T * 4 * C, L * T * C, L * T * C, T * C, T, T, T * V, T * V, T >>

\* Where the tensors end, lying one behind the other from 0.
Ends(sizes) ==
    LET end[i \in 0 .. Len(sizes)] == IF i = 0 THEN 0 ELSE end[i - 1] + sizes[i]
    IN  end

\* name -> where the tensor begins.
PointAt(names, sizes) ==
    [ x \in {names[j] : j \in DOMAIN names} |->
        Ends(sizes)[(CHOOSE j \in DOMAIN names : names[j] = x) - 1] ]

Param == PointAt(ParamNames, ParamSizes)

\* T -> the activations of a pass over T tokens.
Acts == [T \in 1 .. Limit |-> PointAt(ActNames, ActSizes(T))]

\* num_parameters and num_activations.
ParamsLen == Ends(ParamSizes)[Len(ParamSizes)]
ActsLen == [T \in 1 .. Limit |-> Ends(ActSizes(T))[Len(ActSizes(T))]]

Run(a, len) == a .. a + len - 1

----------------------------------------------------------------------------
(* The layers.  A layer is its number of units and, for every unit, the    *)
(* activations it reads and writes and the parameters it reads.            *)

Layer(total, reads(_), writes(_), params(_)) ==
    [ total |-> total,
      unit  |-> [u \in 0 .. total - 1 |->
                    [reads |-> reads(u), writes |-> writes(u), params |-> params(u)]] ]

\* The row of wte depends on the token and is added by TokenRow.
Encoder(T, out) ==
    Layer(T, LAMBDA u : {},
             LAMBDA u : Run(out + u * C, C),
             LAMBDA u : Run(Param.wpe + u * C, C))

Layernorm(T, out, mean, rstd, inp, w, b) ==
    Layer(T, LAMBDA u : Run(inp + u * C, C),
             LAMBDA u : Run(out + u * C, C) \cup {mean + u, rstd + u},
             LAMBDA u : Run(w, C) \cup Run(b, C))

\* bias is a set of at most one address: none for the last multiplication.
Matmul(T, out, inp, w, bias, IC, OC) ==
    Layer(T * OC, LAMBDA u : Run(inp + (u \div OC) * IC, IC),
                  LAMBDA u : {out + (u \div OC) * OC + (u % OC)},
                  LAMBDA u : Run(w + (u % OC) * IC, IC) \cup {b + (u % OC) : b \in bias})

Attention(T, out, preatt, att, inp) ==
    LET C3 == C * 3
        hs == C \div NH
        pos(u) == u \div NH
        head(u) == u % NH
        row(u) == head(u) * T * T + pos(u) * T
    IN  Layer(T * NH,
              LAMBDA u : Run(inp + pos(u) * C3 + head(u) * hs, hs)
                         \cup UNION {Run(inp + t2 * C3 + head(u) * hs + k * C, hs) :
                                        t2 \in 0 .. pos(u), k \in {1, 2}},
              LAMBDA u : Run(preatt + row(u), pos(u) + 1) \cup Run(att + row(u), T)
                         \cup Run(out + pos(u) * C + head(u) * hs, hs),
              LAMBDA u : {})

Gelu(out, inp, N) ==
    Layer(N, LAMBDA u : {inp + u}, LAMBDA u : {out + u}, LAMBDA u : {})

Residual(out, inp1, inp2, N) ==
    Layer(N, LAMBDA u : {inp1 + u, inp2 + u}, LAMBDA u : {out + u}, LAMBDA u : {})

Softmax(T, probs, logits) ==
    Layer(T, LAMBDA u : Run(logits + u * V, V),
             LAMBDA u : Run(probs + u * V, V),
             LAMBDA u : {})

\* The ten calls for layer l; the input is what the layer before it left.
Block(T, l) ==
    LET a == Acts[T]
        p == Param
        n == l * T * C
        residual  == IF l = 0 THEN a.encoded ELSE a.residual3 + (l - 1) * T * C
        residual2 == a.residual2 + n
        qkv == a.qkv + l * T * 3 * C
        fch == a.fch + l * T * 4 * C
        gelu == a.fch_gelu + l * T * 4 * C
    IN  << Layernorm(T, a.ln1 + n, a.ln1_mean + l * T, a.ln1_rstd + l * T, residual,
                     p.ln1w + l * C, p.ln1b + l * C),
           Matmul(T, qkv, a.ln1 + n, p.qkvw + l * 3 * C * C, {p.qkvb + l * 3 * C}, C, 3 * C),
           Attention(T, a.atty + n, a.preatt + l * NH * T * T, a.att + l * NH * T * T, qkv),
           Matmul(T, a.attproj + n, a.atty + n, p.attprojw + l * C * C,
                  {p.attprojb + l * C}, C, C),
           Residual(residual2, residual, a.attproj + n, T * C),
           Layernorm(T, a.ln2 + n, a.ln2_mean + l * T, a.ln2_rstd + l * T, residual2,
                     p.ln2w + l * C, p.ln2b + l * C),
           Matmul(T, fch, a.ln2 + n, p.fcw + l * 4 * C * C, {p.fcb + l * 4 * C}, C, 4 * C),
           Gelu(gelu, fch, T * 4 * C),
           Matmul(T, a.fcproj + n, gelu, p.fcprojw + l * C * 4 * C,
                  {p.fcprojb + l * C}, 4 * C, C),
           Residual(a.residual3 + n, residual2, a.fcproj + n, T * C) >>

NumOps == 10 * L + 4

\* gpt2_forward: the calls of parallel_for in their order.
Op(T, k) ==
    LET a == Acts[T]
        p == Param
    IN  CASE k = 1 -> Encoder(T, a.encoded)
          [] k \in 2 .. 10 * L + 1 -> Block(T, (k - 2) \div 10)[((k - 2) % 10) + 1]
          [] k = 10 * L + 2 -> Layernorm(T, a.lnf, a.lnf_mean, a.lnf_rstd,
                                         a.residual3 + (L - 1) * T * C, p.lnfw, p.lnfb)
          [] k = 10 * L + 3 -> Matmul(T, a.logits, a.lnf, p.wte, {}, C, V)
          [] k = 10 * L + 4 -> Softmax(T, a.probs, a.logits)

Program == [T \in 1 .. Limit - 1 |-> [k \in 1 .. NumOps |-> Op(T, k)]]

\* The row of the token embedding for a token.
TokenRow(token) == Run(Param.wte + token * C, C)
=============================================================================
