------------------------------ MODULE MCRegistry ------------------------------
(***************************************************************************)
(* Artifacts for model-checking Registry: three or four slots, each with   *)
(* the few builds that its path may hold.                                  *)
(***************************************************************************)
EXTENDS Registry

CONSTANTS a, b, c, d,       \* slots
          x, y, z,          \* services
          t1, t2, t3,       \* tools
          ev                \* an event

NoTools == [t \in Tools |-> {}]

Decl(injects, provides) ==
    [injects |-> injects, provides |-> provides, tools |-> {},
     requires |-> NoTools, hooks |-> {ev}]

DeclTool(injects, provides, t, requires) ==
    [Decl(injects, provides) EXCEPT !.tools = {t}, !.requires[t] = requires]

\* A diamond of services, b and c on a, d on both, and a chain of tools in
\* it.  Every slot has a second build that breaks the diamond: a stops
\* providing x, b stops needing it, c starts needing b, d takes c's tool name;
\* a third build of d contests x.
DiamondArtifacts ==
    [s \in Slots |->
        CASE s = a -> {DeclTool({}, {x}, t1, {}), Decl({}, {})}
          [] s = b -> {DeclTool({x}, {y}, t2, {t1}), DeclTool({}, {y}, t2, {})}
          [] s = c -> {DeclTool({x}, {z}, t3, {t2, t1}), Decl({x, y}, {z})}
          [] s = d -> {Decl({y, z}, {}), DeclTool({z}, {}, t3, {t2}), Decl({y}, {x})}]

\* a and b provide the same service and both wait for x, which b or c may
\* come to provide; the three tools require each other in a ring, and c has
\* a build that declares the tool name of a.
ClashArtifacts ==
    [s \in Slots |->
        CASE s = a -> {DeclTool({x}, {y}, t1, {t3}), Decl({}, {x})}
          [] s = b -> {DeclTool({x}, {y}, t2, {t1}), Decl({y}, {x, y})}
          [] s = c -> {DeclTool({y}, {}, t3, {t2}), DeclTool({}, {x}, t1, {})}]

\* A ring: b needs a, c needs b, and a new build of a needs c.
RingArtifacts ==
    [s \in Slots |->
        CASE s = a -> {Decl({}, {x}), Decl({z}, {x})}
          [] s = b -> {Decl({x}, {y})}
          [] s = c -> {Decl({y}, {z})}]
==============================================================================
