----------------------------- MODULE MCRequests ------------------------------
(* Requests for approval: one key of the shell for ordinary commands, for a
   command with a prompt rule, for one with opaque syntax and for an escape to
   the host; two paths; one MCP tool.  Few are those of a patch and an MCP call. *)
Req(tool, keys, ev, prompt, reads) ==
  [tool |-> tool, keys |-> keys, ev |-> ev, prompt |-> prompt, reads |-> reads]
AskShell == Req("shell", {"k"}, "ask", "no", FALSE)
AskHost == Req("host", {"k"}, "ask", "no", TRUE)
AskPatch == Req("patch", {"p"}, "ask", "no", FALSE)
Some == {AskShell, AskHost,
         Req("shell", {"k"}, "ask", "rule", FALSE), Req("shell", {"k"}, "ask", "opaque", FALSE),
         Req("shell", {"k"}, "allow", "no", TRUE),
         Req("patch", {"p", "q"}, "ask", "no", FALSE),
         Req("shell", {"k"}, "deny", "no", FALSE),
         Req("mcp", {"m"}, "ask", "no", FALSE)}
Few == {AskPatch, Req("mcp", {"m"}, "ask", "no", FALSE)}
==============================================================================
