------------------------------ MODULE MCHttpd ------------------------------
(***************************************************************************)
(* Few workers, few clients, and CGI programs that print no status, one    *)
(* the server takes and ones it does not.                                  *)
(***************************************************************************)
EXTENDS Httpd

MCOutputs == { [head |-> "plain", code |-> 0], [head |-> "Status:", code |-> 403],
               [head |-> "Status:", code |-> 500], [head |-> "HTTP/1.", code |-> 999] }
=============================================================================
