----------------------------- MODULE MCSendFlow -----------------------------
\* The instance of SendFlow that TLC checks: two invoices, of one and two sats.
EXTENDS SendFlow

MCInvoices == [kind : {"invoice"}, payee : {1, 2}]
=============================================================================
