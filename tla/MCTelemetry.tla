------------------------------ MODULE MCTelemetry ------------------------------
EXTENDS Telemetry
CONSTANTS u1
===============================================================================
