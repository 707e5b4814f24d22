------------------------------- MODULE MCCar -------------------------------
(***************************************************************************)
(* A small instance of Car: two pieces and two wheels that break in every  *)
(* way while the car moves through every way of stopping.                  *)
(***************************************************************************)
EXTENDS Car

=============================================================================
