SPECIFICATION Spec
CONSTANTS
    r1 = r1
    r2 = r2
    Reservations = {r1, r2}
    Bookings <- MCBookings
    NoBooking = NoBooking
    NoRow = NoRow
    Dates = {1, 2, 3}
    Horizon = 2
    PickupDays = {1, 2}
    MaxChanges = 2
    MaxJobs = 3
SYMMETRY ReservationSymmetry
INVARIANT ArrivalIsReal
